--------------------------- MODULE BinaryProtocol ---------------------------
(***************************************************************************)
(* What goes over the wire: market events (binary-protocol.cpp) and        *)
(* requests for missing messages (RetransmitRequest, tcp-retransmit.cpp).  *)
(* Every integer is written most significant byte first.  The widths are   *)
(* constants, so that the numbers of a small model fill their type, the    *)
(* sign bit included.                                                      *)
(***************************************************************************)
EXTENDS Integers, SequencesExt

CONSTANTS BYTE,         \* values of a byte: 256
          ID_BYTES,     \* uint64_t: 8
          WORD_BYTES    \* int32_t and uint32_t: 4

ASSUME WidthAssumption ==
    /\ BYTE \in Nat /\ BYTE >= 4        \* the members of the largest enum
    /\ {ID_BYTES, WORD_BYTES} \subseteq Nat \ {0}

\* What ^ is, as far as the widths go: the provers take it as unknown.
ASSUME PowerAssumption ==
    /\ BYTE ^ 0 = 1
    /\ \A k \in {ID_BYTES, WORD_BYTES} : \A n \in 0 .. k :
          BYTE ^ n \in Nat /\ (n < k => BYTE ^ (n + 1) = BYTE * BYTE ^ n)

WORD_RANGE == BYTE ^ WORD_BYTES

\* htonl and htonll, followed by the copy into the buffer.
Network(n, bytes) == [i \in 1 .. bytes |-> (n \div BYTE ^ (bytes - i)) % BYTE]

\* The copy out of the buffer, followed by ntohl or ntohll.
Host(wire) ==
    LET value[i \in 0 .. Len(wire)] ==
            IF i = 0 THEN 0 ELSE value[i - 1] * BYTE + wire[i]
    IN  value[Len(wire)]

\* static_cast between int32_t and uint32_t
Unsigned(n) == n % WORD_RANGE
Signed(n) == IF 2 * n >= WORD_RANGE THEN n - WORD_RANGE ELSE n

-----------------------------------------------------------------------------
(* BinaryProtocol *)

\* The enumerators of MarketEvent::Type and Order::Side, from 0 on.
Types == <<"Add", "Cancel", "Trade", "Update">>
SideNames == <<"Buy", "Sell">>
Enumerator(names, x) == (CHOOSE i \in 1 .. Len(names) : names[i] = x) - 1

encode(event) ==
    <<Enumerator(Types, event.type)>>
        \o Network(event.order.order_id, ID_BYTES)
        \o Network(Unsigned(event.order.price), WORD_BYTES)
        \o Network(event.order.quantity, WORD_BYTES)
        \o <<Enumerator(SideNames, event.order.side)>>

\* The field of `bytes' bytes behind the first `offset' bytes.
Field(wire, offset, bytes) == SubSeq(wire, offset + 1, offset + bytes)

decode(wire) ==
    LET price == 1 + ID_BYTES
        quantity == price + WORD_BYTES
        side == quantity + WORD_BYTES
    IN  [type |-> Types[wire[1] + 1],
         order |-> [order_id |-> Host(Field(wire, 1, ID_BYTES)),
                    price |-> Signed(Host(Field(wire, price, WORD_BYTES))),
                    quantity |-> Host(Field(wire, quantity, WORD_BYTES)),
                    side |-> SideNames[wire[side + 1] + 1]]]

-----------------------------------------------------------------------------
(* RetransmitRequest: the packets first .. last - 1 *)

serialize(request) == Network(request.first, ID_BYTES)
                        \o Network(request.last, ID_BYTES)

parse(wire) == [first |-> Host(Field(wire, 0, ID_BYTES)),
                last |-> Host(Field(wire, ID_BYTES, ID_BYTES))]
=============================================================================
