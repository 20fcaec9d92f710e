------------------------------- MODULE MCWire -------------------------------
(***************************************************************************)
(* A small instance of Wire for TLC: every kind of PacketSpec, bytes of    *)
(* base 4.                                                                 *)
(***************************************************************************)
EXTENDS Wire

Fixed(n)  == [type |-> "fixed", size |-> n]
Sized(t)  == [type |-> t, size |-> -1]

MCReceive ==
    [op \in {0, 1, 5, 6, 9, 10, 13} |->
        CASE op = 0  -> Fixed(2)
          [] op = 1  -> [type |-> "fixedMin", size |-> 2]
          [] op = 5  -> Fixed(3)
          [] op = 6  -> Sized("indicated")
          [] op = 9  -> Sized("http")
          [] op = 10 -> Sized("unknown")
          [] op = 13 -> Fixed(-1)]

MCSend == [op \in {4, 5, 6} |-> IF op = 4 THEN Fixed(2) ELSE MCReceive[op]]

MCDelimiter == <<3, 0>>
MCClientAddr == <<2>>
MCServerAddr == <<1, 3>>

Digits(n) == <<n % 4, n \div 4>>

\* A packet: bytes 3 and 4 of an indicated one are its size.
Packet(op, body, sum) ==
    LET head == Digits(op) \o (IF op = 6 THEN Digits(4 + Len(body))
                                ELSE IF op = 9 THEN <<1, 1>> ELSE <<>>)
    IN  [real |-> TRUE, bytes |-> head \o body, opcode |-> op, payload |-> body, sum |-> sum]

Junk(bytes) == [real |-> FALSE, bytes |-> bytes, opcode |-> 0, payload |-> <<>>, sum |-> <<>>]

MCSegments ==
    [c2s |-> {Packet(4, <<>>, s) : s \in {<<>>, <<0>>, <<1>>}}
             \cup {Packet(5, <<b>>, s) : b \in {1, 2}, s \in {<<>>, <<2>>}}
             \cup {Packet(6, <<>>, <<>>), Packet(6, <<1>>, <<3>>), Junk(<<3>>)},
     s2c |-> {Packet(0, <<>>, <<>>), Packet(1, <<>>, <<>>), Packet(5, <<1>>, <<>>),
              Packet(6, <<>>, <<>>), Packet(6, <<2>>, <<>>), Packet(9, <<3, 3, 0>>, <<>>)}
             \cup {Junk(b) : b \in {<<1>>, <<2, 2, 3>>, <<2, 1, 0, 0>>, <<1, 3>>}}]
=============================================================================
