------------------------------ MODULE Listen -------------------------------
(***************************************************************************)
(* The listen specification and what listen_parse (listen.c) makes of it.  *)
(* A specification is a sequence of characters, but that a run of digits   *)
(* counts as one and the two prefixes do; no two numbers are adjacent.     *)
(***************************************************************************)
EXTENDS Integers, Sequences

CONSTANTS
    Numbers,    \* runs of digits
    ValueOf     \* what strtol makes of them

\* A run of digits is none of the other characters.
ASSUME ListenAssumption ==
    /\ ValueOf \in [Numbers -> Nat]
    /\ Numbers \cap {" ", "-", ":", "spice://", "spice+unix://"} = {}

NoPort == -1
ParseError == [ok |-> FALSE, addr |-> <<>>, start |-> NoPort, end |-> NoPort]

\* Where the longest end of s that is made of K alone begins, less one.
LastNotIn(s, K) ==
    CHOOSE i \in 0..Len(s) :
        /\ i = 0 \/ s[i] \notin K
        /\ \A j \in (i + 1)..Len(s) : s[j] \in K

\* The port or ports at the end, or none.
IsPorts(s) ==
    \/ s = <<>>
    \/ Len(s) = 1 /\ s[1] \in Numbers
    \/ Len(s) = 3 /\ s[1] \in Numbers /\ s[2] = "-" /\ s[3] \in Numbers

\* The loop goes on over white space, digits and hyphens from the end.
ParseAnyHost(s) ==
    LET trimmed == SubSeq(s, 1, LastNotIn(s, {" "}))
        p == LastNotIn(trimmed, Numbers \cup {"-"})
        tail == SubSeq(trimmed, p + 1, Len(trimmed))
    IN IF ~IsPorts(tail) THEN ParseError
       ELSE [ok |-> TRUE,
             addr |-> SubSeq(trimmed, 1, p),
             start |-> IF Len(tail) = 3 THEN ValueOf[tail[1]] ELSE NoPort,
             end |-> IF tail = <<>> THEN NoPort ELSE ValueOf[tail[Len(tail)]]]

\* The colon belongs to neither.  p > listen_spec leaves the first character alone,
\* colon or not.
ParseHostAndPorts(s) ==
    LET parsed == ParseAnyHost(s)
        p == Len(parsed.addr)
        colon == p > 1 /\ parsed.addr[p] = ":"
    IN IF parsed.ok /\ parsed.end # NoPort /\ p > 1 /\ ~colon THEN ParseError
       ELSE [ok |-> parsed.ok,
             addr |-> SubSeq(parsed.addr, 1, IF colon THEN p - 1 ELSE p),
             start |-> parsed.start, end |-> parsed.end]

\* The colon is left with the address.
ListenParseWithColon(s) ==
    IF s # <<>> /\ Head(s) = "spice://" THEN ParseAnyHost(Tail(s)) ELSE ParseAnyHost(s)

\* listen_parse
ListenParse(s) ==
    IF s # <<>> /\ Head(s) = "spice+unix://"
    THEN [ok |-> TRUE, addr |-> Tail(s), start |-> NoPort, end |-> NoPort]
    ELSE ParseHostAndPorts(IF s # <<>> /\ Head(s) = "spice://" THEN Tail(s) ELSE s)

-----------------------------------------------------------------------------
(* What the manual says: "[[host]:[port][-end-port]", the default port 5900 *)

\* host:port-end as one writes it; no end port when end is start.
Written(host, colon, start, end) ==
    host \o (IF colon THEN <<":">> ELSE <<>>)
         \o (IF end = start THEN <<start>> ELSE <<start, "-", end>>)

Meant(host, start, end) ==
    [ok |-> TRUE, addr |-> host,
     start |-> IF end = start THEN NoPort ELSE ValueOf[start],
     end |-> ValueOf[end]]
=============================================================================
