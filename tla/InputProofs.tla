---------------------------- MODULE InputProofs ----------------------------
(***************************************************************************)
(* Proofs about Input, for any keys, buttons, places and length of the     *)
(* FIFO.                                                                   *)
(***************************************************************************)
EXTENDS Input, FiniteSetTheorems, FunctionTheorems, SequenceTheorems, TLAPS

-----------------------------------------------------------------------------
(* Events *)

\* An event is about one device, a button, the wheel or an axis: its code.
Waits(s, c) == \E i \in DOMAIN s : s[i].code = c
Latest(s, c, i) == i \in DOMAIN s /\ s[i].code = c /\ \A j \in DOMAIN s : s[j].code = c => j <= i

\* Once s has been read device c, which has this value now, has come to another.
Comes(s, c, now, value) ==
    /\ \A i \in DOMAIN s : Latest(s, c, i) => s[i].value = value
    /\ ~Waits(s, c) => now = value

\* No button or wheel is among the events: none of them sets buttons_state.
Quiet(s) == \A i \in DOMAIN s : s[i].type = "abs"

\* The value that an event has for a button.
Bit(S, i) == IF i \in S THEN 1 ELSE 0

\* Reading from the FIFO ...
LEMMA TailOf ==
    ASSUME NEW S, NEW s \in Seq(S), s # <<>>
    PROVE  /\ Head(s) = s[1] /\ 1 \in DOMAIN s
           /\ \A i \in DOMAIN Tail(s) : i \in Nat /\ i + 1 \in DOMAIN s /\ Tail(s)[i] = s[i + 1]
           /\ \A i \in DOMAIN s : i \in Nat /\ (i = 1 \/ i - 1 \in DOMAIN Tail(s))
  OBVIOUS

\* ... brings a device to what its next event says.
LEMMA ComesTail ==
    ASSUME NEW S, NEW s \in Seq(S), s # <<>>, NEW c, NEW now, NEW value, Comes(s, c, now, value)
    PROVE  Comes(Tail(s), c, IF Head(s).code = c THEN Head(s).value ELSE now, value)
<1> DEFINE t == Tail(s)
<1>1. /\ Head(s) = s[1] /\ 1 \in DOMAIN s
      /\ \A i \in DOMAIN t : i \in Nat /\ i + 1 \in DOMAIN s /\ t[i] = s[i + 1]
      /\ \A i \in DOMAIN s : i \in Nat /\ (i = 1 \/ i - 1 \in DOMAIN t)
  BY TailOf
<1> HIDE DEF t
<1>2. ASSUME NEW i \in DOMAIN t, Latest(t, c, i) PROVE t[i].value = value
  <2>1. \A j \in DOMAIN s : s[j].code = c => j <= i + 1
    <3> SUFFICES ASSUME NEW j \in DOMAIN s, s[j].code = c, j # 1 PROVE j <= i + 1
      BY <1>1
    <3>1. j - 1 \in DOMAIN t /\ j \in Nat
      BY <1>1
    <3>2. t[j - 1] = s[j]
      <4>1. t[j - 1] = s[(j - 1) + 1]
        BY <1>1, <3>1
      <4> QED
        BY <3>1, <4>1
    <3>3. j - 1 <= i
      BY <1>2, <3>1, <3>2 DEF Latest
    <3> QED
      BY <1>1, <3>1, <3>3
  <2>2. Latest(s, c, i + 1)
    BY <1>1, <1>2, <2>1 DEF Latest
  <2> QED
    BY <1>1, <2>2 DEF Comes
<1>3. ASSUME ~Waits(t, c) PROVE (IF s[1].code = c THEN s[1].value ELSE now) = value
  <2>1. \A j \in DOMAIN s : s[j].code = c => j = 1
    <3> SUFFICES ASSUME NEW j \in DOMAIN s, j # 1 PROVE s[j].code # c
      OBVIOUS
    <3>1. j - 1 \in DOMAIN t /\ j \in Nat
      BY <1>1
    <3>2. t[j - 1] = s[(j - 1) + 1]
      BY <1>1, <3>1
    <3>3. t[j - 1] = s[j]
      BY <3>1, <3>2
    <3> QED
      BY <1>3, <3>1, <3>3 DEF Waits
  <2>2. CASE s[1].code = c
    BY <1>1, <2>1, <2>2 DEF Comes, Latest
  <2>3. CASE s[1].code # c
    <3>1. ~Waits(s, c)
      BY <2>1, <2>3 DEF Waits
    <3> QED
      BY <2>3, <3>1 DEF Comes
  <2> QED
    BY <2>2, <2>3
<1> QED
  BY <1>1, <1>2, <1>3 DEF Comes, t

\* Writing to the FIFO ...
LEMMA Appended ==
    ASSUME NEW S, NEW s \in Seq(S), NEW t \in Seq(S)
    PROVE  /\ s \o t \in Seq(S) /\ DOMAIN s \subseteq Nat /\ DOMAIN t \subseteq Nat
           /\ DOMAIN (s \o t) \subseteq Nat /\ Len(s) \in Nat
           /\ \A i \in DOMAIN s : i \in DOMAIN (s \o t) /\ (s \o t)[i] = s[i] /\ i <= Len(s)
           /\ \A i \in DOMAIN t : i + Len(s) \in DOMAIN (s \o t) /\ (s \o t)[i + Len(s)] = t[i] /\ i > 0
           /\ \A i \in DOMAIN (s \o t) : i \in DOMAIN s \/ (i - Len(s) \in DOMAIN t /\ i > Len(s))
  OBVIOUS

\* ... for another device changes nothing ...
LEMMA ComesPast ==
    ASSUME NEW S, NEW s \in Seq(S), NEW t \in Seq(S), NEW c, NEW now, NEW value,
           Comes(s, c, now, value), ~Waits(t, c)
    PROVE  Comes(s \o t, c, now, value)
<1> DEFINE u == s \o t
<1>1. /\ DOMAIN s \subseteq Nat /\ DOMAIN u \subseteq Nat
      /\ \A i \in DOMAIN s : i \in DOMAIN u /\ u[i] = s[i]
      /\ \A i \in DOMAIN u : u[i].code = c => i \in DOMAIN s
  <2>1. ASSUME NEW i \in DOMAIN u, i \notin DOMAIN s PROVE u[i].code # c
    <3>1. i - Len(s) \in DOMAIN t /\ i \in Nat /\ Len(s) \in Nat
      BY <2>1, Appended
    <3>2. u[(i - Len(s)) + Len(s)] = t[i - Len(s)]
      BY <3>1, Appended
    <3>3. u[i] = t[i - Len(s)]
      BY <3>1, <3>2
    <3> QED
      BY <3>1, <3>3 DEF Waits
  <2> QED
    BY <2>1, Appended
<1> HIDE DEF u
<1>2. ASSUME NEW i \in DOMAIN u, Latest(u, c, i) PROVE u[i].value = value
  <2>1. Latest(s, c, i)
    BY <1>1, <1>2 DEF Latest
  <2> QED
    BY <1>1, <2>1 DEF Comes, Latest
<1>3. Waits(s, c) => Waits(u, c)
  BY <1>1 DEF Waits
<1> QED
  BY <1>2, <1>3 DEF Comes, u

\* ... and one or more that agree decide where a device comes to.
LEMMA ComesAnew ==
    ASSUME NEW S, NEW s \in Seq(S), NEW t \in Seq(S), NEW c, NEW now, NEW value, Waits(t, c),
           \A i \in DOMAIN t : t[i].code = c => t[i].value = value
    PROVE  Comes(s \o t, c, now, value)
<1> DEFINE u == s \o t
<1>1. PICK k \in DOMAIN t : t[k].code = c
  BY DEF Waits
<1>2. k + Len(s) \in DOMAIN u /\ u[k + Len(s)].code = c /\ k \in Nat /\ k > 0 /\ Len(s) \in Nat
  BY <1>1, Appended
<1>3. ASSUME NEW i \in DOMAIN u, Latest(u, c, i) PROVE u[i].value = value
  <2>1. k + Len(s) <= i /\ i \in Nat
    BY <1>2, <1>3, Appended DEF Latest
  <2>2. i - Len(s) \in DOMAIN t
    BY <1>2, <2>1, Appended
  <2>3. u[(i - Len(s)) + Len(s)] = t[i - Len(s)]
    BY <2>2, Appended
  <2>4. u[i] = t[i - Len(s)]
    BY <1>2, <2>1, <2>3
  <2> QED
    BY <1>3, <2>2, <2>4 DEF Latest
<1>4. Waits(u, c)
  BY <1>2 DEF Waits
<1> QED
  BY <1>3, <1>4 DEF Comes

\* Both parts of what is written wait.
LEMMA TogetherWait ==
    ASSUME NEW S, NEW s \in Seq(S), NEW t \in Seq(S)
    PROVE  /\ \A c : Waits(s \o t, c) <=> Waits(s, c) \/ Waits(t, c)
           /\ Quiet(s \o t) <=> Quiet(s) /\ Quiet(t)
<1> DEFINE u == s \o t
<1>1. /\ \A i \in DOMAIN s : i \in DOMAIN u /\ u[i] = s[i]
      /\ \A i \in DOMAIN t : \E j \in DOMAIN u : u[j] = t[i]
      /\ \A i \in DOMAIN u : (i \in DOMAIN s /\ u[i] = s[i]) \/ \E j \in DOMAIN t : u[i] = t[j]
  <2>1. ASSUME NEW i \in DOMAIN u, i \notin DOMAIN s PROVE \E j \in DOMAIN t : u[i] = t[j]
    <3>1. i - Len(s) \in DOMAIN t /\ i \in Nat /\ Len(s) \in Nat
      BY <2>1, Appended
    <3>2. u[(i - Len(s)) + Len(s)] = t[i - Len(s)]
      BY <3>1, Appended
    <3> QED
      BY <3>1, <3>2
  <2>2. ASSUME NEW i \in DOMAIN t PROVE \E j \in DOMAIN u : u[j] = t[i]
    <3>1. i + Len(s) \in DOMAIN u /\ u[i + Len(s)] = t[i]
      BY Appended
    <3> QED
      BY <3>1
  <2>3. \A i \in DOMAIN s : i \in DOMAIN u /\ u[i] = s[i]
    BY Appended
  <2> QED
    BY <2>1, <2>2, <2>3
<1> HIDE DEF u
<1>2. ASSUME NEW c PROVE Waits(u, c) <=> Waits(s, c) \/ Waits(t, c)
  BY <1>1 DEF Waits
<1>3. Quiet(u) <=> Quiet(s) /\ Quiet(t)
  <2>1. Quiet(u) => Quiet(s) /\ Quiet(t)
    <3> SUFFICES ASSUME Quiet(u) PROVE Quiet(s) /\ Quiet(t)
      OBVIOUS
    <3>1. Quiet(s)
      BY <1>1 DEF Quiet
    <3>2. ASSUME NEW i \in DOMAIN t PROVE t[i].type = "abs"
      <4>1. PICK j \in DOMAIN u : u[j] = t[i]
        BY <1>1
      <4> QED
        BY <4>1 DEF Quiet
    <3> QED
      BY <3>1, <3>2 DEF Quiet
  <2>2. Quiet(s) /\ Quiet(t) => Quiet(u)
    BY <1>1 DEF Quiet
  <2> QED
    BY <2>1, <2>2
<1> QED
  BY <1>2, <1>3 DEF u

LEMMA SeqOfSet ==
    ASSUME NEW S, IsFiniteSet(S)
    PROVE  /\ SetToSeq(S) \in Seq(S)
           /\ \A x \in S : \E i \in DOMAIN SetToSeq(S) : SetToSeq(S)[i] = x
<1> DEFINE n == Cardinality(S)
<1>1. n \in Nat /\ ExistsBijection(1 .. n, S)
  BY FS_CardinalityType
<1>2. \E f \in [1 .. n -> S] : IsInjective(f)
  BY <1>1 DEF ExistsBijection, Bijection, Injection
<1>3. SetToSeq(S) \in [1 .. n -> S] /\ IsInjective(SetToSeq(S))
  BY <1>2 DEF SetToSeq
<1>4. SetToSeq(S) \in Injection(1 .. n, S)
  BY <1>3 DEF Injection
<1>5. IsFiniteSet(1 .. n) /\ Cardinality(1 .. n) = n
  BY <1>1, FS_Interval
<1>6. SetToSeq(S) \in Surjection(1 .. n, S)
  BY <1>4, <1>5, FS_Injection
<1> QED
  BY <1>1, <1>3, <1>6 DEF Surjection

LEMMA BitsAreThree ==
    /\ \A b \in Buttons : LocalBit(b) \in 0 .. 2
    /\ \A bs \in SUBSET Buttons : Local(bs) \subseteq 0 .. 2
<1>1. \A b \in Buttons : LocalBit(b) \in 0 .. 2
  BY InputAssumption DEF LocalBit
<1> QED
  BY <1>1 DEF Local

\* vdagentd writes one event for each button that differs, and none for another.
LEMMA KeyEventsSay ==
    ASSUME written \subseteq Buttons, NEW bs \in SUBSET Buttons
    PROVE  /\ KeyEvents(bs) \in Seq(Event)
           /\ \A i \in DOMAIN KeyEvents(bs) :
                 /\ KeyEvents(bs)[i].type = "key"
                 /\ KeyEvents(bs)[i].value = Bit(bs, KeyEvents(bs)[i].code)
           /\ \A c : Waits(KeyEvents(bs), c) <=> c \in (written \ bs) \cup (bs \ written)
<1> DEFINE D == (written \ bs) \cup (bs \ written)
           Occurs(b) == [type |-> "key", code |-> b, value |-> IF b \in bs THEN 1 ELSE 0]
           S == {Occurs(b) : b \in D}
           s == KeyEvents(bs)
<1>1. D \subseteq {"left", "right", "middle"}
  BY InputAssumption
<1>2. IsFiniteSet(D)
  <2>1. IsFiniteSet({"left"} \cup {"right"} \cup {"middle"})
    BY FS_Singleton, FS_Union
  <2>2. {"left", "right", "middle"} = {"left"} \cup {"right"} \cup {"middle"}
    OBVIOUS
  <2> QED
    BY <1>1, <2>1, <2>2, FS_Subset
<1>3. S \subseteq Event
  <2> SUFFICES ASSUME NEW b \in D PROVE Occurs(b) \in Event
    OBVIOUS
  <2>1. b \in Buttons
    OBVIOUS
  <2> QED
    BY <2>1 DEF Event
<1>4. \A e \in S : e.type = "key" /\ e.code \in D /\ e.value = Bit(bs, e.code)
  BY DEF Bit
<1>5. \A b \in D : \E e \in S : e.code = b
  <2> SUFFICES ASSUME NEW b \in D PROVE Occurs(b) \in S /\ Occurs(b).code = b
    OBVIOUS
  <2> QED
    OBVIOUS
<1> HIDE DEF D
<1>6. IsFiniteSet(S)
  <2> DEFINE f == [b \in D |-> Occurs(b)]
  <2>1. f \in Surjection(D, S)
    BY DEF Surjection
  <2> QED
    BY <1>2, <2>1, FS_Surjection
<1>7. s = SetToSeq(S)
  BY DEF KeyEvents, D
<1> HIDE DEF S, s
<1>8. s \in Seq(S) /\ \A e \in S : \E i \in DOMAIN s : s[i] = e
  BY <1>6, <1>7, SeqOfSet
<1>9. \A i \in DOMAIN s : s[i] \in S
  BY <1>8
<1>10. ASSUME NEW c PROVE Waits(s, c) <=> c \in D
  <2>1. Waits(s, c) => c \in D
    BY <1>4, <1>9 DEF Waits
  <2>2. ASSUME c \in D PROVE Waits(s, c)
    <3>1. PICK e \in S : e.code = c
      BY <1>5, <2>2
    <3>2. PICK i \in DOMAIN s : s[i] = e
      BY <1>8
    <3> QED
      BY <3>1, <3>2 DEF Waits
  <2> QED
    BY <2>1, <2>2
<1>11. s \in Seq(Event)
  BY <1>3, <1>8
<1>12. \A i \in DOMAIN s : s[i].type = "key" /\ s[i].value = Bit(bs, s[i].code)
  BY <1>4, <1>9
<1> QED
  BY <1>10, <1>11, <1>12 DEF s, D

LEMMA KeyEventsAreEvents ==
    ASSUME written \subseteq Buttons, NEW bs \in SUBSET Buttons
    PROVE  KeyEvents(bs) \in Seq(Event)
  BY KeyEventsSay

LEMMA ConvertedAreFive ==
    ASSUME NEW motion \in Int, NEW state \in SUBSET (0 .. 2)
    PROVE  ConvertSpiceButtons(motion, state) \subseteq 0 .. BUTTONS - 1
<1> SUFFICES ASSUME NEW x \in ConvertSpiceButtons(motion, state) PROVE x \in 0 .. 4
  BY DEF BUTTONS
<1>1. \/ x \in state
      \/ \E i \in {1, 2} : x = 3 - i
      \/ x = 4
      \/ x = 3
  BY DEF ConvertSpiceButtons
<1>2. CASE x \in state
  BY <1>2
<1>3. CASE \E i \in {1, 2} : x = 3 - i
  BY <1>3
<1> QED
  BY <1>1, <1>2, <1>3

-----------------------------------------------------------------------------
(* The session *)

ButtonsMatch ==
    IF allow_control THEN x_buttons = {i + 1 : i \in buttons_state} ELSE x_buttons = {}

LEMMA ChangeMatches ==
    ASSUME buttons_state \subseteq 0 .. BUTTONS - 1, ButtonsMatch, allow_control \in BOOLEAN,
           NEW state \in SUBSET (0 .. BUTTONS - 1), HandleButtonChange(state), UNCHANGED allow_control
    PROVE  ButtonsMatch' /\ buttons_state' \subseteq 0 .. BUTTONS - 1
<1> DEFINE changed == ((state \ buttons_state) \cup (buttons_state \ state)) \cap (0 .. BUTTONS - 1)
<1>1. CASE allow_control
  <2>1. /\ x_buttons' = (x_buttons \ {i + 1 : i \in changed \ state})
                        \cup {i + 1 : i \in changed \cap state}
        /\ buttons_state' = state
    BY <1>1 DEF HandleButtonChange
  <2>2. x_buttons = {i + 1 : i \in buttons_state}
    BY <1>1 DEF ButtonsMatch
  <2>3. changed \ state = buttons_state \ state /\ changed \cap state = state \ buttons_state
    OBVIOUS
  <2> HIDE DEF changed
  <2>4. x_buttons' = {i + 1 : i \in state}
    <3>1. ASSUME NEW x \in x_buttons' PROVE \E i \in state : x = i + 1
      BY <2>1, <2>2, <2>3, <3>1
    <3>2. ASSUME NEW i \in state PROVE i + 1 \in x_buttons'
      <4>1. i \in 0 .. BUTTONS - 1
        OBVIOUS
      <4>2. CASE i \in buttons_state
        <5>1. i + 1 \in x_buttons
          BY <2>2, <4>2
        <5>2. ASSUME NEW j \in buttons_state \ state PROVE i + 1 # j + 1
          <6>1. i \in Int /\ j \in Int /\ i # j
            BY <4>1 DEF BUTTONS
          <6> QED
            BY <6>1
        <5>3. i + 1 \notin {j + 1 : j \in changed \ state}
          BY <2>3, <5>2
        <5> QED
          BY <2>1, <5>1, <5>3
      <4>3. CASE i \notin buttons_state
        BY <2>1, <2>3, <4>3
      <4> QED
        BY <4>2, <4>3
    <3> QED
      BY <3>1, <3>2
  <2> QED
    BY <1>1, <2>1, <2>4 DEF ButtonsMatch
<1>2. CASE ~allow_control
  BY <1>2 DEF HandleButtonChange, ButtonsMatch
<1> QED
  BY <1>1, <1>2

LEMMA EscapedCodes == \A c \in 0 .. 127 : escaped_map[c] \in 0 .. 255
<1> SUFFICES ASSUME NEW c \in 0 .. 127 PROVE escaped_map[c] \in 0 .. 255
  OBVIOUS
<1>1. escaped_map[c] = IF \E p \in Escaped : p[1] = c
                       THEN (CHOOSE p \in Escaped : p[1] = c)[2] ELSE 0
  BY DEF escaped_map
<1>2. \A p \in Escaped : p[2] \in 0 .. 255
  BY DEF Escaped
<1>3. CASE \E p \in Escaped : p[1] = c
  BY <1>1, <1>2, <1>3
<1>4. CASE ~ \E p \in Escaped : p[1] = c
  BY <1>1, <1>4
<1> QED
  BY <1>3, <1>4

\* A key is one fragment, or two of which the first is the escape.
LEMMA KeyShapes ==
    ASSUME NEW key \in Keys
    PROVE  \E c \in Codes :
              \/ key = <<c>> /\ Up(key) = <<c + 128>>
              \/ key = <<224, c>> /\ Up(key) = <<224, c + 128>>
<1>1. CASE \E c \in Codes : key = <<c>>
  <2>1. PICK c \in Codes : key = <<c>>
    BY <1>1
  <2>2. Up(key) = [i \in 1 .. 1 |-> c + 128]
    BY <2>1 DEF Up, Codes
  <2>3. Up(key) = <<c + 128>>
    BY <2>2
  <2> QED
    BY <2>1, <2>3
<1>2. CASE \E c \in Codes : key = <<224, c>>
  <2>1. PICK c \in Codes : key = <<224, c>>
    BY <1>2
  <2>2. Up(key) = [i \in 1 .. 2 |-> IF i = 1 THEN 224 ELSE c + 128]
    BY <2>1 DEF Up, Codes
  <2>3. Up(key) = <<224, c + 128>>
    BY <2>2
  <2> QED
    BY <2>1, <2>3
<1> QED
  BY <1>1, <1>2, InputAssumption

LEMMA ShortSequences ==
    ASSUME NEW S, NEW a \in S, NEW b \in S
    PROVE  <<a>> \in Seq(S) /\ <<a, b>> \in Seq(S)
  OBVIOUS

LEMMA KeysAreSequences ==
    ASSUME NEW key \in Keys
    PROVE  key \in Seq(0 .. 255) /\ Up(key) \in Seq(0 .. 255)
<1>1. PICK c \in Codes :
         \/ key = <<c>> /\ Up(key) = <<c + 128>>
         \/ key = <<224, c>> /\ Up(key) = <<224, c + 128>>
  BY KeyShapes
<1>2. c \in 0 .. 255 /\ c + 128 \in 0 .. 255 /\ 224 \in 0 .. 255
  BY DEF Codes
<1>3. /\ <<c>> \in Seq(0 .. 255) /\ <<c + 128>> \in Seq(0 .. 255)
      /\ <<224, c>> \in Seq(0 .. 255) /\ <<224, c + 128>> \in Seq(0 .. 255)
  BY <1>2, ShortSequences
<1> QED
  BY <1>1, <1>3, Zenon

-----------------------------------------------------------------------------
(* Types *)

\* One fragment of a key, whatever it is
LEMMA FragmentTypes ==
    ASSUME TypeOK, KbdPushKey
    PROVE  /\ escape' \in {0, 224} /\ x_keys' \subseteq 1 .. 255 /\ pushing' \in Seq(0 .. 255)
           /\ ~allow_control => x_keys' = x_keys
<1> DEFINE frag == Head(pushing)
           code == frag % 128
           keycode == IF escape = 224 THEN escaped_map[code] ELSE code + MIN_KEYCODE
<1>1. pushing \in Seq(0 .. 255) /\ pushing # <<>> /\ x_keys \subseteq 1 .. 255
  BY DEF TypeOK, KbdPushKey
<1>2. frag \in 0 .. 255 /\ pushing' \in Seq(0 .. 255)
  <2>1. pushing' = Tail(pushing)
    BY DEF KbdPushKey
  <2> QED
    BY <1>1, <2>1, HeadTailProperties
<1>3. \/ frag = 224 /\ escape' = frag /\ UNCHANGED x_keys
      \/ frag # 224 /\ escape' = 0 /\ HandleKey(keycode, frag < 128)
  BY DEF KbdPushKey
<1> HIDE DEF frag
<1>4. code \in 0 .. 127
  BY <1>2
<1> HIDE DEF code
<1>5. keycode \in 0 .. 255
  <2>1. CASE escape = 224
    BY <1>4, <2>1, EscapedCodes
  <2>2. CASE escape # 224
    <3>1. code + MIN_KEYCODE \in 0 .. 255
      BY <1>4 DEF MIN_KEYCODE
    <3> QED
      BY <2>2, <3>1
  <2> QED
    BY <2>1, <2>2
<1> HIDE DEF keycode
<1>6. ASSUME HandleKey(keycode, frag < 128)
      PROVE  x_keys' \subseteq 1 .. 255 /\ (~allow_control => x_keys' = x_keys)
  <2>1. CASE ~allow_control \/ keycode = 0
    BY <1>1, <1>6, <2>1 DEF HandleKey
  <2>2. CASE allow_control /\ keycode # 0
    <3>1. keycode \in 1 .. 255
      BY <1>5, <2>2
    <3>2. x_keys' \subseteq x_keys \cup {keycode}
      BY <1>6, <2>2 DEF HandleKey
    <3> QED
      BY <1>1, <2>2, <3>1, <3>2
  <2> QED
    BY <2>1, <2>2
<1> QED
  BY <1>1, <1>2, <1>3, <1>6

\* What one event does to the mouse
LEMMA ChangeTypes ==
    ASSUME TypeOK, ButtonsMatch, NEW state \in SUBSET (0 .. BUTTONS - 1),
           HandleButtonChange(state), UNCHANGED allow_control
    PROVE  /\ ButtonsMatch' /\ buttons_state' \subseteq 0 .. BUTTONS - 1
           /\ x_buttons' \subseteq 1 .. BUTTONS
<1>1. ButtonsMatch' /\ buttons_state' \subseteq 0 .. BUTTONS - 1
  BY ChangeMatches DEF TypeOK
<1>2. \A i \in 0 .. BUTTONS - 1 : i + 1 \in 1 .. BUTTONS
  BY DEF BUTTONS
<1>3. x_buttons' \subseteq 1 .. BUTTONS
  BY <1>1, <1>2 DEF ButtonsMatch
<1> QED
  BY <1>1, <1>3

LEMMA MouseTypes ==
    ASSUME TypeOK, NEW x \in Nat, NEW y \in Nat, HandleMousePosition(x, y)
    PROVE  x_pointer' \in Nat \X Nat /\ (~allow_control => x_pointer' = x_pointer)
  BY DEF HandleMousePosition, TypeOK

LEMMA EventTypes ==
    ASSUME TypeOK, ButtonsMatch, UinputReadCb
    PROVE  /\ ButtonsMatch' /\ buttons_state' \subseteq 0 .. BUTTONS - 1
           /\ x_buttons' \subseteq 1 .. BUTTONS /\ uinput_buttons_state' \subseteq 0 .. 2
           /\ uinput_x' \in Nat /\ uinput_y' \in Nat /\ x_pointer' \in Nat \X Nat
           /\ fifo' \in Seq(Event)
           /\ ~allow_control => x_pointer' = x_pointer
<1> DEFINE event == Head(fifo)
<1>1. fifo \in Seq(Event) /\ fifo # <<>> /\ fifo' = Tail(fifo) /\ UNCHANGED allow_control
  BY DEF TypeOK, UinputReadCb
<1>2. event \in Event /\ fifo' \in Seq(Event)
  BY <1>1
<1>3. /\ event.type = "key" => UinputHandleKey(event)
      /\ event.type = "rel" => UinputHandleRelative(event)
      /\ event.type = "abs" => UinputHandleAbsolute(event)
  BY DEF UinputReadCb
<1> HIDE DEF event
<1>4. /\ uinput_buttons_state \subseteq 0 .. 2 /\ uinput_x \in Nat /\ uinput_y \in Nat
      /\ x_pointer \in Nat \X Nat /\ buttons_state \subseteq 0 .. BUTTONS - 1
      /\ x_buttons \subseteq 1 .. BUTTONS
  BY DEF TypeOK
<1>5. ASSUME NEW state \in SUBSET (0 .. 2), HandleMouseButtons(state)
      PROVE  /\ ButtonsMatch' /\ buttons_state' \subseteq 0 .. BUTTONS - 1
             /\ x_buttons' \subseteq 1 .. BUTTONS
  <2> DEFINE converted == ConvertSpiceButtons(0, state)
  <2>1. converted \in SUBSET (0 .. BUTTONS - 1)
    BY ConvertedAreFive
  <2>2. HandleButtonChange(converted)
    BY <1>5 DEF HandleMouseButtons
  <2> HIDE DEF converted
  <2> QED
    BY <1>1, <2>1, <2>2, ChangeTypes
<1>6. CASE event.type = "key"
  <2>1. event.code \in Buttons
    BY <1>2, <1>6 DEF Event
  <2>2. LocalBit(event.code) \in 0 .. 2
    BY <2>1, BitsAreThree
  <2>3. /\ HandleMouseButtons(uinput_buttons_state')
        /\ \/ uinput_buttons_state' = uinput_buttons_state \cup {LocalBit(event.code)}
           \/ uinput_buttons_state' = uinput_buttons_state \ {LocalBit(event.code)}
        /\ UNCHANGED <<uinput_x, uinput_y, x_pointer>>
    BY <1>3, <1>6 DEF UinputHandleKey
  <2>4. uinput_buttons_state' \in SUBSET (0 .. 2)
    BY <1>4, <2>2, <2>3
  <2> QED
    BY <1>2, <1>4, <1>5, <2>3, <2>4
<1>7. CASE event.type = "rel"
  <2>1. /\ HandleMouseButtons(uinput_buttons_state)
        /\ UNCHANGED <<uinput_buttons_state, uinput_x, uinput_y, x_pointer>>
    BY <1>3, <1>7 DEF UinputHandleRelative
  <2> QED
    BY <1>2, <1>4, <1>5, <2>1
<1>8. CASE event.type = "abs"
  <2>1. event.value \in Nat
    BY <1>2, <1>8 DEF Event
  <2>2. /\ uinput_x' \in Nat /\ uinput_y' \in Nat /\ HandleMousePosition(uinput_x', uinput_y')
        /\ UNCHANGED <<buttons_state, uinput_buttons_state, x_buttons>>
    BY <1>3, <1>4, <1>8, <2>1 DEF UinputHandleAbsolute
  <2>3. x_pointer' \in Nat \X Nat /\ (~allow_control => x_pointer' = x_pointer)
    BY <2>2, MouseTypes
  <2>4. ButtonsMatch'
    BY <1>1, <2>2 DEF ButtonsMatch
  <2> QED
    BY <1>2, <1>4, <2>2, <2>3, <2>4
<1>9. event.type \in {"key", "rel", "abs"}
  BY <1>2 DEF Event
<1> QED
  BY <1>6, <1>7, <1>8, <1>9

-----------------------------------------------------------------------------
(* Keys *)

\* What X should have pressed
Target == {Keycode(key) : key \in keys} \ {0}

\* A key is being pushed, up or down: the second fragment, if there are two, after the escape.
Pushed(key, up) ==
    /\ up <=> key \notin keys
    /\ LET frags == IF up THEN Up(key) ELSE key
       IN \/ pushing = frags /\ escape = 0
          \/ Len(key) = 2 /\ pushing = <<frags[2]>> /\ escape = 224
    /\ allow_control => Target = IF up THEN x_keys \ {Keycode(key)}
                                 ELSE (x_keys \cup {Keycode(key)}) \ {0}

KeysMatch ==
    /\ viewer = "none" => keys = {}
    /\ pushing = <<>> => escape = 0 /\ (allow_control => x_keys = Target)
    /\ pushing # <<>> => \E key \in Keys, up \in BOOLEAN : Pushed(key, up)

\* The last fragment of a key, after an escape if it has one
LEMMA FragmentIsKey ==
    ASSUME NEW key \in Keys, NEW up \in BOOLEAN, NEW frag,
           frag = (IF up THEN Up(key) ELSE key)[Len(key)]
    PROVE  /\ frag # 224
           /\ frag < 128 <=> ~up
           /\ Len(key) = 1 => (frag % 128) + MIN_KEYCODE = Keycode(key)
           /\ Len(key) = 2 => escaped_map[frag % 128] = Keycode(key)
<1>1. PICK c \in Codes :
         \/ key = <<c>> /\ Up(key) = <<c + 128>>
         \/ key = <<224, c>> /\ Up(key) = <<224, c + 128>>
  BY KeyShapes
<1>2. /\ c \in Int /\ c # 224 /\ c + 128 # 224 /\ c < 128 /\ ~(c + 128 < 128)
      /\ c % 128 = c /\ (c + 128) % 128 = c
  BY DEF Codes
<1>3. frag = IF up THEN c + 128 ELSE c
  <2>1. CASE key = <<c>> /\ Up(key) = <<c + 128>>
    BY <2>1
  <2>2. CASE key = <<224, c>> /\ Up(key) = <<224, c + 128>>
    BY <2>2
  <2> QED
    BY <1>1, <2>1, <2>2
<1>4. frag # 224 /\ (frag < 128 <=> ~up) /\ frag % 128 = c
  BY <1>2, <1>3
<1>5. Len(key) = 1 => Keycode(key) = c + 8
  BY <1>1 DEF Keycode
<1>6. Len(key) = 2 => Keycode(key) = escaped_map[c]
  BY <1>1 DEF Keycode
<1> QED
  BY <1>4, <1>5, <1>6 DEF MIN_KEYCODE

LEMMA PressTarget ==
    ASSUME KeysMatch, TypeOK, pushing = <<>>, NEW key \in Keys, keys' = keys \cup {key},
           UNCHANGED <<allow_control, x_keys>>
    PROVE  allow_control' => Target' = (x_keys' \cup {Keycode(key)}) \ {0}
<1>1. {Keycode(k) : k \in keys'} = {Keycode(k) : k \in keys} \cup {Keycode(key)}
  OBVIOUS
<1>2. Target' = {Keycode(k) : k \in keys'} \ {0}
  BY DEF Target, Keycode, escaped_map
<1>3. allow_control => x_keys = {Keycode(k) : k \in keys} \ {0}
  BY DEF KeysMatch, Target
<1> QED
  BY <1>1, <1>2, <1>3

LEMMA ReleaseTarget ==
    ASSUME KeysMatch, TypeOK, pushing = <<>>, NEW key \in keys, keys' = keys \ {key},
           UNCHANGED <<allow_control, x_keys>>
    PROVE  allow_control' => Target' = x_keys' \ {Keycode(key)}
<1>1. keys \subseteq Keys
  BY DEF TypeOK
<1>2. {Keycode(k) : k \in keys'} \ {0} = ({Keycode(k) : k \in keys} \ {0}) \ {Keycode(key)}
  <2>1. \A k \in keys' : Keycode(k) = Keycode(key) => Keycode(k) = 0
    BY <1>1, KeysAreApart
  <2> QED
    BY <2>1
<1>3. Target' = {Keycode(k) : k \in keys'} \ {0}
  BY DEF Target, Keycode, escaped_map
<1>4. allow_control => x_keys = {Keycode(k) : k \in keys} \ {0}
  BY DEF KeysMatch, Target
<1> QED
  BY <1>2, <1>3, <1>4

\* The last fragment makes X press or release the key.
LEMMA KeyIsHandled ==
    ASSUME TypeOK, NEW key \in Keys, NEW up \in BOOLEAN, Pushed(key, up),
           HandleKey(Keycode(key), ~up), UNCHANGED <<allow_control, keys>>
    PROVE  allow_control' => x_keys' = Target'
<1> SUFFICES ASSUME allow_control PROVE x_keys' = Target
  BY DEF Target, Keycode, escaped_map
<1>1. 0 \notin x_keys
  BY DEF TypeOK
<1>2. Target = IF up THEN x_keys \ {Keycode(key)} ELSE (x_keys \cup {Keycode(key)}) \ {0}
  BY DEF Pushed
<1>3. x_keys' = IF Keycode(key) = 0 THEN x_keys
                ELSE IF ~up THEN x_keys \cup {Keycode(key)} ELSE x_keys \ {Keycode(key)}
  BY DEF HandleKey
<1> QED
  BY <1>1, <1>2, <1>3

LEMMA FragmentKeepsKeys ==
    ASSUME TypeOK, KeysMatch, KbdPushKey
    PROVE  KeysMatch'
<1>1. pushing # <<>> /\ pushing' = Tail(pushing) /\ UNCHANGED <<allow_control, keys, viewer>>
  BY DEF KbdPushKey
<1>2. PICK key \in Keys, up \in BOOLEAN : Pushed(key, up)
  BY <1>1 DEF KeysMatch
<1> DEFINE frags == IF up THEN Up(key) ELSE key
<1>3. viewer' = "none" => keys' = {}
  BY <1>1 DEF KeysMatch
<1>4. \E c \in Codes : \/ key = <<c>> /\ Up(key) = <<c + 128>>
                       \/ key = <<224, c>> /\ Up(key) = <<224, c + 128>>
  BY KeyShapes
<1>5. /\ Len(key) = Len(frags) /\ Len(key) \in {1, 2}
      /\ Len(key) = 1 => frags = <<frags[1]>>
      /\ Len(key) = 2 => frags = <<224, frags[2]>>
  BY <1>4
<1>11. \/ pushing = frags /\ escape = 0
       \/ Len(key) = 2 /\ pushing = <<frags[2]>> /\ escape = 224
  BY <1>2 DEF Pushed
<1> DEFINE frag == frags[Len(key)]
<1>6. /\ frag # 224 /\ (frag < 128 <=> ~up)
      /\ Len(key) = 1 => (frag % 128) + MIN_KEYCODE = Keycode(key)
      /\ Len(key) = 2 => escaped_map[frag % 128] = Keycode(key)
  BY FragmentIsKey
<1> HIDE DEF frag, frags
<1>7. ASSUME pushing = <<frag>>,
             (Len(key) = 1 /\ escape = 0) \/ (Len(key) = 2 /\ escape = 224)
      PROVE  KeysMatch'
  <2>1. Head(pushing) = frag /\ pushing' = <<>>
    BY <1>1, <1>7
  <2>2. /\ escape' = 0
        /\ HandleKey(IF escape = 224 THEN escaped_map[frag % 128] ELSE (frag % 128) + MIN_KEYCODE,
                     frag < 128)
    BY <1>6, <2>1 DEF KbdPushKey
  <2>3. HandleKey(Keycode(key), ~up)
    <3>1. (IF escape = 224 THEN escaped_map[frag % 128] ELSE (frag % 128) + MIN_KEYCODE) = Keycode(key)
      BY <1>6, <1>7
    <3>2. HandleKey(Keycode(key), frag < 128)
      BY <2>2, <3>1
    <3> QED
      BY <1>6, <3>2 DEF HandleKey
  <2>4. allow_control' => x_keys' = Target'
    BY <1>1, <1>2, <2>3, KeyIsHandled
  <2> QED
    BY <1>3, <2>1, <2>2, <2>4 DEF KeysMatch
<1>8. CASE pushing = frags /\ escape = 0 /\ Len(key) = 1
  <2>1. frag = frags[1]
    BY <1>8 DEF frag
  <2>2. pushing = <<frag>>
    BY <1>5, <1>8, <2>1
  <2> QED
    BY <1>7, <1>8, <2>2
<1>9. CASE pushing = frags /\ escape = 0 /\ Len(key) = 2
  <2>1. Head(pushing) = 224 /\ pushing' = <<frags[2]>>
    <3>1. pushing = <<224, frags[2]>>
      BY <1>5, <1>9
    <3>2. Head(<<224, frags[2]>>) = 224 /\ Tail(<<224, frags[2]>>) = <<frags[2]>>
      OBVIOUS
    <3> QED
      BY <1>1, <3>1, <3>2
  <2>2. escape' = 224 /\ UNCHANGED x_keys
    BY <2>1 DEF KbdPushKey
  <2>3. Target' = Target
    BY <1>1 DEF Target, Keycode, escaped_map
  <2>4. Pushed(key, up)'
    BY <1>1, <1>2, <1>9, <2>1, <2>2, <2>3 DEF Pushed, Up, Keycode, escaped_map, frags
  <2>5. pushing' # <<>>
    BY <2>1
  <2> QED
    BY <1>3, <2>4, <2>5 DEF KeysMatch
<1>10. CASE Len(key) = 2 /\ pushing = <<frags[2]>> /\ escape = 224
  <2>1. frag = frags[2]
    BY <1>10 DEF frag
  <2> QED
    BY <1>7, <1>10, <2>1
<1> QED
  BY <1>5, <1>8, <1>9, <1>10, <1>11

-----------------------------------------------------------------------------
(* The inductive invariant *)

\* Without control nothing reaches X, by keys or by the pointer.
NothingReachesX == ~allow_control => x_keys = {} /\ x_pointer = <<0, 0>>

InputInv == TypeOK /\ ButtonsMatch /\ NothingReachesX /\ KeysMatch

\* A step that concerns no key
LEMMA KeysStay ==
    ASSUME KeysMatch, UNCHANGED <<allow_control, escape, x_keys, pushing, viewer, keys>>
    PROVE  KeysMatch'
<1>1. Target' = Target
  BY DEF Target, Keycode, escaped_map
<1>2. pushing # <<>> => \E key \in Keys, up \in BOOLEAN : Pushed(key, up)'
  <2>1. ASSUME NEW key \in Keys, NEW up \in BOOLEAN, Pushed(key, up) PROVE Pushed(key, up)'
    BY <1>1, <2>1 DEF Pushed, Up, Keycode, escaped_map
  <2> QED
    BY <2>1 DEF KeysMatch
<1> QED
  BY <1>1, <1>2 DEF KeysMatch

LEMMA InitInv == Init => InputInv
<1> SUFFICES ASSUME Init PROVE InputInv
  OBVIOUS
<1>1. TypeOK
  <2>1. <<>> \in Seq(Event) /\ <<>> \in Seq(0 .. 255) /\ <<0, 0>> \in Nat \X Nat
    OBVIOUS
  <2> QED
    BY <2>1 DEF Init, TypeOK
<1>2. ButtonsMatch /\ NothingReachesX
  BY DEF Init, ButtonsMatch, NothingReachesX
<1>3. Target = {}
  BY DEF Init, Target
<1>4. KeysMatch
  BY <1>3 DEF Init, KeysMatch
<1> QED
  BY <1>1, <1>2, <1>4 DEF InputInv

LEMMA FragmentInv == InputInv /\ KbdPushKey => InputInv'
<1> SUFFICES ASSUME InputInv, KbdPushKey PROVE InputInv'
  OBVIOUS
<1>1. TypeOK /\ ButtonsMatch /\ NothingReachesX /\ KeysMatch
  BY DEF InputInv
<1>2. /\ escape' \in {0, 224} /\ x_keys' \subseteq 1 .. 255 /\ pushing' \in Seq(0 .. 255)
      /\ ~allow_control => x_keys' = x_keys
  BY <1>1, FragmentTypes
<1>3. UNCHANGED <<allow_control, buttons_state, uinput_buttons_state, uinput_x, uinput_y,
                  x_buttons, x_pointer, viewer, keys, mouseVars, agentVars, historyVars>>
  BY DEF KbdPushKey
<1>4. TypeOK'
  BY <1>1, <1>2, <1>3 DEF TypeOK, mouseVars, agentVars, historyVars
<1>5. ButtonsMatch' /\ NothingReachesX'
  BY <1>1, <1>2, <1>3 DEF ButtonsMatch, NothingReachesX
<1>6. KeysMatch'
  BY <1>1, FragmentKeepsKeys
<1> QED
  BY <1>4, <1>5, <1>6 DEF InputInv

LEMMA EventInv == InputInv /\ UinputReadCb => InputInv'
<1> SUFFICES ASSUME InputInv, UinputReadCb PROVE InputInv'
  OBVIOUS
<1>1. TypeOK /\ ButtonsMatch /\ NothingReachesX /\ KeysMatch
  BY DEF InputInv
<1>2. /\ ButtonsMatch' /\ buttons_state' \subseteq 0 .. BUTTONS - 1
      /\ x_buttons' \subseteq 1 .. BUTTONS /\ uinput_buttons_state' \subseteq 0 .. 2
      /\ uinput_x' \in Nat /\ uinput_y' \in Nat /\ x_pointer' \in Nat \X Nat
      /\ fifo' \in Seq(Event)
      /\ ~allow_control => x_pointer' = x_pointer
  BY <1>1, EventTypes
<1>3. UNCHANGED <<allow_control, escape, x_keys, pushing, viewer, keys, mouseVars, agent,
                  written, historyVars>>
  BY DEF UinputReadCb
<1>4. TypeOK'
  BY <1>1, <1>2, <1>3 DEF TypeOK, mouseVars, historyVars
<1>5. NothingReachesX'
  BY <1>1, <1>2, <1>3 DEF NothingReachesX
<1>6. KeysMatch'
  BY <1>1, <1>3, KeysStay
<1> QED
  BY <1>2, <1>4, <1>5, <1>6 DEF InputInv

LEMMA ViewerInv == InputInv /\ (ViewerConnects \/ ViewerLeaves) => InputInv'
<1> SUFFICES ASSUME InputInv, ViewerConnects \/ ViewerLeaves PROVE InputInv'
  OBVIOUS
<1>1. TypeOK /\ ButtonsMatch /\ NothingReachesX /\ KeysMatch
  BY DEF InputInv
<1>2. /\ UNCHANGED <<allow_control, codeVars, xVars, pushing, keys, pointer, agentVars>>
      /\ pushing = <<>>
      /\ viewer' \in {"none", "connected", "leaving"}
      /\ viewer' = "none" => keys = {}
      /\ buttons' \in {buttons, {}} /\ wheel' \in {wheel, 0}
      /\ synced' = FALSE /\ moved' = FALSE
  BY DEF ViewerConnects, ViewerLeaves, mouseVars
<1>3. TypeOK'
  BY <1>1, <1>2 DEF TypeOK, codeVars, xVars, agentVars
<1>4. ButtonsMatch' /\ NothingReachesX'
  BY <1>1, <1>2 DEF ButtonsMatch, NothingReachesX, codeVars, xVars
<1>5. Target' = Target
  BY <1>2 DEF Target, Keycode, escaped_map
<1>6. KeysMatch'
  BY <1>1, <1>2, <1>5 DEF KeysMatch, codeVars, xVars
<1> QED
  BY <1>3, <1>4, <1>6 DEF InputInv

LEMMA KeyInv ==
    ASSUME InputInv, NEW key \in Keys, KeyGoes(key)
    PROVE  InputInv'
<1>1. TypeOK /\ ButtonsMatch /\ NothingReachesX /\ KeysMatch
  BY DEF InputInv
<1>2. /\ UNCHANGED <<allow_control, codeVars, xVars, mouseVars, agentVars, historyVars>>
      /\ pushing = <<>>
  BY DEF KeyGoes
<1>3. key \in Seq(0 .. 255) /\ Up(key) \in Seq(0 .. 255) /\ key # <<>> /\ Up(key) # <<>>
  <2>1. \E c \in Codes :
           \/ key = <<c>> /\ Up(key) = <<c + 128>>
           \/ key = <<224, c>> /\ Up(key) = <<224, c + 128>>
    BY KeyShapes
  <2>2. key # <<>> /\ Up(key) # <<>>
    BY <2>1
  <2> QED
    BY <2>2, KeysAreSequences
<1>4. escape = 0 /\ keys \subseteq Keys
  BY <1>1, <1>2 DEF KeysMatch, TypeOK
<1>5. \E up \in BOOLEAN :
         /\ Pushed(key, up)'
         /\ pushing' = IF up THEN Up(key) ELSE key
         /\ keys' = IF up THEN keys \ {key} ELSE keys \cup {key}
         /\ viewer' \in {viewer, "none"} /\ (viewer' = "none" => keys' = {})
  <2>1. CASE viewer = "connected" /\ pushing' = key /\ keys' = keys \cup {key} /\ UNCHANGED viewer
    <3>1. allow_control' => Target' = (x_keys' \cup {Keycode(key)}) \ {0}
      BY <1>1, <1>2, <2>1, PressTarget DEF xVars
    <3>2. Pushed(key, FALSE)'
      BY <1>2, <1>4, <2>1, <3>1 DEF Pushed, codeVars, Keycode, escaped_map
    <3> QED
      BY <2>1, <3>2
  <2>2. CASE /\ key \in keys /\ pushing' = Up(key) /\ keys' = keys \ {key}
             /\ viewer' = IF viewer = "leaving" /\ keys' = {} THEN "none" ELSE viewer
    <3>1. allow_control' => Target' = x_keys' \ {Keycode(key)}
      BY <1>1, <1>2, <2>2, ReleaseTarget DEF xVars
    <3>2. Pushed(key, TRUE)'
      BY <1>2, <1>4, <2>2, <3>1 DEF Pushed, codeVars, Keycode, escaped_map, Up
    <3>3. viewer # "none"
      BY <1>1, <2>2 DEF KeysMatch
    <3> QED
      BY <2>2, <3>2, <3>3
  <2> QED
    BY <2>1, <2>2 DEF KeyGoes
<1>6. pushing' \in Seq(0 .. 255) /\ pushing' # <<>> /\ keys' \subseteq Keys
  BY <1>3, <1>4, <1>5
<1>7. TypeOK'
  BY <1>1, <1>2, <1>5, <1>6 DEF TypeOK, codeVars, xVars, mouseVars, agentVars, historyVars
<1>8. ButtonsMatch' /\ NothingReachesX'
  BY <1>1, <1>2 DEF ButtonsMatch, NothingReachesX, codeVars, xVars
<1>9. KeysMatch'
  BY <1>5, <1>6 DEF KeysMatch
<1> QED
  BY <1>7, <1>8, <1>9 DEF InputInv

\* The mouse, by the tablet or by the agent
LEMMA ByTabletTypes ==
    ASSUME TypeOK, ButtonsMatch, ByTablet, wheel' \in {-1, 0, 1}, buttons' \subseteq Buttons,
           UNCHANGED allow_control
    PROVE  /\ ButtonsMatch' /\ buttons_state' \subseteq 0 .. BUTTONS - 1
           /\ x_buttons' \subseteq 1 .. BUTTONS
<1>1. Local(buttons') \in SUBSET (0 .. 2) /\ wheel' \in Int
  BY BitsAreThree
<1>2. PICK motion \in Int : HandleButtonChange(ConvertSpiceButtons(motion, Local(buttons')))
  BY <1>1 DEF ByTablet, HandleMouseWheel, HandleMouseButtons
<1>3. ConvertSpiceButtons(motion, Local(buttons')) \in SUBSET (0 .. BUTTONS - 1)
  BY <1>1, ConvertedAreFive
<1> QED
  BY <1>2, <1>3, ChangeTypes

LEMMA ByAgentTypes ==
    ASSUME TypeOK, ByAgent, wheel' \in {-1, 0, 1}, buttons' \subseteq Buttons
    PROVE  fifo' \in Seq(Event)
<1> DEFINE occurrence == [type |-> "rel", code |-> "wheel", value |-> -wheel']
           turn == IF wheel' = 0 THEN <<>> ELSE <<occurrence>>
<1>1. fifo' = fifo \o (KeyEvents(buttons') \o turn)
  BY DEF ByAgent
<1>2. KeyEvents(buttons') \in Seq(Event) /\ fifo \in Seq(Event)
  BY KeyEventsAreEvents DEF TypeOK
<1>3. turn \in Seq(Event)
  <2>1. wheel' # 0 => -wheel' \in {-1, 1}
    <3>1. \A w \in {-1, 0, 1} : w # 0 => -w \in {-1, 1}
      OBVIOUS
    <3> QED
      BY <3>1
  <2>2. wheel' # 0 => occurrence \in Event
    BY <2>1 DEF Event
  <2> QED
    BY <2>2
<1> HIDE DEF turn
<1> QED
  BY <1>1, <1>2, <1>3

LEMMA ButtonInv == InputInv /\ MouseButton => InputInv'
<1> SUFFICES ASSUME InputInv, MouseButton PROVE InputInv'
  OBVIOUS
<1>1. TypeOK /\ ButtonsMatch /\ NothingReachesX /\ KeysMatch
  BY DEF InputInv
<1>2. UNCHANGED <<allow_control, escape, uinput_buttons_state, uinput_x, uinput_y, x_keys,
                  pushing, viewer, keys, pointer>>
  BY DEF MouseButton
<1>3. buttons' \subseteq Buttons /\ wheel' \in {-1, 0, 1}
  BY <1>1 DEF MouseButton, TypeOK
<1>4. x_pointer' = x_pointer
  BY DEF MouseButton, ByTablet, ByAgent
<1>5. /\ ButtonsMatch' /\ buttons_state' \subseteq 0 .. BUTTONS - 1
      /\ x_buttons' \subseteq 1 .. BUTTONS
      /\ agent' = agent /\ written' \subseteq Buttons /\ fifo' \in Seq(Event)
      /\ synced' \in BOOLEAN /\ moved' \in BOOLEAN
  <2>1. CASE ByTablet
    <3>1. UNCHANGED <<agent, written, fifo, moved>> /\ synced' = TRUE
      BY <2>1 DEF ByTablet, agentVars
    <3> QED
      BY <1>1, <1>2, <1>3, <2>1, <3>1, ByTabletTypes DEF TypeOK
  <2>2. CASE ByAgent
    <3>1. /\ UNCHANGED <<buttons_state, x_buttons, agent, moved>> /\ written' = buttons'
          /\ synced' \in BOOLEAN
      BY <1>1, <2>2 DEF ByAgent, TypeOK
    <3>2. ButtonsMatch'
      BY <1>1, <1>2, <3>1 DEF ButtonsMatch
    <3> QED
      BY <1>1, <1>3, <2>2, <3>1, <3>2, ByAgentTypes DEF TypeOK
  <2> QED
    BY <2>1, <2>2 DEF MouseButton
<1>6. TypeOK'
  BY <1>1, <1>2, <1>3, <1>4, <1>5 DEF TypeOK
<1>7. NothingReachesX'
  BY <1>1, <1>2, <1>4 DEF NothingReachesX
<1>8. KeysMatch'
  BY <1>1, <1>2, KeysStay
<1> QED
  BY <1>5, <1>6, <1>7, <1>8 DEF InputInv

LEMMA MoveInv == InputInv /\ MouseMoves => InputInv'
<1> SUFFICES ASSUME InputInv, MouseMoves PROVE InputInv'
  OBVIOUS
<1>1. TypeOK /\ ButtonsMatch /\ NothingReachesX /\ KeysMatch
  BY DEF InputInv
<1>2. /\ UNCHANGED <<allow_control, codeVars, x_keys, x_buttons, pushing, viewer, keys, buttons,
                     wheel>>
      /\ moved' = TRUE
  BY DEF MouseMoves
<1>3. pointer' \in Nat \X Nat /\ pointer'[1] \in Nat /\ pointer'[2] \in Nat
  BY InputAssumption DEF MouseMoves
<1>4. /\ x_pointer' \in Nat \X Nat /\ (~allow_control => x_pointer' = x_pointer)
      /\ agent' = agent /\ written' \subseteq Buttons /\ fifo' \in Seq(Event)
      /\ synced' \in BOOLEAN
  <2>1. CASE HandleMousePosition(pointer'[1], pointer'[2]) /\ UNCHANGED <<agentVars, synced>>
    BY <1>1, <1>3, <2>1, MouseTypes DEF TypeOK, agentVars
  <2>2. CASE /\ fifo' = fifo \o KeyEvents(buttons)
                        \o <<[type |-> "abs", code |-> "x", value |-> pointer'[1]],
                             [type |-> "abs", code |-> "y", value |-> pointer'[2]]>>
             /\ written' = buttons
             /\ synced' = (synced \/ KeyEvents(buttons) # <<>>)
             /\ UNCHANGED <<x_pointer, agent>>
    <3> DEFINE along == [type |-> "abs", code |-> "x", value |-> pointer'[1]]
               down == [type |-> "abs", code |-> "y", value |-> pointer'[2]]
    <3>1. along \in Event /\ down \in Event
      BY <1>3 DEF Event
    <3>2. fifo' = fifo \o KeyEvents(buttons) \o <<along, down>>
      BY <2>2
    <3> HIDE DEF along, down
    <3>3. <<along, down>> \in Seq(Event)
      BY <3>1, ShortSequences
    <3>4. fifo \in Seq(Event) /\ KeyEvents(buttons) \in Seq(Event)
      BY <1>1, KeyEventsAreEvents DEF TypeOK
    <3>5. fifo' \in Seq(Event)
      BY <3>2, <3>3, <3>4
    <3> QED
      BY <1>1, <2>2, <3>5 DEF TypeOK
  <2> QED
    BY <2>1, <2>2 DEF MouseMoves
<1>5. TypeOK'
  BY <1>1, <1>2, <1>3, <1>4 DEF TypeOK, codeVars
<1>6. ButtonsMatch' /\ NothingReachesX'
  BY <1>1, <1>2, <1>4 DEF ButtonsMatch, NothingReachesX, codeVars
<1>7. KeysMatch'
  BY <1>1, <1>2, KeysStay DEF codeVars
<1> QED
  BY <1>5, <1>6, <1>7 DEF InputInv

LEMMA AgentInv == InputInv /\ AgentChanges => InputInv'
<1> SUFFICES ASSUME InputInv, AgentChanges PROVE InputInv'
  OBVIOUS
<1>1. TypeOK /\ ButtonsMatch /\ NothingReachesX /\ KeysMatch
  BY DEF InputInv
<1>2. /\ UNCHANGED <<allow_control, codeVars, xVars, pushing, viewer, keys, mouseVars, written>>
      /\ agent' \in {"never", "up", "gone"} /\ fifo' = <<>>
      /\ synced' = FALSE /\ moved' = FALSE
  BY DEF AgentChanges
<1>3. <<>> \in Seq(Event)
  OBVIOUS
<1>4. TypeOK'
  BY <1>1, <1>2, <1>3 DEF TypeOK, codeVars, xVars, mouseVars
<1>5. ButtonsMatch' /\ NothingReachesX'
  BY <1>1, <1>2 DEF ButtonsMatch, NothingReachesX, codeVars, xVars
<1>6. KeysMatch'
  BY <1>1, <1>2, KeysStay DEF codeVars, xVars
<1> QED
  BY <1>4, <1>5, <1>6 DEF InputInv

LEMMA StutterInv == InputInv /\ UNCHANGED vars => InputInv'
<1> SUFFICES ASSUME InputInv, UNCHANGED vars PROVE InputInv'
  OBVIOUS
<1>1. UNCHANGED <<allow_control, codeVars, xVars, pushing, viewer, keys, mouseVars, agentVars,
                  historyVars>>
  BY DEF vars
<1>2. TypeOK'
  BY <1>1 DEF InputInv, TypeOK, codeVars, xVars, mouseVars, agentVars, historyVars
<1>3. ButtonsMatch' /\ NothingReachesX'
  BY <1>1 DEF InputInv, ButtonsMatch, NothingReachesX, codeVars, xVars
<1>4. KeysMatch'
  BY <1>1, KeysStay DEF InputInv, codeVars, xVars
<1> QED
  BY <1>2, <1>3, <1>4 DEF InputInv

LEMMA Inductive == InputInv /\ [Next]_vars => InputInv'
<1> SUFFICES ASSUME InputInv, [Next]_vars PROVE InputInv'
  OBVIOUS
<1>1. CASE KbdPushKey \/ UinputReadCb
  BY <1>1, FragmentInv, EventInv
<1>2. CASE ViewerConnects \/ ViewerLeaves
  BY <1>2, ViewerInv
<1>3. ASSUME NEW key \in Keys, KeyGoes(key) PROVE InputInv'
  BY <1>3, KeyInv
<1>4. CASE MouseButton \/ MouseMoves \/ AgentChanges
  BY <1>4, ButtonInv, MoveInv, AgentInv
<1>5. CASE UNCHANGED vars
  BY <1>5, StutterInv
<1> QED
  BY <1>1, <1>2, <1>3, <1>4, <1>5 DEF Next

-----------------------------------------------------------------------------
(* The mouse *)

\* The tablet's way takes effect at once; on the agent's, what is known comes to what the
\* viewer did, and X follows when nothing of it waits any more.
PointerKept ==
    allow_control /\ moved =>
        IF agent = "up"
        THEN /\ Comes(fifo, "x", uinput_x, pointer[1]) /\ Comes(fifo, "y", uinput_y, pointer[2])
             /\ ~Waits(fifo, "x") /\ ~Waits(fifo, "y") => x_pointer = pointer
        ELSE x_pointer = pointer

WrittenComes ==
    agent # "gone" =>
        /\ uinput_buttons_state \subseteq Local(Buttons)
        /\ \A b \in Buttons :
              Comes(fifo, b, Bit(uinput_buttons_state, LocalBit(b)), Bit(written, b))

ButtonsKept ==
    allow_control /\ synced =>
        IF agent = "up"
        THEN /\ written = buttons
             /\ Quiet(fifo) => buttons_state = ConvertSpiceButtons(0, uinput_buttons_state)
        ELSE buttons_state = ConvertSpiceButtons(wheel, Local(buttons))

FifoIsAgents == agent # "up" => fifo = <<>>

MouseInv == FifoIsAgents /\ PointerKept /\ WrittenComes /\ ButtonsKept

\* Nothing about the mouse changes.
LEMMA MouseStays ==
    ASSUME MouseInv,
           UNCHANGED <<allow_control, buttons_state, uinput_buttons_state, uinput_x, uinput_y,
                       x_pointer, mouseVars, agentVars, historyVars>>
    PROVE  MouseInv'
<1>1. UNCHANGED <<allow_control, buttons_state, uinput_buttons_state, uinput_x, uinput_y,
                  x_pointer, buttons, wheel, pointer, agent, written, fifo, synced, moved>>
  BY DEF mouseVars, agentVars, historyVars
<1>2. FifoIsAgents'
  BY <1>1 DEF MouseInv, FifoIsAgents
<1>3. PointerKept'
  BY <1>1 DEF MouseInv, PointerKept
<1>4. WrittenComes'
  BY <1>1 DEF MouseInv, WrittenComes
<1>5. ButtonsKept'
  BY <1>1 DEF MouseInv, ButtonsKept
<1> QED
  BY <1>2, <1>3, <1>4, <1>5 DEF MouseInv

\* A button that vdagentd has written comes to what it wrote last.
LEMMA KeysCome ==
    ASSUME TypeOK, NEW bs \in SUBSET Buttons, NEW b \in Buttons, NEW now,
           Comes(fifo, b, now, Bit(written, b))
    PROVE  Comes(fifo \o KeyEvents(bs), b, now, Bit(bs, b))
<1> DEFINE K == KeyEvents(bs)
<1>1. /\ fifo \in Seq(Event) /\ K \in Seq(Event)
      /\ \A i \in DOMAIN K : K[i].value = Bit(bs, K[i].code)
      /\ Waits(K, b) <=> b \in (written \ bs) \cup (bs \ written)
  BY KeyEventsSay DEF TypeOK
<1> HIDE DEF K
<1>2. CASE Waits(K, b)
  BY <1>1, <1>2, ComesAnew DEF K
<1>3. CASE ~Waits(K, b)
  <2>1. Bit(written, b) = Bit(bs, b)
    BY <1>1, <1>3 DEF Bit
  <2>2. Comes(fifo \o K, b, now, Bit(written, b))
    BY <1>1, <1>3, ComesPast
  <2> QED
    BY <2>1, <2>2 DEF K
<1> QED
  BY <1>2, <1>3

LEMMA ButtonsHaveCodes ==
    /\ \A b \in Buttons : b \notin {"x", "y", "wheel"}
    /\ \A a, b \in Buttons : LocalBit(a) = LocalBit(b) => a = b
  BY InputAssumption DEF LocalBit

LEMMA InitMouse == Init => MouseInv
<1> SUFFICES ASSUME Init PROVE MouseInv
  OBVIOUS
<1>1. fifo = <<>> /\ uinput_buttons_state = {} /\ written = {} /\ ~moved /\ ~synced
  BY DEF Init
<1>2. ASSUME NEW b \in Buttons PROVE Comes(fifo, b, Bit({}, LocalBit(b)), Bit({}, b))
  BY <1>1 DEF Comes, Latest, Bit
<1> QED
  BY <1>1, <1>2 DEF MouseInv, FifoIsAgents, PointerKept, WrittenComes, ButtonsKept

LEMMA ViewerMouse == MouseInv /\ (ViewerConnects \/ ViewerLeaves) => MouseInv'
<1> SUFFICES ASSUME MouseInv, ViewerConnects \/ ViewerLeaves PROVE MouseInv'
  OBVIOUS
<1>1. /\ UNCHANGED <<uinput_buttons_state, agent, written, fifo>>
      /\ synced' = FALSE /\ moved' = FALSE
  BY DEF ViewerConnects, ViewerLeaves, codeVars, agentVars
<1> QED
  BY <1>1 DEF MouseInv, FifoIsAgents, PointerKept, WrittenComes, ButtonsKept

LEMMA AgentMouse == MouseInv /\ AgentChanges => MouseInv'
<1> SUFFICES ASSUME MouseInv, AgentChanges PROVE MouseInv'
  OBVIOUS
<1>1. /\ UNCHANGED <<uinput_buttons_state, written>> /\ fifo' = <<>>
      /\ synced' = FALSE /\ moved' = FALSE
      /\ (agent = "never" /\ agent' = "up") \/ agent' = "gone"
  BY DEF AgentChanges, codeVars
<1>2. FifoIsAgents' /\ PointerKept' /\ ButtonsKept'
  BY <1>1 DEF FifoIsAgents, PointerKept, ButtonsKept
<1>3. CASE agent = "never"
  <2>1. fifo' = fifo
    BY <1>1, <1>3 DEF MouseInv, FifoIsAgents
  <2> QED
    BY <1>1, <1>2, <1>3, <2>1 DEF MouseInv, WrittenComes
<1>4. CASE agent' = "gone"
  BY <1>2, <1>4 DEF MouseInv, WrittenComes
<1> QED
  BY <1>1, <1>3, <1>4

LEMMA TabletMouse ==
    ASSUME InputInv, MouseInv, MouseButton, ByTablet
    PROVE  MouseInv'
<1>1. /\ agent # "up" /\ UNCHANGED <<agent, written, fifo, x_pointer, moved, pointer>>
      /\ UNCHANGED <<allow_control, uinput_buttons_state, uinput_x, uinput_y>>
  BY DEF ByTablet, MouseButton, agentVars
<1>2. allow_control => buttons_state' = ConvertSpiceButtons(wheel', Local(buttons'))
  <2>1. HandleButtonChange(ConvertSpiceButtons(wheel', Local(buttons')))
    <3>1. CASE wheel' # 0 \/ (buttons \subseteq buttons' /\ buttons' # buttons)
      BY <3>1 DEF ByTablet, HandleMouseWheel
    <3>2. CASE ~(wheel' # 0 \/ (buttons \subseteq buttons' /\ buttons' # buttons))
      <4>1. wheel' = 0 /\ HandleButtonChange(ConvertSpiceButtons(0, Local(buttons')))
        BY <3>2 DEF ByTablet, HandleMouseButtons
      <4> QED
        BY <4>1
    <3> QED
      BY <3>1, <3>2
  <2> QED
    BY <2>1 DEF HandleButtonChange
<1>3. FifoIsAgents' /\ PointerKept' /\ WrittenComes'
  BY <1>1 DEF MouseInv, FifoIsAgents, PointerKept, WrittenComes
<1>4. ButtonsKept'
  BY <1>1, <1>2 DEF ButtonsKept
<1> QED
  BY <1>3, <1>4 DEF MouseInv

\* What vdagentd writes for the buttons, and something for other devices after it.
LEMMA WrittenMouse ==
    ASSUME TypeOK, MouseInv, agent = "up", agent' = agent, UNCHANGED uinput_buttons_state,
           written' \subseteq Buttons, NEW other \in Seq(Event), \A b \in Buttons : ~Waits(other, b),
           fifo' = fifo \o (KeyEvents(written') \o other)
    PROVE  /\ FifoIsAgents' /\ WrittenComes'
           /\ \A c : Waits(fifo', c) <=>
                 \/ Waits(fifo, c) \/ Waits(other, c)
                 \/ c \in (written \ written') \cup (written' \ written)
           /\ Quiet(fifo') => Quiet(fifo) /\ Quiet(other) /\ KeyEvents(written') = <<>>
<1> DEFINE K == KeyEvents(written')
<1>1. /\ fifo \in Seq(Event) /\ K \in Seq(Event)
      /\ \A i \in DOMAIN K : K[i].type = "key"
      /\ \A c : Waits(K, c) <=> c \in (written \ written') \cup (written' \ written)
  BY KeyEventsSay DEF TypeOK
<1>2. \A b \in Buttons :
         Comes(fifo, b, Bit(uinput_buttons_state, LocalBit(b)), Bit(written, b))
  BY DEF MouseInv, WrittenComes
<1>3. \A b \in Buttons :
         Comes(fifo \o K, b, Bit(uinput_buttons_state, LocalBit(b)), Bit(written', b))
  BY <1>2, KeysCome
<1> HIDE DEF K
<1>4. fifo' = fifo \o (K \o other)
  BY DEF K
<1>5. fifo' = (fifo \o K) \o other /\ fifo \o K \in Seq(Event) /\ K \o other \in Seq(Event)
  BY <1>1, <1>4
<1>6. \A b \in Buttons :
         Comes(fifo', b, Bit(uinput_buttons_state, LocalBit(b)), Bit(written', b))
  BY <1>3, <1>5, ComesPast
<1>7. FifoIsAgents'
  BY DEF FifoIsAgents
<1>8. WrittenComes'
  BY <1>6 DEF MouseInv, WrittenComes
<1>9. /\ \A c : Waits(fifo', c) <=> Waits(fifo, c) \/ Waits(K, c) \/ Waits(other, c)
      /\ Quiet(fifo') => Quiet(fifo) /\ Quiet(other) /\ Quiet(K)
  <2> DEFINE L == K \o other
  <2>1. /\ \A c : Waits(L, c) <=> Waits(K, c) \/ Waits(other, c)
        /\ Quiet(L) <=> Quiet(K) /\ Quiet(other)
    BY <1>1, TogetherWait
  <2>2. L \in Seq(Event) /\ fifo' = fifo \o L
    BY <1>4, <1>5
  <2> HIDE DEF L
  <2>3. /\ \A c : Waits(fifo \o L, c) <=> Waits(fifo, c) \/ Waits(L, c)
        /\ Quiet(fifo \o L) <=> Quiet(fifo) /\ Quiet(L)
    BY <1>1, <2>2, TogetherWait
  <2> QED
    BY <2>1, <2>2, <2>3
<1>10. Quiet(K) => K = <<>>
  <2> SUFFICES ASSUME Quiet(K), K # <<>> PROVE FALSE
    OBVIOUS
  <2>1. 1 \in DOMAIN K
    BY <1>1
  <2> QED
    BY <1>1, <2>1 DEF Quiet
<1> QED
  BY <1>1, <1>7, <1>8, <1>9, <1>10 DEF K

LEMMA ByAgentMouse ==
    ASSUME InputInv, MouseInv, MouseButton, ByAgent
    PROVE  MouseInv'
<1> DEFINE occurrence == [type |-> "rel", code |-> "wheel", value |-> -wheel']
           turn == IF wheel' = 0 THEN <<>> ELSE <<occurrence>>
<1>1. /\ agent = "up" /\ agent' = agent
      /\ UNCHANGED <<allow_control, buttons_state, uinput_buttons_state, uinput_x, uinput_y,
                     x_pointer, moved, pointer>>
      /\ fifo' = fifo \o (KeyEvents(written') \o turn)
      /\ synced' = (synced \/ KeyEvents(written') \o turn # <<>>)
      /\ written' = buttons'
  BY DEF ByAgent, MouseButton
<1>2. TypeOK /\ buttons' \subseteq Buttons /\ wheel' \in {-1, 0, 1}
  BY DEF InputInv, TypeOK, MouseButton
<1>3. /\ turn \in Seq(Event) /\ \A i \in DOMAIN turn : turn[i].code = "wheel" /\ turn[i].type = "rel"
      /\ turn = <<>> \/ 1 \in DOMAIN turn
  <2>1. CASE wheel' = 0
    BY <2>1
  <2>2. CASE wheel' # 0
    <3>1. -wheel' \in {-1, 1}
      <4>1. \A w \in {-1, 0, 1} : w # 0 => -w \in {-1, 1}
        OBVIOUS
      <4> QED
        BY <1>2, <2>2, <4>1
    <3>2. occurrence \in Event
      BY <3>1 DEF Event
    <3>3. occurrence.code = "wheel" /\ occurrence.type = "rel" /\ turn = <<occurrence>>
      BY <2>2
    <3> HIDE DEF turn, occurrence
    <3>4. turn \in Seq(Event) /\ DOMAIN turn = {1} /\ turn[1] = occurrence
      BY <3>2, <3>3
    <3> QED
      BY <3>3, <3>4
  <2> QED
    BY <2>1, <2>2
<1> HIDE DEF turn
<1>4. \A c : Waits(turn, c) => c = "wheel"
  BY <1>3 DEF Waits
<1>5. Quiet(turn) => turn = <<>>
  BY <1>3 DEF Quiet
<1>6. \A b \in Buttons : ~Waits(turn, b)
  BY <1>4, ButtonsHaveCodes
<1>7. /\ FifoIsAgents' /\ WrittenComes'
      /\ \A c : Waits(fifo', c) <=>
            \/ Waits(fifo, c) \/ Waits(turn, c)
            \/ c \in (written \ written') \cup (written' \ written)
      /\ Quiet(fifo') => Quiet(fifo) /\ Quiet(turn) /\ KeyEvents(written') = <<>>
  BY <1>1, <1>2, <1>3, <1>6, WrittenMouse
<1>8. PointerKept'
  <2> SUFFICES ASSUME allow_control, moved PROVE PointerKept'
    BY <1>1 DEF PointerKept
  <2>1. /\ Comes(fifo, "x", uinput_x, pointer[1]) /\ Comes(fifo, "y", uinput_y, pointer[2])
        /\ ~Waits(fifo, "x") /\ ~Waits(fifo, "y") => x_pointer = pointer
    BY <1>1 DEF MouseInv, PointerKept
  <2>2. "x" \notin Buttons /\ "y" \notin Buttons
    BY ButtonsHaveCodes
  <2>3. written \subseteq Buttons /\ written' \subseteq Buttons
    BY <1>1, <1>2 DEF TypeOK
  <2>4. ~Waits(KeyEvents(written') \o turn, "x") /\ ~Waits(KeyEvents(written') \o turn, "y")
    <3>1. /\ KeyEvents(written') \in Seq(Event)
          /\ ~Waits(KeyEvents(written'), "x") /\ ~Waits(KeyEvents(written'), "y")
      BY <2>2, <2>3, KeyEventsSay
    <3> QED
      BY <1>3, <1>4, <3>1, TogetherWait
  <2>5. /\ KeyEvents(written') \o turn \in Seq(Event) /\ fifo \in Seq(Event)
    BY <1>2, <1>3, <2>3, KeyEventsSay DEF TypeOK
  <2>6. Comes(fifo', "x", uinput_x, pointer[1]) /\ Comes(fifo', "y", uinput_y, pointer[2])
    BY <1>1, <2>1, <2>4, <2>5, ComesPast
  <2>7. ~Waits(fifo', "x") /\ ~Waits(fifo', "y") => x_pointer = pointer
    BY <1>7, <2>1
  <2> QED
    BY <1>1, <2>6, <2>7 DEF PointerKept
<1>9. ButtonsKept'
  <2>1. ASSUME allow_control, Quiet(fifo'), synced'
        PROVE  buttons_state = ConvertSpiceButtons(0, uinput_buttons_state)
    <3>1. Quiet(fifo) /\ turn = <<>> /\ KeyEvents(written') = <<>>
      BY <1>5, <1>7, <2>1
    <3>2. KeyEvents(written') \o turn = <<>>
      BY <3>1
    <3>3. synced
      BY <1>1, <2>1, <3>2
    <3> QED
      BY <1>1, <2>1, <3>1, <3>3 DEF MouseInv, ButtonsKept
  <2> QED
    BY <1>1, <2>1 DEF ButtonsKept
<1> QED
  BY <1>7, <1>8, <1>9 DEF MouseInv

LEMMA MoveMouse == InputInv /\ MouseInv /\ MouseMoves => MouseInv'
<1> SUFFICES ASSUME InputInv, MouseInv, MouseMoves PROVE MouseInv'
  OBVIOUS
<1>1. /\ UNCHANGED <<allow_control, buttons_state, uinput_buttons_state, uinput_x, uinput_y, buttons,
                     wheel>>
      /\ moved' = TRUE /\ pointer' \in Nat \X Nat /\ TypeOK
  BY InputAssumption DEF MouseMoves, codeVars, InputInv
<1>2. CASE agent # "up"
  <2>1. HandleMousePosition(pointer'[1], pointer'[2]) /\ UNCHANGED <<agent, written, fifo, synced>>
    BY <1>2 DEF MouseMoves, agentVars
  <2>2. allow_control => x_pointer' = pointer'
    BY <1>1, <2>1 DEF HandleMousePosition
  <2> QED
    BY <1>1, <1>2, <2>1, <2>2 DEF MouseInv, FifoIsAgents, PointerKept, WrittenComes, ButtonsKept
<1>3. CASE agent = "up"
  <2> DEFINE along == [type |-> "abs", code |-> "x", value |-> pointer'[1]]
             down == [type |-> "abs", code |-> "y", value |-> pointer'[2]]
             there == <<along, down>>
             K == KeyEvents(written')
  <2>1. /\ fifo' = fifo \o K \o there
        /\ written' = buttons /\ agent' = agent /\ x_pointer' = x_pointer
        /\ synced' = (synced \/ K # <<>>)
    BY <1>3 DEF MouseMoves
  <2>2. fifo \in Seq(Event) /\ written \subseteq Buttons /\ written' \subseteq Buttons
    BY <1>1, <2>1 DEF TypeOK
  <2>3. along \in Event /\ down \in Event
    BY <1>1 DEF Event
  <2>4. /\ along.code = "x" /\ along.value = pointer'[1] /\ along.type = "abs"
        /\ down.code = "y" /\ down.value = pointer'[2] /\ down.type = "abs"
    OBVIOUS
  <2> HIDE DEF along, down
  <2>5. /\ there \in Seq(Event) /\ DOMAIN there = {1, 2} /\ there[1] = along /\ there[2] = down
    BY <2>3
  <2> HIDE DEF there
  <2>6. K \in Seq(Event) /\ ~Waits(K, "x") /\ ~Waits(K, "y")
    BY <2>2, KeyEventsSay, ButtonsHaveCodes
  <2> HIDE DEF K
  <2>7. fifo' = fifo \o (K \o there)
    BY <2>1, <2>2, <2>5, <2>6
  <2>8. \A b \in Buttons : ~Waits(there, b)
    BY <2>4, <2>5, ButtonsHaveCodes DEF Waits
  <2>9. /\ FifoIsAgents' /\ WrittenComes'
        /\ Quiet(fifo') => Quiet(fifo) /\ K = <<>>
    BY <1>1, <1>3, <2>1, <2>2, <2>5, <2>7, <2>8, WrittenMouse DEF K
  <2>10. Waits(there, "x") /\ Waits(there, "y")
    BY <2>4, <2>5 DEF Waits
  <2>11. /\ \A i \in DOMAIN there : there[i].code = "x" => there[i].value = pointer'[1]
         /\ \A i \in DOMAIN there : there[i].code = "y" => there[i].value = pointer'[2]
    BY <2>4, <2>5
  <2>12. fifo \o K \in Seq(Event) /\ fifo' = (fifo \o K) \o there
    BY <2>1, <2>2, <2>6
  <2>13. Comes(fifo', "x", uinput_x, pointer'[1]) /\ Comes(fifo', "y", uinput_y, pointer'[2])
    BY <2>5, <2>10, <2>11, <2>12, ComesAnew
  <2>14. Waits(fifo', "x")
    BY <2>5, <2>10, <2>12, TogetherWait
  <2>15. PointerKept'
    BY <1>1, <1>3, <2>1, <2>13, <2>14 DEF PointerKept
  <2>16. ButtonsKept'
    BY <1>1, <1>3, <2>1, <2>9 DEF MouseInv, ButtonsKept
  <2> QED
    BY <2>9, <2>15, <2>16 DEF MouseInv
<1> QED
  BY <1>2, <1>3

LEMMA EventMouse == InputInv /\ MouseInv /\ UinputReadCb => MouseInv'
<1> SUFFICES ASSUME InputInv, MouseInv, UinputReadCb PROVE MouseInv'
  OBVIOUS
<1> DEFINE e == Head(fifo)
           X == IF e.code = "x" THEN e.value ELSE uinput_x
           Y == IF e.code = "y" THEN e.value ELSE uinput_y
           Now(b) == IF e.code = b THEN e.value ELSE Bit(uinput_buttons_state, LocalBit(b))
<1>1. /\ UNCHANGED <<allow_control, agent, pointer, buttons, written, synced, moved>>
      /\ fifo # <<>> /\ fifo' = Tail(fifo)
  BY DEF UinputReadCb, mouseVars, historyVars
<1>2. agent = "up" /\ TypeOK /\ fifo \in Seq(Event)
  BY <1>1 DEF MouseInv, FifoIsAgents, InputInv, TypeOK
<1>3. /\ e \in Event /\ e = fifo[1] /\ 1 \in DOMAIN fifo
      /\ \A i \in DOMAIN Tail(fifo) : i + 1 \in DOMAIN fifo /\ Tail(fifo)[i] = fifo[i + 1]
      /\ \A i \in DOMAIN fifo : i \in Nat /\ (i = 1 \/ i - 1 \in DOMAIN Tail(fifo))
  BY <1>1, <1>2, TailOf
<1>4. \/ e.type = "key" /\ e.code \in Buttons /\ e.value \in {0, 1} /\ UinputHandleKey(e)
      \/ e.type = "rel" /\ e.code = "wheel" /\ UinputHandleRelative(e)
      \/ e.type = "abs" /\ e.code \in {"x", "y"} /\ UinputHandleAbsolute(e)
  BY <1>3 DEF UinputReadCb, Event
<1>5. ASSUME NEW c, NEW now, NEW value, Comes(fifo, c, now, value)
      PROVE  Comes(fifo', c, IF e.code = c THEN e.value ELSE now, value)
  BY <1>1, <1>2, <1>5, ComesTail
<1>6. \A c : ~Waits(fifo', c) /\ e.code # c => ~Waits(fifo, c)
  <2> SUFFICES ASSUME NEW c, ~Waits(Tail(fifo), c), e.code # c, NEW i \in DOMAIN fifo,
                      fifo[i].code = c PROVE FALSE
    BY <1>1 DEF Waits
  <2>1. i - 1 \in DOMAIN Tail(fifo) /\ i \in Nat
    BY <1>3
  <2>2. Tail(fifo)[i - 1] = fifo[(i - 1) + 1]
    BY <1>3, <2>1
  <2>3. Tail(fifo)[i - 1] = fifo[i]
    BY <2>1, <2>2
  <2> QED
    BY <2>1, <2>3 DEF Waits
<1>7. Quiet(fifo') /\ e.type = "abs" => Quiet(fifo)
  <2> SUFFICES ASSUME Quiet(Tail(fifo)), e.type = "abs", NEW i \in DOMAIN fifo, i # 1
               PROVE  fifo[i].type = "abs"
    BY <1>1, <1>3 DEF Quiet
  <2>1. i - 1 \in DOMAIN Tail(fifo) /\ i \in Nat
    BY <1>3
  <2>2. Tail(fifo)[i - 1] = fifo[(i - 1) + 1]
    BY <1>3, <2>1
  <2>3. Tail(fifo)[i - 1] = fifo[i]
    BY <2>1, <2>2
  <2> QED
    BY <2>1, <2>3 DEF Quiet
<1> HIDE DEF e
<1>8. FifoIsAgents'
  BY <1>1, <1>2 DEF FifoIsAgents
<1>9. /\ uinput_buttons_state' \subseteq Local(Buttons)
      /\ \A b \in Buttons : Bit(uinput_buttons_state', LocalBit(b)) = Now(b)
  <2>1. uinput_buttons_state \subseteq Local(Buttons)
    BY <1>2 DEF MouseInv, WrittenComes
  <2>2. CASE e.type = "key" /\ e.code \in Buttons /\ e.value \in {0, 1} /\ UinputHandleKey(e)
    <3>1. uinput_buttons_state' = IF e.value > 0
                                  THEN uinput_buttons_state \cup {LocalBit(e.code)}
                                  ELSE uinput_buttons_state \ {LocalBit(e.code)}
      BY <2>2 DEF UinputHandleKey
    <3>2. LocalBit(e.code) \in Local(Buttons)
      BY <2>2 DEF Local
    <3>3. \A b \in Buttons : LocalBit(b) = LocalBit(e.code) <=> b = e.code
      BY <2>2, ButtonsHaveCodes
    <3>4. CASE e.value = 1
      BY <2>1, <3>1, <3>2, <3>3, <3>4 DEF Bit
    <3>5. CASE e.value = 0
      BY <2>1, <3>1, <3>2, <3>3, <3>5 DEF Bit
    <3> QED
      BY <2>2, <3>4, <3>5
  <2>3. CASE e.code \notin Buttons /\ UNCHANGED uinput_buttons_state
    BY <2>1, <2>3
  <2> QED
    BY <1>4, <2>2, <2>3, ButtonsHaveCodes DEF UinputHandleRelative, UinputHandleAbsolute
<1>10. WrittenComes'
  <2>1. ASSUME NEW b \in Buttons
        PROVE  Comes(fifo', b, Bit(uinput_buttons_state', LocalBit(b)), Bit(written', b))
    <3>1. Comes(fifo, b, Bit(uinput_buttons_state, LocalBit(b)), Bit(written, b))
      BY <1>2 DEF MouseInv, WrittenComes
    <3>2. Comes(fifo', b, Now(b), Bit(written, b))
      BY <1>5, <3>1
    <3> QED
      BY <1>1, <1>9, <3>2
  <2> QED
    BY <1>9, <2>1 DEF WrittenComes
<1>11. PointerKept'
  <2> SUFFICES ASSUME allow_control, moved PROVE PointerKept'
    BY <1>1 DEF PointerKept
  <2>1. /\ Comes(fifo, "x", uinput_x, pointer[1]) /\ Comes(fifo, "y", uinput_y, pointer[2])
        /\ ~Waits(fifo, "x") /\ ~Waits(fifo, "y") => x_pointer = pointer
    BY <1>2 DEF MouseInv, PointerKept
  <2>2. uinput_x' = X /\ uinput_y' = Y
    <3>1. CASE e.code \in {"x", "y"} /\ UinputHandleAbsolute(e)
      BY <3>1 DEF UinputHandleAbsolute
    <3>2. CASE e.code \notin {"x", "y"} /\ UNCHANGED <<uinput_x, uinput_y>>
      BY <3>2
    <3> QED
      BY <1>4, <3>1, <3>2, ButtonsHaveCodes DEF UinputHandleRelative, UinputHandleKey
  <2>3. Comes(fifo', "x", uinput_x', pointer[1]) /\ Comes(fifo', "y", uinput_y', pointer[2])
    BY <1>5, <2>1, <2>2
  <2>4. ASSUME ~Waits(fifo', "x"), ~Waits(fifo', "y") PROVE x_pointer' = pointer
    <3>1. uinput_x' = pointer[1] /\ uinput_y' = pointer[2] /\ pointer \in Nat \X Nat
      BY <1>2, <2>3, <2>4 DEF Comes, TypeOK
    <3>2. CASE e.code \in {"x", "y"} /\ UinputHandleAbsolute(e)
      <4>1. x_pointer' = <<uinput_x', uinput_y'>>
        BY <2>2, <3>2 DEF UinputHandleAbsolute, HandleMousePosition
      <4> QED
        BY <3>1, <4>1
    <3>3. CASE e.code \notin {"x", "y"} /\ UNCHANGED x_pointer
      BY <1>6, <2>1, <2>4, <3>3
    <3> QED
      BY <1>4, <3>2, <3>3, ButtonsHaveCodes DEF UinputHandleRelative, UinputHandleKey
  <2> QED
    BY <1>1, <1>2, <2>3, <2>4 DEF PointerKept
<1>12. ButtonsKept'
  <2> SUFFICES ASSUME allow_control, synced PROVE ButtonsKept'
    BY <1>1 DEF ButtonsKept
  <2>1. /\ written = buttons
        /\ Quiet(fifo) => buttons_state = ConvertSpiceButtons(0, uinput_buttons_state)
    BY <1>2 DEF MouseInv, ButtonsKept
  <2>2. ASSUME Quiet(fifo') PROVE buttons_state' = ConvertSpiceButtons(0, uinput_buttons_state')
    <3>1. CASE UinputHandleKey(e)
      BY <3>1 DEF UinputHandleKey, HandleMouseButtons, HandleButtonChange
    <3>2. CASE UinputHandleRelative(e)
      BY <3>2 DEF UinputHandleRelative, HandleMouseButtons, HandleButtonChange
    <3>3. CASE e.type = "abs" /\ UinputHandleAbsolute(e)
      <4>1. UNCHANGED <<buttons_state, uinput_buttons_state>>
        BY <3>3 DEF UinputHandleAbsolute
      <4> QED
        BY <1>7, <2>1, <2>2, <3>3, <4>1
    <3> QED
      BY <1>4, <3>1, <3>2, <3>3
  <2> QED
    BY <1>1, <1>2, <2>1, <2>2 DEF ButtonsKept
<1> QED
  BY <1>8, <1>10, <1>11, <1>12 DEF MouseInv

LEMMA MouseInductive == InputInv /\ MouseInv /\ [Next]_vars => MouseInv'
<1> SUFFICES ASSUME InputInv, MouseInv, [Next]_vars PROVE MouseInv'
  OBVIOUS
<1>1. CASE KbdPushKey
  BY <1>1, MouseStays DEF KbdPushKey
<1>2. CASE UinputReadCb
  BY <1>2, EventMouse
<1>3. CASE ViewerConnects \/ ViewerLeaves
  BY <1>3, ViewerMouse
<1>4. ASSUME NEW key \in Keys, KeyGoes(key) PROVE MouseInv'
  BY <1>4, MouseStays DEF KeyGoes, codeVars, xVars
<1>5. CASE MouseButton
  BY <1>5, TabletMouse, ByAgentMouse DEF MouseButton
<1>6. CASE MouseMoves
  BY <1>6, MoveMouse
<1>7. CASE AgentChanges
  BY <1>7, AgentMouse
<1>8. CASE UNCHANGED vars
  BY <1>8, MouseStays DEF vars, codeVars, xVars
<1> QED
  BY <1>1, <1>2, <1>3, <1>4, <1>5, <1>6, <1>7, <1>8 DEF Next

\* When the FIFO is empty, the state of the agent is what vdagentd has written.
LEMMA WrittenHasCome ==
    ASSUME TypeOK, MouseInv, agent # "gone", fifo = <<>>
    PROVE  uinput_buttons_state = Local(written)
<1>1. ASSUME NEW b \in Buttons PROVE LocalBit(b) \in uinput_buttons_state <=> b \in written
  <2>1. Comes(fifo, b, Bit(uinput_buttons_state, LocalBit(b)), Bit(written, b))
    BY DEF MouseInv, WrittenComes
  <2>2. Bit(uinput_buttons_state, LocalBit(b)) = Bit(written, b)
    BY <2>1 DEF Comes, Waits
  <2> QED
    BY <2>2 DEF Bit
<1>2. uinput_buttons_state \subseteq Local(Buttons) /\ written \subseteq Buttons
  BY DEF MouseInv, WrittenComes, TypeOK
<1> QED
  BY <1>1, <1>2 DEF Local

\* What X calls the buttons: middle and right change places back, and each
\* direction of the wheel is a button.
LEMMA ConvertedAreX ==
    ASSUME NEW bs \in SUBSET Buttons, NEW w \in Int
    PROVE  {i + 1 : i \in ConvertSpiceButtons(w, Local(bs))} =
           {XButton(b) : b \in bs} \cup (IF w < 0 THEN {4} ELSE {})
                                   \cup (IF w > 0 THEN {5} ELSE {})
<1> DEFINE L == Local(bs)
           C == ConvertSpiceButtons(w, L)
           W == (IF w < 0 THEN {4} ELSE {}) \cup (IF w > 0 THEN {5} ELSE {})
<1>1. /\ L \subseteq {0, 1, 2}
      /\ 0 \in L <=> "left" \in bs
      /\ 1 \in L <=> "right" \in bs
      /\ 2 \in L <=> "middle" \in bs
  <2>1. \A b \in bs : b \in {"left", "right", "middle"}
    BY InputAssumption
  <2>2. LocalBit("left") = 0 /\ LocalBit("right") = 1 /\ LocalBit("middle") = 2
    BY DEF LocalBit
  <2> QED
    BY <2>1, <2>2 DEF Local
<1> HIDE DEF L
<1>2. \A x : x \in C <=>
         \/ x = 0 /\ 0 \in L
         \/ x = 1 /\ 2 \in L
         \/ x = 2 /\ 1 \in L
         \/ x = 3 /\ w < 0
         \/ x = 4 /\ w > 0
  <2>1. \A x : x \in {3 - i : i \in L \cap {1, 2}} <=> (x = 1 /\ 2 \in L) \/ (x = 2 /\ 1 \in L)
    <3>1. 3 - 1 = 2 /\ 3 - 2 = 1
      OBVIOUS
    <3>2. \A i \in L \cap {1, 2} : i = 1 \/ i = 2
      OBVIOUS
    <3> QED
      BY <3>1, <3>2
  <2>2. \A x : x \in L \ {1, 2} <=> x = 0 /\ 0 \in L
    <3>1. L \subseteq {0, 1, 2}
      BY <1>1
    <3>2. 0 # 1 /\ 0 # 2
      OBVIOUS
    <3> QED
      BY <3>1, <3>2, Zenon
  <2>3. \A x : x \in C <=> \/ x \in L \ {1, 2}
                           \/ x \in {3 - i : i \in L \cap {1, 2}}
                           \/ x = 4 /\ w > 0
                           \/ x = 3 /\ w < 0
    <3> HIDE DEF L
    <3> QED
      BY DEF ConvertSpiceButtons
  <2> QED
    BY <2>1, <2>2, <2>3
<1> HIDE DEF C
<1>3. \A y : y \in {XButton(b) : b \in bs} <=>
         \/ y = 1 /\ "left" \in bs
         \/ y = 2 /\ "middle" \in bs
         \/ y = 3 /\ "right" \in bs
  <2>1. \A b \in bs : b \in {"left", "right", "middle"}
    BY InputAssumption
  <2>2. XButton("left") = 1 /\ XButton("right") = 3 /\ XButton("middle") = 2
    BY DEF XButton
  <2> QED
    BY <2>1, <2>2
<1>4. \A y : y \in {i + 1 : i \in C} <=>
         \/ y = 1 /\ 0 \in L
         \/ y = 2 /\ 2 \in L
         \/ y = 3 /\ 1 \in L
         \/ y = 4 /\ w < 0
         \/ y = 5 /\ w > 0
  <2>1. \A i \in C : i \in {0, 1, 2, 3, 4}
    BY <1>2
  <2>2. 0 + 1 = 1 /\ 1 + 1 = 2 /\ 2 + 1 = 3 /\ 3 + 1 = 4 /\ 4 + 1 = 5
    OBVIOUS
  <2> QED
    BY <1>2, <2>1, <2>2
<1>5. \A y : y \in W <=> (y = 4 /\ w < 0) \/ (y = 5 /\ w > 0)
  OBVIOUS
<1> HIDE DEF W
<1>6. {i + 1 : i \in C} = {XButton(b) : b \in bs} \cup W
  BY <1>1, <1>3, <1>4, <1>5
<1> QED
  BY <1>6 DEF W, C, L

-----------------------------------------------------------------------------
LEMMA Invariance == Spec => []InputInv
  BY InitInv, Inductive, PTL DEF Spec

LEMMA MouseInvariance == Spec => []MouseInv
  BY Invariance, InitMouse, MouseInductive, PTL DEF Spec

\* Every variable keeps its type: button states fit the mask, and what is in the FIFO is an
\* event that uinput_read_cb knows.
THEOREM TypeCorrect == Spec => []TypeOK
<1>1. InputInv => TypeOK
  BY DEF InputInv
<1> QED
  BY <1>1, Invariance, PTL

\* The state that session_handle_button_change compares with is what X has pressed, whichever
\* of its two callers came last; and without allow_control nothing reaches X.
THEOREM SessionKnowsX == Spec => []StateIsPressed
<1>1. InputInv => StateIsPressed
  BY DEF InputInv, ButtonsMatch, NothingReachesX, StateIsPressed
<1> QED
  BY <1>1, Invariance, PTL

\* Between keys, X has pressed what viewers hold, and nothing when none is left: no fragment is
\* taken for another's, and an escape lasts for one fragment.
THEOREM KeysHeld == Spec => []KeysAreHeld
<1>1. InputInv => KeysAreHeld
  <2> SUFFICES ASSUME InputInv PROVE KeysAreHeld
    OBVIOUS
  <2>1. allow_control /\ pushing = <<>> => x_keys = {Keycode(key) : key \in keys} \ {0}
    BY DEF InputInv, KeysMatch, Target
  <2>2. viewer = "none" /\ pushing = <<>> => x_keys = {}
    BY <2>1 DEF InputInv, KeysMatch, NothingReachesX
  <2> QED
    BY <2>1, <2>2 DEF KeysAreHeld
<1> QED
  BY <1>1, Invariance, PTL

\* X has pressed what the viewer holds once the viewer has used its buttons, whoever held some
\* before it and whichever way the mouse takes.
THEOREM ButtonsHeld == Spec => []ButtonsAreHeld
<1>1. InputInv /\ MouseInv => ButtonsAreHeld
  <2> SUFFICES ASSUME InputInv, MouseInv, allow_control, synced, fifo = <<>>
               PROVE  x_buttons = {XButton(b) : b \in buttons}
                                  \cup (IF agent # "up" /\ wheel < 0 THEN {4} ELSE {})
                                  \cup (IF agent # "up" /\ wheel > 0 THEN {5} ELSE {})
    BY DEF ButtonsAreHeld
  <2>1. TypeOK /\ buttons \subseteq Buttons /\ wheel \in Int
    BY DEF InputInv, TypeOK
  <2>2. x_buttons = {i + 1 : i \in buttons_state}
    BY DEF InputInv, ButtonsMatch
  <2>3. CASE agent = "up"
    <3>1. uinput_buttons_state = Local(buttons)
      BY <2>1, <2>3, WrittenHasCome DEF MouseInv, ButtonsKept
    <3>2. Quiet(fifo)
      BY DEF Quiet
    <3>3. buttons_state = ConvertSpiceButtons(0, Local(buttons))
      BY <2>3, <3>1, <3>2 DEF MouseInv, ButtonsKept
    <3>4. x_buttons = {XButton(b) : b \in buttons}
      <4>1. {i + 1 : i \in ConvertSpiceButtons(0, Local(buttons))} =
            {XButton(b) : b \in buttons} \cup (IF 0 < 0 THEN {4} ELSE {})
                                         \cup (IF 0 > 0 THEN {5} ELSE {})
        <5>1. buttons \in SUBSET Buttons /\ 0 \in Int
          BY <2>1
        <5> QED
          BY <5>1, ConvertedAreX, Zenon
      <4>2. ~(0 < 0) /\ ~(0 > 0)
        OBVIOUS
      <4>3. {i + 1 : i \in ConvertSpiceButtons(0, Local(buttons))} = {XButton(b) : b \in buttons}
        BY <4>1, <4>2, Zenon
      <4> QED
        BY <2>2, <3>3, <4>3, Zenon
    <3> QED
      BY <2>3, <3>4
  <2>4. CASE agent # "up"
    <3>1. buttons_state = ConvertSpiceButtons(wheel, Local(buttons))
      BY <2>4 DEF MouseInv, ButtonsKept
    <3> QED
      BY <2>1, <2>2, <2>4, <3>1, ConvertedAreX
  <2> QED
    BY <2>3, <2>4
<1> QED
  BY <1>1, Invariance, MouseInvariance, PTL

\* The pointer is where the viewer has moved it, whichever way its coordinates took.
THEOREM PointerFollowed == Spec => []PointerFollows
<1>1. MouseInv => PointerFollows
  <2> SUFFICES ASSUME MouseInv, allow_control, moved, fifo = <<>> PROVE x_pointer = pointer
    BY DEF PointerFollows
  <2>1. ~Waits(fifo, "x") /\ ~Waits(fifo, "y")
    BY DEF Waits
  <2> QED
    BY <2>1 DEF MouseInv, PointerKept
<1> QED
  BY <1>1, MouseInvariance, PTL
=============================================================================
