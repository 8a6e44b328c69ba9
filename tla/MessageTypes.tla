---------------------------- MODULE MessageTypes ----------------------------
(***************************************************************************)
(* The types of the messages of a stream: what HostChannel sees of one, and*)
(* how it follows what the two ends do to the stream.                      *)
(***************************************************************************)
EXTENDS Naturals, Sequences

Types(ms) == [i \in DOMAIN ms |-> ms[i].type]

LEMMA TypesEmpty == Types(<<>>) = <<>>
BY DEF Types

LEMMA TypesSeq ==
    ASSUME NEW S, NEW s \in Seq(S)
    PROVE  /\ Types(s) \in Seq({m.type : m \in S})
           /\ Len(Types(s)) = Len(s)
           /\ \A i \in 1 .. Len(s) : Types(s)[i] = s[i].type
<1>. DEFINE T == {m.type : m \in S}
<1>1. Len(s) \in Nat /\ DOMAIN s = 1 .. Len(s) /\ \A i \in 1 .. Len(s) : s[i] \in S  OBVIOUS
<1>2. \A i \in 1 .. Len(s) : s[i].type \in T  BY <1>1
<1>. HIDE DEF T
<1>3. Types(s) = [i \in 1 .. Len(s) |-> s[i].type]  BY <1>1 DEF Types
<1>4. Types(s) \in [1 .. Len(s) -> T]  BY <1>2, <1>3
<1>5. Types(s) \in Seq(T) /\ Len(Types(s)) = Len(s)  BY <1>1, <1>4
<1>. QED  BY <1>3, <1>5 DEF T

LEMMA TypesHead ==
    ASSUME NEW S, NEW s \in Seq(S), s # <<>>
    PROVE  Types(s) # <<>> /\ Head(Types(s)) = Head(s).type
<1>1. Len(s) \in Nat /\ Len(s) > 0 /\ Head(s) = s[1]  OBVIOUS
<1>2. /\ Types(s) \in Seq({m.type : m \in S}) /\ Len(Types(s)) = Len(s)
      /\ \A i \in 1 .. Len(s) : Types(s)[i] = s[i].type
  BY TypesSeq
<1>3. Len(Types(s)) > 0 /\ Types(s)[1] = s[1].type  BY <1>1, <1>2
<1>. QED  BY <1>1, <1>2, <1>3

LEMMA TypesTail ==
    ASSUME NEW S, NEW s \in Seq(S), s # <<>>
    PROVE  Types(Tail(s)) = Tail(Types(s))
<1>. DEFINE a == Types(Tail(s))  b == Tail(Types(s))  T == {m.type : m \in S}  n == Len(s) - 1
<1>1. /\ n \in Nat /\ Tail(s) \in Seq(S) /\ Len(Tail(s)) = n
      /\ \A i \in 1 .. n : Tail(s)[i] = s[i + 1] /\ i + 1 \in 1 .. Len(s)
  OBVIOUS
<1>2. /\ Types(s) \in Seq(T) /\ Len(Types(s)) = Len(s)
      /\ \A i \in 1 .. Len(s) : Types(s)[i] = s[i].type
      /\ Types(s) # <<>>
  <2>1. Types(s) # <<>>  BY TypesHead
  <2>. QED  BY <2>1, TypesSeq
<1>3. a \in Seq(T) /\ Len(a) = n /\ \A i \in 1 .. n : a[i] = Tail(s)[i].type
  BY <1>1, TypesSeq
<1>. HIDE DEF a, T
<1>4. b \in Seq(T) /\ Len(b) = n /\ \A i \in 1 .. n : b[i] = Types(s)[i + 1]
  BY <1>1, <1>2
<1>5. \A i \in 1 .. n : a[i] = b[i]  BY <1>1, <1>2, <1>3, <1>4
<1>. HIDE DEF b, n
<1>6. a = b  BY <1>3, <1>4, <1>5
<1>. QED  BY <1>6 DEF a, b

LEMMA TypesAppend ==
    ASSUME NEW S, NEW s \in Seq(S), NEW m \in S
    PROVE  Types(Append(s, m)) = Append(Types(s), m.type)
<1>. DEFINE a == Types(Append(s, m))  b == Append(Types(s), m.type)
            T == {x.type : x \in S}  n == Len(s) + 1
<1>1. /\ n \in Nat /\ Append(s, m) \in Seq(S) /\ Len(Append(s, m)) = n
      /\ \A i \in 1 .. n : Append(s, m)[i] = IF i = n THEN m ELSE s[i]
      /\ \A i \in 1 .. n : i # n => i \in 1 .. Len(s)
  OBVIOUS
<1>2. /\ Types(s) \in Seq(T) /\ Len(Types(s)) = Len(s)
      /\ \A i \in 1 .. Len(s) : Types(s)[i] = s[i].type
      /\ m.type \in T
  BY TypesSeq
<1>3. a \in Seq(T) /\ Len(a) = n /\ \A i \in 1 .. n : a[i] = Append(s, m)[i].type
  BY <1>1, TypesSeq
<1>. HIDE DEF a, T
<1>4. /\ b \in Seq(T) /\ Len(b) = n
      /\ \A i \in 1 .. n : b[i] = IF i = n THEN m.type ELSE Types(s)[i]
  BY <1>2
<1>. HIDE DEF b, n
<1>5. \A i \in 1 .. n : a[i] = b[i]  BY <1>1, <1>2, <1>3, <1>4
<1>6. a = b  BY <1>3, <1>4, <1>5
<1>. QED  BY <1>6 DEF a, b
=============================================================================
