--------------------------- MODULE ApiLayer_proofs ---------------------------
(***************************************************************************)
(* Proofs about ApiLayer, for any number of threads, chains, instances,    *)
(* extensions and handles.                                                 *)
(***************************************************************************)
EXTENDS ApiLayer, FiniteSetTheorems, TLAPS

USE NullAssumption, NamesAssumption, GlobalOnlyAssumption, NumbersAssumption

(***************************************************************************)
(* The inductive invariant, in three parts that do not need each other.    *)
(***************************************************************************)

(* A thread between its two calls of the next chain has an array with room *)
(* for all the first one counted and every Meta extension; what it or the  *)
(* application knows of this chain is true of this chain.                  *)
Listed ==
    /\ told # 0 => s_next # Null /\ told = Total
    /\ \A t \in Threads :
         pc[t] = "fetch" =>
             /\ request[t].capacity >= request[t].real + Cardinality(MetaExtensions)
             /\ request[t].promised => request[t].real = RealCount

ListInv == Listed /\ ListFits /\ ListExact /\ IdiomWorks

(* A caller in order has at most one instance and at most one creation or  *)
(* destruction in flight, and the bridge is gone before the instance is.   *)
InOrder ==
    orderly =>
        /\ \A i, j \in Live : i = j
        /\ \A t, u \in Changing : t = u
        /\ \A t \in Threads : pc[t] = "destroy" => target[t] \in Live /\ ~s_connected

Attached ==
    /\ s_next_destroy \in {s_next, Null}
    /\ looked.instance # Null => looked.instance \in Live
    /\ \A t \in Threads : pc[t] # "destroy" => target[t] = Null

LifeInv == Attached /\ InOrder /\ OwnChain /\ InstanceKeepsHost /\ BridgeReleased

HandleInv ==
    /\ s_handle_counter > 0
    /\ \A t \in Threads : \A h \in held[t] : 0 < h /\ h < s_handle_counter
    /\ \A t, u \in Threads : t # u => held[t] \cap held[u] = {}

(***************************************************************************)
(* Numbers of names.                                                       *)
(***************************************************************************)
LEMMA Counts ==
    ASSUME s_next \in Chains
    PROVE  /\ RealCount \in Nat /\ Total \in Nat
           /\ Cardinality(MetaExtensions) \in Nat /\ Cardinality(Appended) \in Nat
           /\ Cardinality(Appended) <= Cardinality(MetaExtensions)
           /\ RealCount + Cardinality(Appended) = Cardinality(Offered[s_next] \cup Appended)
           /\ Offered[s_next] \cup Appended = Offered[s_next] \cup MetaExtensions
           /\ Offered[s_next] \cup Appended \subseteq Names
<1>. DEFINE O == Offered[s_next]
<1>1. O \subseteq Names /\ Appended \subseteq MetaExtensions  BY DEF Appended
<1>2. IsFiniteSet(O) /\ IsFiniteSet(MetaExtensions) /\ IsFiniteSet(Appended)
  BY <1>1, FS_Subset
<1>3. /\ Cardinality(O) \in Nat /\ Cardinality(MetaExtensions) \in Nat
      /\ Cardinality(Appended) \in Nat
  BY <1>2, FS_CardinalityType
<1>4. Cardinality(Appended) <= Cardinality(MetaExtensions)  BY <1>1, <1>2, FS_Subset
<1>5. Cardinality(O \cup Appended)
        = Cardinality(O) + Cardinality(Appended) - Cardinality(O \cap Appended)
  BY <1>2, FS_Union
<1>6. O \cap Appended = {} /\ Cardinality({}) = 0  BY FS_EmptySet DEF Appended
<1>7. O \cup Appended = O \cup MetaExtensions  BY DEF Appended
<1>8. RealCount = Cardinality(O)  BY DEF RealCount
<1>9. RealCount \in Nat /\ Total \in Nat  BY <1>3, <1>8 DEF Total
<1>10. RealCount + Cardinality(Appended) = Cardinality(O \cup Appended)
  <2>1. Cardinality(O \cap Appended) = 0  BY <1>6
  <2>. QED  BY <1>3, <1>5, <1>8, <2>1
<1>11. O \cup Appended \subseteq Names  BY <1>1, <1>7
<1>. QED  BY <1>3, <1>4, <1>7, <1>9, <1>10, <1>11

(***************************************************************************)
(* Types.                                                                  *)
(***************************************************************************)
LEMMA TypeInit == Init => TypeOK
<1>. SUFFICES ASSUME Init PROVE TypeOK  OBVIOUS
<1>1. NoRequest \in Requests /\ NoAnswer \in Answers
  BY DEF NoRequest, NoAnswer, Requests, Answers
<1>2. request \in [Threads -> Requests] /\ answer \in Answers  BY <1>1 DEF Init
<1>3. looked \in [instance : Instances \cup {Null}, function : Functions,
                  leads : Chains \cup {Null, "layer"}]
  BY DEF Init, NoLookup, Functions
<1>. QED  BY <1>2, <1>3 DEF Init, TypeOK

LEMMA MayCallType == ASSUME TypeOK, NEW t, MayCall(t) PROVE s_next \in Chains
BY DEF TypeOK, MayCall

LEMMA TypeStep == TypeOK /\ [Next]_vars => TypeOK'
<1>. SUFFICES ASSUME TypeOK, [Next]_vars PROVE TypeOK'  OBVIOUS
<1>. USE DEF chain, listing, life, stubs
<1>1. ASSUME NEW c \in Chains, Negotiate(c) PROVE TypeOK'
  <2>1. \A r \in Requests : [r EXCEPT !.promised = FALSE] \in Requests  BY DEF Requests
  <2>2. request' \in [Threads -> Requests]  BY <1>1, <2>1 DEF Negotiate, TypeOK
  <2>3. orderly' \in BOOLEAN  BY <1>1 DEF Negotiate, Requires
  <2>. QED  BY <1>1, <2>2, <2>3 DEF Negotiate, Capture, TypeOK
<1>2. ASSUME NEW t \in Threads, CreateInstance(t) PROVE TypeOK'
  <2>1. orderly' \in BOOLEAN  BY <1>2 DEF CreateInstance, Requires
  <2>. QED  BY <1>2, <2>1 DEF CreateInstance, MayCall, TypeOK
<1>3. ASSUME NEW t \in Threads, NextCreates(t) PROVE TypeOK'
  <2>1. orderly' \in BOOLEAN  BY <1>3 DEF NextCreates, Requires
  <2>2. PICK i \in Instances \ Live :
          /\ madeBy' = [madeBy EXCEPT ![i] = s_next]
          /\ served' = [served EXCEPT ![i] = s_connected]
    BY <1>3 DEF NextCreates
  <2>3. /\ madeBy' \in [Instances -> Chains \cup {Null}]
        /\ served' \in [Instances -> BOOLEAN]
    BY <2>2 DEF TypeOK
  <2>. QED  BY <1>3, <2>1, <2>3 DEF NextCreates, TypeOK
<1>4. ASSUME NEW t \in Threads, NextCreateFails(t) PROVE TypeOK'
  BY <1>4 DEF NextCreateFails, TypeOK
<1>5. ASSUME NEW t \in Threads, DestroyInstance(t) PROVE TypeOK'
  <2>1. orderly' \in BOOLEAN  BY <1>5 DEF DestroyInstance, Requires
  <2>2. PICK i \in Instances : target' = [target EXCEPT ![t] = i]
    BY <1>5 DEF DestroyInstance
  <2>. QED  BY <1>5, <2>1, <2>2 DEF DestroyInstance, BridgeShutdown, MayCall, TypeOK
<1>6. ASSUME NEW t \in Threads, NextDestroys(t) PROVE TypeOK'
  <2>1. target[t] \in Instances  BY <1>6 DEF NextDestroys, TypeOK
  <2>2. NoLookup \in [instance : Instances \cup {Null}, function : Functions,
                      leads : Chains \cup {Null, "layer"}]
    BY DEF NoLookup, Functions
  <2>3. /\ madeBy' \in [Instances -> Chains \cup {Null}]
        /\ served' \in [Instances -> BOOLEAN]
        /\ looked' \in [instance : Instances \cup {Null}, function : Functions,
                        leads : Chains \cup {Null, "layer"}]
    BY <1>6, <2>1, <2>2 DEF NextDestroys, TypeOK
  <2>. QED  BY <1>6, <2>3 DEF NextDestroys, TypeOK
<1>7. ASSUME NEW t \in Threads, Enumerate(t) PROVE TypeOK'
  <2>1. s_next \in Chains  BY <1>7, MayCallType DEF Enumerate
  <2>2. told' \in Nat  BY <1>7, <2>1, Counts DEF Enumerate
  <2>3. ASSUME NEW n \in Capacities PROVE Request(n) \in Requests
    <3>1. (told # 0 /\ n >= told) \in BOOLEAN  OBVIOUS
    <3>. QED  BY <2>1, <3>1, Counts DEF Request, Requests
  <2>4. answer' \in Answers /\ request' \in [Threads -> Requests]
        /\ pc' \in [Threads -> {"idle", "create", "destroy", "fetch"}]
        /\ pc' \in {pc, [pc EXCEPT ![t] = "fetch"]}
    <3>1. PICK n \in Capacities :
            \/ /\ pc' = [pc EXCEPT ![t] = "fetch"]
               /\ request' = [request EXCEPT ![t] = Request(n)]
               /\ UNCHANGED answer
            \/ /\ answer' = Answer(IF n = 0 THEN "SUCCESS" ELSE "SIZE_INSUFFICIENT",
                                   Request(n), Total, {})
               /\ UNCHANGED <<pc, request>>
      BY <1>7 DEF Enumerate
    <3>2. Request(n) \in Requests /\ Total \in Nat  BY <2>1, <2>3, Counts
    <3>3. Answer(IF n = 0 THEN "SUCCESS" ELSE "SIZE_INSUFFICIENT", Request(n), Total, {})
            \in Answers
      BY <3>2 DEF Answer, Answers, Requests
    <3>. QED  BY <3>1, <3>2, <3>3 DEF TypeOK
  <2>. QED  BY <1>7, <2>1, <2>2, <2>4 DEF Enumerate, TypeOK
<1>8. ASSUME NEW t \in Threads, Fetch(t) PROVE TypeOK'
  <2>1. s_next \in Chains  BY <1>8 DEF Fetch, TypeOK
  <2>2. request[t] \in Requests  BY DEF TypeOK
  <2>3. /\ request[t].real + Cardinality(MetaExtensions) \in Nat
        /\ RealCount + Cardinality(Appended) \in Nat
        /\ Offered[s_next] \cup Appended \in SUBSET Names
    BY <2>1, <2>2, Counts DEF Requests
  <2>4. /\ Answer("SIZE_INSUFFICIENT", request[t],
                  request[t].real + Cardinality(MetaExtensions), {}) \in Answers
        /\ Answer("SUCCESS", request[t], RealCount + Cardinality(Appended),
                  Offered[s_next] \cup Appended) \in Answers
    BY <2>2, <2>3 DEF Answer, Answers, Requests
  <2>5. answer' \in Answers  BY <1>8, <2>4 DEF Fetch
  <2>6. NoRequest \in Requests  BY DEF NoRequest, Requests
  <2>. QED  BY <1>8, <2>5, <2>6 DEF Fetch, TypeOK
<1>9. ASSUME NEW t \in Threads, GetInstanceProcAddr(t) PROVE TypeOK'
  BY <1>9 DEF GetInstanceProcAddr, Live, Resolve, TypeOK
<1>10. ASSUME NEW t \in Threads, LoadDispatchTable(t) PROVE TypeOK'
  BY <1>10 DEF LoadDispatchTable, Live, Loaded, Resolve, Functions, TypeOK
<1>11. ASSUME NEW t \in Threads, Give(t) PROVE TypeOK'
  <2>1. s_handle_counter + 1 \in Nat  BY DEF TypeOK
  <2>. QED  BY <1>11, <2>1 DEF Give, AllocStubHandle, TypeOK
<1>12. ASSUME NEW t \in Threads, DestroyStubObject(t) PROVE TypeOK'
  BY <1>12 DEF DestroyStubObject, TypeOK
<1>13. CASE UNCHANGED vars  BY <1>13 DEF vars, TypeOK
<1>14. ASSUME NEW t \in Threads, FetchFails(t) PROVE TypeOK'
  <2>1. NoRequest \in Requests /\ NoAnswer \in Answers
    BY DEF NoRequest, NoAnswer, Requests, Answers
  <2>. QED  BY <1>14, <2>1 DEF FetchFails, TypeOK
<1>. QED
  BY <1>1, <1>2, <1>3, <1>4, <1>5, <1>6, <1>7, <1>8, <1>9, <1>10, <1>11, <1>12, <1>13,
     <1>14
     DEF Next, Call, CreateStubObject, RequestStub

(* Every variable always has its type, and a thread in a call of the layer *)
(* has the chain, or the instance, that the call needs.                    *)
THEOREM TypeCorrect == Spec => []TypeOK
BY TypeInit, TypeStep, PTL DEF Spec

(***************************************************************************)
(* The list of extensions.                                                 *)
(***************************************************************************)
LEMMA ListInit == Init => ListInv
BY DEF Init, ListInv, Listed, ListFits, ListExact, IdiomWorks, Filled, NoAnswer

(* An answer that filled nothing keeps the properties of an answer.        *)
LEMMA NothingFilled ==
    ASSUME answer'.result # "SUCCESS" \/ answer'.capacity = 0,
           answer'.promised => answer'.result # "SIZE_INSUFFICIENT"
    PROVE  ListFits' /\ ListExact' /\ IdiomWorks'
BY DEF ListFits, ListExact, IdiomWorks, Filled

LEMMA ListSame ==
    ASSUME TypeOK, ListInv, UNCHANGED <<s_next, listing>>,
           \A t \in Threads : pc'[t] = "fetch" => pc[t] = "fetch"
    PROVE  ListInv'
BY DEF listing, ListInv, Listed, ListFits, ListExact, IdiomWorks, Filled, Total, RealCount

LEMMA ListStep == TypeOK /\ ListInv /\ [Next]_vars => ListInv'
<1>. SUFFICES ASSUME TypeOK, ListInv, [Next]_vars PROVE ListInv'  OBVIOUS
<1>. USE DEF chain, life, stubs
<1>1. ASSUME NEW c \in Chains, Negotiate(c) PROVE ListInv'
  <2>1. \A t \in Threads : /\ request'[t].capacity = request[t].capacity
                           /\ request'[t].real = request[t].real
                           /\ request'[t].promised = FALSE
    <3>1. \A r \in Requests : /\ [r EXCEPT !.promised = FALSE].capacity = r.capacity
                              /\ [r EXCEPT !.promised = FALSE].real = r.real
                              /\ [r EXCEPT !.promised = FALSE].promised = FALSE
      BY DEF Requests
    <3>. QED  BY <1>1, <3>1 DEF Negotiate, TypeOK
  <2>2. Listed'  BY <1>1, <2>1 DEF Negotiate, ListInv, Listed
  <2>. QED
    BY <1>1, <2>2 DEF Negotiate, ListInv, ListFits, ListExact, IdiomWorks, Filled
<1>2. ASSUME NEW t \in Threads, CreateInstance(t) PROVE ListInv'
  BY <1>2, ListSame DEF CreateInstance, TypeOK
<1>3. ASSUME NEW t \in Threads, NextCreates(t) PROVE ListInv'
  BY <1>3, ListSame DEF NextCreates, TypeOK
<1>4. ASSUME NEW t \in Threads, NextCreateFails(t) PROVE ListInv'
  BY <1>4, ListSame DEF NextCreateFails, TypeOK
<1>5. ASSUME NEW t \in Threads, DestroyInstance(t) PROVE ListInv'
  BY <1>5, ListSame DEF DestroyInstance, TypeOK
<1>6. ASSUME NEW t \in Threads, NextDestroys(t) PROVE ListInv'
  BY <1>6, ListSame DEF NextDestroys, TypeOK
<1>7. ASSUME NEW t \in Threads, Enumerate(t) PROVE ListInv'
  <2>1. s_next \in Chains /\ pc[t] = "idle"
    BY <1>7, MayCallType DEF Enumerate, MayCall
  <2>2. UNCHANGED s_next /\ Total' = Total /\ RealCount' = RealCount /\ told' = Total
    BY <1>7 DEF Enumerate, Total, RealCount
  <2>3. PICK n \in Capacities :
          IF n # 0 /\ n >= Total
          THEN /\ pc' = [pc EXCEPT ![t] = "fetch"]
               /\ request' = [request EXCEPT ![t] = Request(n)]
               /\ UNCHANGED answer
          ELSE /\ answer' = Answer(IF n = 0 THEN "SUCCESS" ELSE "SIZE_INSUFFICIENT",
                                   Request(n), Total, {})
               /\ UNCHANGED <<pc, request>>
    BY <1>7 DEF Enumerate
  <2>4. /\ Request(n).capacity = n /\ Request(n).real = RealCount
        /\ Request(n).promised = (told # 0 /\ n >= told)
    BY DEF Request
  <2>5. n \in Nat /\ Total \in Nat /\ RealCount \in Nat /\ Cardinality(MetaExtensions) \in Nat
        /\ Total = RealCount + Cardinality(MetaExtensions)
    BY <2>1, Counts DEF Total
  <2>6. CASE n # 0 /\ n >= Total
    <3>1. pc' = [pc EXCEPT ![t] = "fetch"] /\ UNCHANGED answer
          /\ request' = [request EXCEPT ![t] = Request(n)]
      BY <2>3, <2>6
    <3>2. Listed'
      <4>1. ASSUME NEW u \in Threads, pc'[u] = "fetch"
            PROVE /\ request'[u].capacity >= request'[u].real + Cardinality(MetaExtensions)
                  /\ request'[u].promised => request'[u].real = RealCount
        <5>1. CASE u = t  BY <2>4, <2>5, <2>6, <3>1, <5>1 DEF TypeOK
        <5>2. CASE u # t
          <6>1. pc[u] = "fetch" /\ request'[u] = request[u]  BY <3>1, <4>1, <5>2 DEF TypeOK
          <6>. QED  BY <6>1 DEF ListInv, Listed
        <5>. QED  BY <5>1, <5>2
      <4>. QED  BY <2>1, <2>2, <4>1 DEF Listed
    <3>3. ListFits' /\ ListExact' /\ IdiomWorks'
      BY <3>1 DEF ListInv, ListFits, ListExact, IdiomWorks, Filled
    <3>. QED  BY <3>2, <3>3 DEF ListInv
  <2>7. CASE ~(n # 0 /\ n >= Total)
    <3>1. UNCHANGED <<pc, request>>
          /\ answer' = Answer(IF n = 0 THEN "SUCCESS" ELSE "SIZE_INSUFFICIENT",
                              Request(n), Total, {})
      BY <2>3, <2>7
    <3>2. /\ answer'.result = IF n = 0 THEN "SUCCESS" ELSE "SIZE_INSUFFICIENT"
          /\ answer'.capacity = n /\ answer'.promised = (told # 0 /\ n >= told)
      BY <2>4, <3>1 DEF Answer
    <3>3. told # 0 => told = Total  BY DEF ListInv, Listed
    <3>4. answer'.promised => answer'.result # "SIZE_INSUFFICIENT"
      BY <2>5, <2>7, <3>2, <3>3
    <3>5. ListFits' /\ ListExact' /\ IdiomWorks'  BY <3>2, <3>4, NothingFilled
    <3>6. Listed'  BY <2>1, <2>2, <3>1 DEF ListInv, Listed
    <3>. QED  BY <3>5, <3>6 DEF ListInv
  <2>. QED  BY <2>6, <2>7
<1>8. ASSUME NEW t \in Threads, Fetch(t) PROVE ListInv'
  <2>1. s_next \in Chains /\ pc[t] = "fetch"  BY <1>8 DEF Fetch, TypeOK
  <2>2. UNCHANGED <<s_next, told>> /\ Total' = Total /\ RealCount' = RealCount
        /\ pc' = [pc EXCEPT ![t] = "idle"] /\ request' = [request EXCEPT ![t] = NoRequest]
    BY <1>8 DEF Fetch, Total, RealCount
  <2>3. Listed'
    <3>1. \A u \in Threads : pc'[u] = "fetch" => pc[u] = "fetch" /\ request'[u] = request[u]
      BY <2>2 DEF TypeOK
    <3>. QED  BY <2>2, <3>1 DEF ListInv, Listed
  <2>4. /\ request[t].capacity \in Nat /\ request[t].real \in Nat
        /\ request[t].capacity >= request[t].real + Cardinality(MetaExtensions)
        /\ request[t].promised => request[t].real = RealCount
    BY <2>1 DEF ListInv, Listed, TypeOK, Requests
  <2>5. CASE RealCount > Room(t)
    <3>1. answer' = Answer("SIZE_INSUFFICIENT", request[t],
                           request[t].real + Cardinality(MetaExtensions), {})
      BY <1>8, <2>5 DEF Fetch
    <3>2. answer'.result = "SIZE_INSUFFICIENT" /\ answer'.promised = request[t].promised
      BY <3>1 DEF Answer
    <3>3. ~request[t].promised  BY <2>1, <2>4, <2>5, Counts DEF Room
    <3>. QED  BY <2>3, <3>2, <3>3, NothingFilled DEF ListInv
  <2>6. CASE ~(RealCount > Room(t))
    <3>1. answer' = Answer("SUCCESS", request[t], RealCount + Cardinality(Appended),
                           Offered[s_next] \cup Appended)
      BY <1>8, <2>6 DEF Fetch
    <3>2. /\ answer'.result = "SUCCESS" /\ answer'.capacity = request[t].capacity
          /\ answer'.count = RealCount + Cardinality(Appended)
          /\ answer'.names = Offered[s_next] \cup Appended
      BY <3>1 DEF Answer
    <3>3. answer'.count <= answer'.capacity
      BY <2>1, <2>4, <2>6, <3>2, Counts DEF Room
    <3>4. answer'.count = Cardinality(answer'.names)
          /\ answer'.names = Offered[s_next] \cup MetaExtensions
      BY <2>1, <3>2, Counts
    <3>5. ListFits'  BY <3>3 DEF ListFits
    <3>6. ListExact'  BY <2>1, <3>4 DEF ListExact
    <3>7. IdiomWorks'  BY <3>2 DEF IdiomWorks
    <3>. QED  BY <2>3, <3>5, <3>6, <3>7 DEF ListInv
  <2>. QED  BY <2>5, <2>6
<1>9. ASSUME NEW t \in Threads, GetInstanceProcAddr(t) PROVE ListInv'
  BY <1>9, ListSame DEF GetInstanceProcAddr
<1>10. ASSUME NEW t \in Threads, LoadDispatchTable(t) PROVE ListInv'
  BY <1>10, ListSame DEF LoadDispatchTable
<1>11. ASSUME NEW t \in Threads, Give(t) PROVE ListInv'
  BY <1>11, ListSame DEF Give
<1>12. ASSUME NEW t \in Threads, DestroyStubObject(t) PROVE ListInv'
  BY <1>12, ListSame DEF DestroyStubObject
<1>13. CASE UNCHANGED vars  BY <1>13, ListSame DEF vars
<1>14. ASSUME NEW t \in Threads, FetchFails(t) PROVE ListInv'
  <2>1. UNCHANGED <<s_next, told>> /\ Total' = Total /\ RealCount' = RealCount
        /\ pc' = [pc EXCEPT ![t] = "idle"] /\ answer' = NoAnswer
        /\ request' = [request EXCEPT ![t] = NoRequest]
    BY <1>14 DEF FetchFails, Total, RealCount
  <2>2. \A u \in Threads : pc'[u] = "fetch" => pc[u] = "fetch" /\ request'[u] = request[u]
    BY <2>1 DEF TypeOK
  <2>3. Listed'  BY <2>1, <2>2 DEF ListInv, Listed
  <2>4. ListFits' /\ ListExact' /\ IdiomWorks'
    BY <2>1, NothingFilled DEF NoAnswer
  <2>. QED  BY <2>3, <2>4 DEF ListInv
<1>. QED
  BY <1>1, <1>2, <1>3, <1>4, <1>5, <1>6, <1>7, <1>8, <1>9, <1>10, <1>11, <1>12, <1>13,
     <1>14
     DEF Next, Call, CreateStubObject, RequestStub

LEMMA ListAlways == Spec => []ListInv
<1>1. Init => TypeOK /\ ListInv  BY TypeInit, ListInit
<1>2. TypeOK /\ ListInv /\ [Next]_vars => (TypeOK /\ ListInv)'  BY TypeStep, ListStep
<1>. QED  BY <1>1, <1>2, PTL DEF Spec

(* The application's array is never written beyond its end, whatever chain *)
(* is negotiated between the two calls of the next one.                    *)
THEOREM ArrayNotOverrun == Spec => []ListFits
<1>1. ListInv => ListFits  BY DEF ListInv
<1>. QED  BY <1>1, ListAlways, PTL

(* A filled array has one chain's names and every Meta name, each once.    *)
THEOREM ListIsExact == Spec => []ListExact
<1>1. ListInv => ListExact  BY DEF ListInv
<1>. QED  BY <1>1, ListAlways, PTL

(* An array of the size told for a chain is large enough for its list.     *)
THEOREM TwoCallIdiom == Spec => []IdiomWorks
<1>1. ListInv => IdiomWorks  BY DEF ListInv
<1>. QED  BY <1>1, ListAlways, PTL

(***************************************************************************)
(* Stub handles.                                                           *)
(***************************************************************************)
LEMMA HandleSame == HandleInv /\ UNCHANGED stubs => HandleInv'
BY DEF HandleInv, stubs

LEMMA HandleStep == TypeOK /\ HandleInv /\ [Next]_vars => HandleInv'
<1>. SUFFICES ASSUME TypeOK, HandleInv, [Next]_vars PROVE HandleInv'  OBVIOUS
<1>1. ASSUME NEW t \in Threads, Give(t) PROVE HandleInv'
  <2>1. /\ s_handle_counter \in Nat /\ s_handle_counter' = s_handle_counter + 1
        /\ held' = [held EXCEPT ![t] = @ \cup {s_handle_counter}]
    BY <1>1 DEF Give, AllocStubHandle, TypeOK
  <2>2. \A u \in Threads :
            held'[u] = IF u = t THEN held[u] \cup {s_handle_counter} ELSE held[u]
    BY <2>1 DEF TypeOK
  <2>3. \A u \in Threads : held[u] \subseteq Nat  BY DEF TypeOK
  <2>4. \A u \in Threads : \A h \in held'[u] : 0 < h /\ h < s_handle_counter'
    BY <2>1, <2>2, <2>3 DEF HandleInv
  <2>5. \A u \in Threads : s_handle_counter \notin held[u]
    BY <2>1, <2>3 DEF HandleInv
  <2>6. \A u, v \in Threads : u # v => held'[u] \cap held'[v] = {}
    BY <2>2, <2>5 DEF HandleInv
  <2>. QED  BY <2>1, <2>4, <2>6 DEF HandleInv
<1>2. ASSUME NEW t \in Threads, DestroyStubObject(t) PROVE HandleInv'
  <2>1. \A u \in Threads : held'[u] \subseteq held[u]
    BY <1>2 DEF DestroyStubObject, TypeOK
  <2>2. UNCHANGED s_handle_counter  BY <1>2 DEF DestroyStubObject
  <2>. QED  BY <2>1, <2>2 DEF HandleInv
<1>3. CASE UNCHANGED stubs  BY <1>3, HandleSame
<1>. QED
  BY <1>1, <1>2, <1>3
     DEF Next, Call, vars, Negotiate, CreateInstance, NextCreates, NextCreateFails,
         DestroyInstance, NextDestroys, Enumerate, Fetch, FetchFails, GetInstanceProcAddr,
         LoadDispatchTable, CreateStubObject, RequestStub

(* No two stub objects or requests that are held have the same handle.     *)
THEOREM HandlesAreUnique == Spec => []HandlesUnique
<1>1. Init => TypeOK /\ HandleInv
  BY TypeInit DEF Init, HandleInv
<1>2. TypeOK /\ HandleInv /\ [Next]_vars => (TypeOK /\ HandleInv)'
  BY TypeStep, HandleStep
<1>3. TypeOK /\ HandleInv => HandlesUnique
  BY DEF TypeOK, HandleInv, HandlesUnique
<1>. QED  BY <1>1, <1>2, <1>3, PTL DEF Spec

(***************************************************************************)
(* Instances, the chain and the bridge.                                    *)
(***************************************************************************)
LEMMA LifeInit == Init => LifeInv
BY DEF Init, LifeInv, Attached, InOrder, OwnChain, InstanceKeepsHost, BridgeReleased,
       Live, Changing, NoLookup

LEMMA LifeSame ==
    ASSUME TypeOK, LifeInv, UNCHANGED <<chain, s_connected, target, life, looked, orderly>>,
           \A t \in Threads : pc'[t] \in {"create", "destroy"} <=> pc[t] \in {"create", "destroy"},
           \A t \in Threads : pc'[t] = "destroy" <=> pc[t] = "destroy"
    PROVE  LifeInv'
<1>1. \A t \in Threads : pc'[t] = "create" <=> pc[t] = "create"  OBVIOUS
<1>2. Live' = Live /\ Changing' = Changing  BY DEF life, Live, Changing
<1>3. Attached'  BY <1>2 DEF LifeInv, Attached, chain
<1>4. InOrder'  BY <1>2 DEF LifeInv, InOrder
<1>5. OwnChain'  BY <1>2 DEF LifeInv, OwnChain, chain, life
<1>6. InstanceKeepsHost'  BY <1>2 DEF LifeInv, InstanceKeepsHost, life
<1>7. BridgeReleased'  BY <1>1, <1>2 DEF LifeInv, BridgeReleased, life
<1>. QED  BY <1>3, <1>4, <1>5, <1>6, <1>7 DEF LifeInv

(* A lookup disturbs nothing but what was looked up.                       *)
LEMMA LookupStep ==
    ASSUME TypeOK, LifeInv, UNCHANGED <<chain, s_connected, target, life, pc, orderly>>,
           looked'.instance # Null => looked'.instance \in Live,
           looked'.instance \in Live =>
               looked'.leads = IF looked'.function = "other" THEN s_next ELSE "layer",
           looked'.function = "meta" => looked'.leads = "layer"
    PROVE  LifeInv'
<1>1. Live' = Live /\ Changing' = Changing  BY DEF life, Live, Changing
<1>2. Attached'  BY <1>1 DEF LifeInv, Attached, chain
<1>3. InOrder'  BY <1>1 DEF LifeInv, InOrder
<1>4. OwnChain'
  <2>1. ASSUME orderly, looked'.instance \in Live
        PROVE  looked'.leads = IF looked'.function = "other"
                               THEN madeBy[looked'.instance] ELSE "layer"
    BY <2>1 DEF LifeInv, OwnChain
  <2>. QED  BY <1>1, <2>1 DEF LifeInv, OwnChain, chain, life
<1>5. InstanceKeepsHost'  BY <1>1 DEF LifeInv, InstanceKeepsHost, life
<1>6. BridgeReleased'  BY <1>1 DEF LifeInv, BridgeReleased, life
<1>. QED  BY <1>2, <1>3, <1>4, <1>5, <1>6 DEF LifeInv

LEMMA LifeStep == TypeOK /\ LifeInv /\ [Next]_vars => LifeInv'
<1>. SUFFICES ASSUME TypeOK, LifeInv, [Next]_vars PROVE LifeInv'  OBVIOUS
<1>1. ASSUME NEW c \in Chains, Negotiate(c) PROVE LifeInv'
  <2>1. Live' = Live /\ Changing' = Changing  BY <1>1 DEF Negotiate, life, Live, Changing
  <2>2. orderly' => orderly /\ Live = {} /\ Changing = {}
    BY <1>1 DEF Negotiate, Requires
  <2>3. UNCHANGED <<s_connected, pc, target, life, looked>>  BY <1>1 DEF Negotiate
  <2>4. Attached'  BY <1>1, <2>1, <2>3 DEF Negotiate, Capture, LifeInv, Attached
  <2>5. InOrder'  BY <2>1, <2>2, <2>3 DEF LifeInv, InOrder
  <2>6. OwnChain'  BY <2>1, <2>2, <2>3 DEF LifeInv, OwnChain
  <2>7. InstanceKeepsHost'  BY <2>1, <2>2 DEF InstanceKeepsHost
  <2>8. BridgeReleased'  BY <2>1, <2>2, <2>3 DEF LifeInv, BridgeReleased, life
  <2>. QED  BY <2>4, <2>5, <2>6, <2>7, <2>8 DEF LifeInv
<1>2. ASSUME NEW t \in Threads, CreateInstance(t) PROVE LifeInv'
  <2>1. Live' = Live /\ (orderly' => orderly /\ Changing = {})
    BY <1>2 DEF CreateInstance, Requires, life, Live
  <2>2. /\ pc[t] = "idle" /\ pc' = [pc EXCEPT ![t] = "create"]
        /\ s_connected' \in {s_connected, TRUE}
        /\ UNCHANGED <<chain, target, life, looked>>
    BY <1>2 DEF CreateInstance, MayCall
  <2>3. /\ pc'[t] = "create"
        /\ \A u \in Threads : u # t => pc'[u] = pc[u]
        /\ \A u \in Threads : pc'[u] = "destroy" <=> pc[u] = "destroy"
    BY <2>2 DEF TypeOK
  <2>4. Attached'  BY <2>1, <2>2, <2>3 DEF LifeInv, Attached, chain
  <2>5. InOrder'
    <3>1. orderly' => \A u \in Threads : pc[u] \notin {"create", "destroy"}
      BY <2>1 DEF Changing
    <3>2. orderly' => \A u, v \in Changing' : u = v
      BY <2>3, <3>1 DEF Changing
    <3>. QED  BY <2>1, <2>3, <3>1, <3>2 DEF LifeInv, InOrder
  <2>6. OwnChain'  BY <2>1, <2>2 DEF LifeInv, OwnChain, chain, life
  <2>7. InstanceKeepsHost'
    <3>1. s_connected => s_connected'  BY <2>2, Zenon
    <3>2. UNCHANGED <<target, served>>  BY <2>2 DEF life
    <3>. QED  BY <2>1, <3>1, <3>2 DEF LifeInv, InstanceKeepsHost
  <2>8. BridgeReleased'  BY <2>3 DEF BridgeReleased
  <2>. QED  BY <2>4, <2>5, <2>6, <2>7, <2>8 DEF LifeInv
<1>3. ASSUME NEW t \in Threads, NextCreates(t) PROVE LifeInv'
  <2>1. PICK i \in Instances \ Live :
          /\ madeBy' = [madeBy EXCEPT ![i] = s_next]
          /\ served' = [served EXCEPT ![i] = s_connected]
    BY <1>3 DEF NextCreates
  <2>2. /\ pc[t] = "create" /\ pc' = [pc EXCEPT ![t] = "idle"]
        /\ orderly' => orderly /\ Live = {}
        /\ UNCHANGED <<chain, s_connected, target, looked>>
    BY <1>3 DEF NextCreates, Requires
  <2>3. s_next # Null  BY <2>2 DEF TypeOK
  <2>4. /\ Live' = Live \cup {i}
        /\ \A j \in Instances : j # i => madeBy'[j] = madeBy[j] /\ served'[j] = served[j]
        /\ madeBy'[i] = s_next /\ served'[i] = s_connected
    BY <2>1, <2>3 DEF TypeOK, Live
  <2>5. /\ \A u \in Threads : pc'[u] = "destroy" <=> pc[u] = "destroy"
        /\ Changing' \subseteq Changing
    BY <2>2 DEF TypeOK, Changing
  <2>6. Attached'  BY <2>2, <2>4, <2>5 DEF LifeInv, Attached, chain
  <2>7. InOrder'  BY <2>2, <2>4, <2>5 DEF LifeInv, InOrder
  <2>8. OwnChain'
    <3>1. looked.instance \in Live' => looked.instance \in Live
      <4>1. i # Null  BY DEF Live
      <4>. QED  BY <4>1, <2>4 DEF LifeInv, Attached
    <3>2. looked'.function = "meta" => looked'.leads = "layer"
      BY <2>2 DEF LifeInv, OwnChain
    <3>3. orderly' => \A j \in Live' : madeBy'[j] = s_next'
      BY <2>2, <2>4 DEF chain
    <3>4. orderly' => looked'.instance \notin Live'
      BY <2>2, <3>1
    <3>. QED  BY <3>2, <3>3, <3>4 DEF OwnChain
  <2>9. InstanceKeepsHost'  BY <2>2, <2>4 DEF InstanceKeepsHost
  <2>10. BridgeReleased'  BY <2>4 DEF BridgeReleased
  <2>. QED  BY <2>6, <2>7, <2>8, <2>9, <2>10 DEF LifeInv
<1>4. ASSUME NEW t \in Threads, NextCreateFails(t) PROVE LifeInv'
  <2>1. /\ pc[t] = "create" /\ pc' = [pc EXCEPT ![t] = "idle"] /\ failed' = TRUE
        /\ UNCHANGED <<chain, s_connected, target, madeBy, served, looked, orderly>>
    BY <1>4 DEF NextCreateFails
  <2>2. Live' = Live /\ Changing' \subseteq Changing
        /\ \A u \in Threads : pc'[u] = "destroy" <=> pc[u] = "destroy"
    BY <2>1 DEF TypeOK, Live, Changing
  <2>3. Attached'  BY <2>1, <2>2 DEF LifeInv, Attached, chain
  <2>4. InOrder'  BY <2>1, <2>2 DEF LifeInv, InOrder
  <2>5. OwnChain'  BY <2>1, <2>2 DEF LifeInv, OwnChain, chain
  <2>6. InstanceKeepsHost'  BY <2>1, <2>2 DEF LifeInv, InstanceKeepsHost
  <2>7. BridgeReleased'  BY <2>1 DEF BridgeReleased
  <2>. QED  BY <2>3, <2>4, <2>5, <2>6, <2>7 DEF LifeInv
<1>5. ASSUME NEW t \in Threads, DestroyInstance(t) PROVE LifeInv'
  <2>1. PICK i \in Instances : /\ orderly' => orderly /\ i \in Live /\ Changing = {}
                              /\ target' = [target EXCEPT ![t] = i]
    BY <1>5 DEF DestroyInstance, Requires
  <2>2. /\ pc[t] = "idle" /\ pc' = [pc EXCEPT ![t] = "destroy"] /\ ~s_connected'
        /\ UNCHANGED <<chain, life, looked>>
    BY <1>5 DEF DestroyInstance, BridgeShutdown, MayCall
  <2>3. /\ Live' = Live /\ pc'[t] = "destroy" /\ target'[t] = i
        /\ \A u \in Threads : u # t => pc'[u] = pc[u] /\ target'[u] = target[u]
    BY <2>1, <2>2 DEF TypeOK, life, Live
  <2>4. Attached'  BY <2>2, <2>3 DEF LifeInv, Attached, chain
  <2>5. InOrder'
    <3>1. orderly' => \A u \in Threads : pc[u] \notin {"create", "destroy"}
      BY <2>1 DEF Changing
    <3>2. orderly' => \A u, v \in Changing' : u = v  BY <2>3, <3>1 DEF Changing
    <3>3. \A u \in Threads : orderly' /\ pc'[u] = "destroy" => target'[u] = i
      BY <2>3, <3>1
    <3>. QED  BY <2>1, <2>2, <2>3, <3>2, <3>3 DEF LifeInv, InOrder
  <2>6. OwnChain'  BY <2>1, <2>2, <2>3 DEF LifeInv, OwnChain, chain, life
  <2>7. InstanceKeepsHost'
    <3>1. ASSUME orderly', NEW j \in Live' PROVE \E u \in Threads : target'[u] = j
      BY <2>1, <2>3, <3>1 DEF LifeInv, InOrder
    <3>. QED  BY <3>1 DEF InstanceKeepsHost
  <2>8. BridgeReleased'  BY <2>2 DEF BridgeReleased
  <2>. QED  BY <2>4, <2>5, <2>6, <2>7, <2>8 DEF LifeInv
<1>6. ASSUME NEW t \in Threads, NextDestroys(t) PROVE LifeInv'
  <2>1. /\ pc[t] = "destroy" /\ pc' = [pc EXCEPT ![t] = "idle"]
        /\ target' = [target EXCEPT ![t] = Null] /\ s_next_destroy = s_next
        /\ UNCHANGED <<chain, s_connected, failed, orderly>>
    BY <1>6 DEF NextDestroys, LifeInv, Attached, chain
  <2>2. /\ pc'[t] = "idle" /\ target'[t] = Null
        /\ \A u \in Threads : u # t => pc'[u] = pc[u] /\ target'[u] = target[u]
        /\ Changing' \subseteq Changing
    BY <2>1 DEF TypeOK, Changing
  <2>3. target[t] \in Instances  BY <2>1 DEF TypeOK
  <2>4. CASE madeBy[target[t]] = s_next_destroy
    <3>1. /\ madeBy' = [madeBy EXCEPT ![target[t]] = Null]
          /\ served' = [served EXCEPT ![target[t]] = FALSE]
          /\ looked' = IF looked.instance = target[t] THEN NoLookup ELSE looked
      BY <1>6, <2>4 DEF NextDestroys
    <3>2. /\ Live' = Live \ {target[t]}
          /\ \A j \in Instances : j # target[t] =>
                 madeBy'[j] = madeBy[j] /\ served'[j] = served[j]
      BY <2>3, <3>1 DEF TypeOK, Live
    <3>3. orderly => target[t] \in Live /\ ~s_connected /\ Live' = {}
      BY <2>1, <3>2 DEF LifeInv, InOrder
    <3>4. Attached'
      BY <2>1, <2>2, <3>1, <3>2 DEF LifeInv, Attached, chain, NoLookup
    <3>5. InOrder'
      <4>1. orderly => \A u \in Threads : pc'[u] # "destroy"
        BY <2>1, <2>2 DEF LifeInv, InOrder, Changing
      <4>. QED  BY <2>1, <2>2, <3>3, <4>1 DEF LifeInv, InOrder
    <3>6. OwnChain'
      <4>1. looked'.function = "meta" => looked'.leads = "layer"
        BY <3>1 DEF LifeInv, OwnChain, NoLookup
      <4>. QED  BY <2>1, <3>3, <4>1 DEF OwnChain
    <3>7. InstanceKeepsHost' /\ BridgeReleased'
      BY <2>1, <3>3 DEF InstanceKeepsHost, BridgeReleased
    <3>. QED  BY <3>4, <3>5, <3>6, <3>7 DEF LifeInv
  <2>5. CASE madeBy[target[t]] # s_next_destroy
    <3>1. UNCHANGED <<madeBy, served, looked>>  BY <1>6, <2>5 DEF NextDestroys
    <3>2. Live' = Live  BY <3>1 DEF Live
    <3>3. ~orderly
      BY <2>1, <2>5 DEF LifeInv, InOrder, OwnChain
    <3>4. Attached'  BY <2>1, <2>2, <3>1, <3>2 DEF LifeInv, Attached, chain
    <3>5. OwnChain'  BY <2>1, <3>1, <3>3 DEF LifeInv, OwnChain
    <3>. QED
      BY <2>1, <3>3, <3>4, <3>5
         DEF LifeInv, InOrder, InstanceKeepsHost, BridgeReleased
  <2>. QED  BY <2>4, <2>5
<1>7. ASSUME NEW t \in Threads, Enumerate(t) PROVE LifeInv'
  <2>1. pc[t] = "idle" /\ pc' \in {pc, [pc EXCEPT ![t] = "fetch"]}
    BY <1>7 DEF Enumerate, MayCall
  <2>2. UNCHANGED <<chain, s_connected, target, life, looked, orderly>>
    BY <1>7 DEF Enumerate
  <2>. QED  BY <2>1, <2>2, LifeSame DEF TypeOK
<1>8. ASSUME NEW t \in Threads, Fetch(t) PROVE LifeInv'
  BY <1>8, LifeSame DEF Fetch, TypeOK
<1>9. ASSUME NEW t \in Threads, GetInstanceProcAddr(t) PROVE LifeInv'
  <2>1. PICK i \in Live, f \in Functions :
            looked' = [instance |-> i, function |-> f, leads |-> Resolve(f)]
    BY <1>9 DEF GetInstanceProcAddr
  <2>2. UNCHANGED <<chain, s_connected, target, life, pc, orderly>>
    BY <1>9 DEF GetInstanceProcAddr
  <2>3. Resolve(f) = IF f = "other" THEN s_next ELSE "layer"
    BY DEF Resolve, Functions
  <2>4. f = "meta" => Resolve(f) = "layer"  BY DEF Resolve
  <2>. QED  BY <2>1, <2>2, <2>3, <2>4, LookupStep
<1>10. ASSUME NEW t \in Threads, LoadDispatchTable(t) PROVE LifeInv'
  <2>1. PICK i \in Live \cup {Null}, found \in {Null, "layer"} :
            looked' = [instance |-> i, function |-> "meta", leads |-> Loaded(found)]
    BY <1>10 DEF LoadDispatchTable, Resolve
  <2>2. UNCHANGED <<chain, s_connected, target, life, pc, orderly>>
    BY <1>10 DEF LoadDispatchTable
  <2>3. Loaded(found) = "layer"  BY <2>1 DEF Loaded
  <2>. QED  BY <2>1, <2>2, <2>3, LookupStep
<1>11. ASSUME NEW t \in Threads, Give(t) PROVE LifeInv'
  BY <1>11, LifeSame DEF Give
<1>12. ASSUME NEW t \in Threads, DestroyStubObject(t) PROVE LifeInv'
  BY <1>12, LifeSame DEF DestroyStubObject
<1>13. CASE UNCHANGED vars  BY <1>13, LifeSame DEF vars
<1>14. ASSUME NEW t \in Threads, FetchFails(t) PROVE LifeInv'
  BY <1>14, LifeSame DEF FetchFails, TypeOK
<1>. QED
  BY <1>1, <1>2, <1>3, <1>4, <1>5, <1>6, <1>7, <1>8, <1>9, <1>10, <1>11, <1>12, <1>13,
     <1>14
     DEF Next, Call, CreateStubObject, RequestStub

LEMMA LifeAlways == Spec => []LifeInv
<1>1. Init => TypeOK /\ LifeInv  BY TypeInit, LifeInit
<1>2. TypeOK /\ LifeInv /\ [Next]_vars => (TypeOK /\ LifeInv)'  BY TypeStep, LifeStep
<1>. QED  BY <1>1, <1>2, PTL DEF Spec

(* In order, calls reach the chain that made the instance, and what the    *)
(* layer intercepts goes through the layer.                                *)
THEOREM CallsReachTheirChain == Spec => []OwnChain
<1>1. LifeInv => OwnChain  BY DEF LifeInv
<1>. QED  BY <1>1, LifeAlways, PTL

(* In order, an instance keeps the host it was made with until it goes.    *)
THEOREM HostKept == Spec => []InstanceKeepsHost
<1>1. LifeInv => InstanceKeepsHost  BY DEF LifeInv
<1>. QED  BY <1>1, LifeAlways, PTL

(* In order, the bridge is given up with the instance it was made for.     *)
THEOREM HostReleased == Spec => []BridgeReleased
<1>1. LifeInv => BridgeReleased  BY DEF LifeInv
<1>. QED  BY <1>1, LifeAlways, PTL
=============================================================================
