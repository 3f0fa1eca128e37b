---------------------------- MODULE SessionProofs ----------------------------
(***************************************************************************)
(* Session's invariants, for any number of clients, ports and peers and    *)
(* any bound on concurrent opens.                                          *)
(***************************************************************************)
EXTENDS Session, FiniteSetTheorems, SequenceTheorems, TLAPS

(* TypeOK without the upper bound on the permits left, which depends on    *)
(* their conservation.                                                     *)
SessionTyped ==
  /\ stage \in [Clients -> Stages]
  /\ port \in [Clients -> Ports]
  /\ exit \in [Clients -> Peers \cup {NoPeer}]
  /\ \A c \in Clients :
       stage[c] \in {"queueing", "opening", "evicting", "initiating"} => exit[c] \in Peers
  /\ told \in [Clients -> Seq(Answers)]
Greeted ==
  \A c \in Clients : stage[c] \in {"greeting", "requesting"} => exit[c] \in Peers
OthersTyped ==
  /\ dest \in [Ports -> Peers \cup {NoPeer}]
  /\ listener \in [Ports -> {"accepting", "resting", "lost"}]
  /\ asked \subseteq Clients /\ unfit \subseteq Peers
  /\ up \subseteq Clients /\ down \subseteq Clients
  /\ listed \subseteq Clients /\ billed \subseteq Clients
FreeTyped == free \in [Peers -> Nat]

Typed == SessionTyped /\ Greeted /\ OthersTyped /\ FreeTyped

LEMMA TypedInit == Init => Typed
<1> SUFFICES ASSUME Init PROVE Typed
  OBVIOUS
<1>1. SessionTyped
  BY DEF Init, SessionTyped, Stages, Serving, Answers
<1>2. Greeted
  BY DEF Init, Greeted
<1>3. OthersTyped /\ FreeTyped
  BY MaxConcurrentIsNatural DEF Init, OthersTyped, FreeTyped, Permits
<1> QED BY <1>1, <1>2, <1>3 DEF Typed

LEMMA TellsTyped ==
  ASSUME told \in [Clients -> Seq(Answers)], NEW c \in Clients, NEW answer \in Answers,
         Tells(c, answer)
  PROVE  told' \in [Clients -> Seq(Answers)]
<1>1. Append(told[c], answer) \in Seq(Answers)
  OBVIOUS
<1> QED BY <1>1 DEF Tells

LEMMA ReleaseTyped ==
  ASSUME FreeTyped, NEW c \in Clients, exit[c] \in Peers, Release(c)
  PROVE  FreeTyped'
BY DEF FreeTyped, Release

(* What one session does, its time-outs and panic included.                *)
LEMMA ProgressTyped ==
  ASSUME Typed, NEW c \in Clients, Progress(c) \/ TimeOut(c) \/ Panic(c)
  PROVE  Typed'
<1> USE DEF Typed, SessionTyped, Greeted, OthersTyped, Moves, Reads, Stages, Serving,
            discovery, session, relaying
<1>a. {"NoAcceptableMethods", "Succeeded", "GeneralFailure"} = Answers
  BY DEF Answers
<1>1. CASE Accept(c)
  <2>0. FreeTyped'
    BY <1>1 DEF Accept, FreeTyped
  <2>1. CASE dest[port[c]] = NoPeer
    <3>1. /\ stage' = [stage EXCEPT ![c] = "asking"] /\ asked' = asked \cup {c}
          /\ UNCHANGED <<dest, unfit, listener, port, exit, told, relaying>>
      BY <1>1, <2>1 DEF Accept
    <3>2. SessionTyped' /\ Greeted'
      BY <3>1
    <3>3. OthersTyped'
      BY <3>1
    <3>4. QED BY <2>0, <3>2, <3>3
  <2>2. CASE dest[port[c]] # NoPeer
    <3>1. /\ stage' = [stage EXCEPT ![c] = "greeting"]
          /\ exit' = [exit EXCEPT ![c] = dest[port[c]]]
          /\ UNCHANGED <<dest, unfit, listener, port, asked, told, relaying>>
      BY <1>1, <2>2 DEF Accept
    <3>2. dest[port[c]] \in Peers
      BY <2>2
    <3>3. SessionTyped'
      BY <3>1, <3>2
    <3>4. Greeted'
      BY <3>1, <3>2
    <3>5. OthersTyped'
      BY <3>1
    <3>6. QED BY <2>0, <3>3, <3>4, <3>5
  <2>. QED
    BY <2>1, <2>2
<1>2. CASE ClientFails(c) \/ Greet(c)
  BY <1>2 DEF ClientFails, Greet, FreeTyped
<1>11. CASE RefuseMethods(c) \/ Request(c)
  <2>1. told' \in [Clients -> Seq(Answers)]
    BY <1>a, <1>11, TellsTyped DEF RefuseMethods, Request
  <2> QED BY <1>11, <2>1 DEF RefuseMethods, Request, FreeTyped
<1>3. CASE Acquire(c)
  BY <1>3 DEF Acquire, FreeTyped
<1>4. CASE Opened(c) \/ Unsupported(c)
  <2>1. FreeTyped'
    BY <1>4, ReleaseTyped DEF Opened, Unsupported
  <2> QED BY <1>4, <2>1 DEF Opened, Unsupported
<1>5. CASE OpenFails(c)
  <2>1. FreeTyped'
    BY <1>5, ReleaseTyped DEF OpenFails
  <2>2. told' \in [Clients -> Seq(Answers)]
    BY <1>a, <1>5, TellsTyped DEF OpenFails
  <2> QED BY <1>5, <2>1, <2>2 DEF OpenFails
<1>6. CASE Initiate(c) \/ InitiateFails(c)
  BY <1>6 DEF Initiate, InitiateFails, FreeTyped
<1>7. CASE EndUpload(c) \/ EndDownload(c)
  BY <1>7 DEF EndUpload, EndDownload, FreeTyped
<1>8. CASE EndRelay(c) \/ ReportBandwidth(c)
  BY <1>8 DEF EndRelay, ReportBandwidth, FreeTyped
<1>9. CASE GiveUpAsking(c) \/ AcquireTimesOut(c) \/ Evict(c)
  <2>1. told' \in [Clients -> Seq(Answers)]
    BY <1>a, <1>9, TellsTyped DEF GiveUpAsking, AcquireTimesOut, Evict
  <2> QED BY <1>9, <2>1 DEF GiveUpAsking, AcquireTimesOut, Evict, FreeTyped
<1>10. CASE Panic(c)
  <2>1. FreeTyped'
    BY <1>10, ReleaseTyped DEF Panic, FreeTyped
  <2> QED BY <1>10, <2>1 DEF Panic
<1> QED
  BY <1>1, <1>2, <1>3, <1>4, <1>5, <1>6, <1>7, <1>8, <1>9, <1>10, <1>11
     DEF Progress, TimeOut

LEMMA TypedStep ==
  ASSUME Typed, [Next]_vars
  PROVE  Typed'
<1> USE DEF Typed, SessionTyped, Greeted, OthersTyped, FreeTyped
<1>1. ASSUME NEW c \in Clients, Progress(c) \/ TimeOut(c) \/ Panic(c)
      PROVE  Typed'
  BY <1>1, ProgressTyped
<1>2. ASSUME NEW c \in Clients, Answer(c)
      PROVE  Typed'
  <2> USE DEF Moves, Reads, Stages, Serving, relaying
  <2>1. PICK p \in Peers \cup {NoPeer} :
          /\ dest' = [dest EXCEPT ![port[c]] = p]
          /\ IF stage[c] # "asking" THEN UNCHANGED <<stage, exit, told>>
             ELSE IF p = NoPeer
                  THEN Moves(c, "over") /\ Tells(c, "GeneralFailure") /\ UNCHANGED exit
                  ELSE Moves(c, "greeting") /\ Reads(c, p) /\ UNCHANGED told
    BY <1>2 DEF Answer
  <2>2. told' \in [Clients -> Seq(Answers)]
    BY <2>1, TellsTyped DEF Answers
  <2>3. OthersTyped' /\ FreeTyped' /\ UNCHANGED port
    BY <1>2, <2>1 DEF Answer
  <2>4. CASE stage[c] # "asking"
    BY <2>1, <2>3, <2>4
  <2>5. CASE stage[c] = "asking" /\ p = NoPeer
    <3>1. stage' = [stage EXCEPT ![c] = "over"] /\ UNCHANGED exit
      BY <2>1, <2>5
    <3>2. SessionTyped' /\ Greeted'
      BY <2>2, <2>3, <3>1
    <3>3. QED BY <2>3, <3>2
  <2>6. CASE stage[c] = "asking" /\ p # NoPeer
    <3>1. /\ stage' = [stage EXCEPT ![c] = "greeting"] /\ UNCHANGED told
          /\ exit' = [exit EXCEPT ![c] = p] /\ p \in Peers
      BY <2>1, <2>6
    <3>2. SessionTyped' /\ Greeted'
      BY <2>3, <3>1
    <3>3. QED BY <2>3, <3>2
  <2> QED BY <2>4, <2>5, <2>6
<1>3. ASSUME NEW l \in Ports, Listen(l)
      PROVE  Typed'
  <2>1. UNCHANGED <<discovery, session, free, relaying>>
    BY <1>3 DEF Listen, AcceptFails, Rebind, RebindFails
  <2>2. listener' \in [Ports -> {"accepting", "resting", "lost"}]
    BY <1>3 DEF Listen, AcceptFails, Rebind, RebindFails
  <2> QED BY <2>1, <2>2 DEF session, discovery, relaying
<1>6. ASSUME NEW l \in Ports, Redirect(l)
      PROVE  Typed'
  BY <1>6 DEF Redirect, session, relaying
<1>4. ASSUME NEW p \in Peers, DropUnfit(p)
      PROVE  Typed'
  BY <1>4 DEF DropUnfit, session, relaying
<1>5. CASE UNCHANGED vars
  BY <1>5 DEF vars, session, discovery, relaying
<1> QED BY <1>1, <1>2, <1>3, <1>4, <1>5, <1>6 DEF Next

LEMMA AlwaysTyped == Spec => []Typed
BY TypedInit, TypedStep, PTL DEF Spec
-----------------------------------------------------------------------------
LEMMA OpeningIsFinite ==
  ASSUME NEW p \in Peers
  PROVE  /\ IsFiniteSet(Opening(p)) /\ IsFiniteSet(Opening(p)')
         /\ Cardinality(Opening(p)) \in Nat
BY ClientsAreFinite, FS_Subset, FS_CardinalityType DEF Opening

(* Whatever is neither the start nor the end of an open leaves the permits *)
(* and their holders alone.                                                *)
Holding == {c \in Clients : stage[c] = "opening"}

LEMMA PermitsKept ==
  ASSUME PermitsConserved, UNCHANGED <<free, Holding>>,
         \A c \in Holding : exit'[c] = exit[c]
  PROVE  PermitsConserved'
<1>1. \A p \in Peers : Opening(p)' = Opening(p)
  BY DEF Opening, Holding
<1> QED BY <1>1 DEF PermitsConserved

LEMMA PermitTaken ==
  ASSUME Typed, PermitsConserved, NEW c \in Clients, Acquire(c)
  PROVE  PermitsConserved'
<1> SUFFICES ASSUME NEW p \in Peers
             PROVE  free'[p] + Cardinality(Opening(p)') = Permits
  BY DEF PermitsConserved
<1>0. free[p] + Cardinality(Opening(p)) = Permits
  BY DEF PermitsConserved
<1>1. CASE p = exit[c]
  <2>1. Opening(p)' = Opening(p) \cup {c} /\ c \notin Opening(p)
    BY <1>1 DEF Acquire, Moves, Opening, Typed, SessionTyped
  <2>2. Cardinality(Opening(p)') = Cardinality(Opening(p)) + 1
    BY <2>1, OpeningIsFinite, FS_AddElement
  <2>3. free'[p] = free[p] - 1 /\ free[p] \in Nat
    BY <1>1 DEF Acquire, Typed, FreeTyped
  <2> QED BY <1>0, <2>2, <2>3, OpeningIsFinite
<1>2. CASE p # exit[c]
  <2>1. Opening(p)' = Opening(p)
    BY <1>2 DEF Acquire, Moves, Opening, Typed, SessionTyped
  <2>2. free'[p] = free[p]
    BY <1>2 DEF Acquire, Typed, FreeTyped
  <2> QED BY <1>0, <2>1, <2>2
<1> QED BY <1>1, <1>2

LEMMA PermitReturned ==
  ASSUME Typed, PermitsConserved, NEW c \in Clients, NEW to, to # "opening",
         stage[c] = "opening", Moves(c, to), Release(c), UNCHANGED exit
  PROVE  PermitsConserved'
<1> SUFFICES ASSUME NEW p \in Peers
             PROVE  free'[p] + Cardinality(Opening(p)') = Permits
  BY DEF PermitsConserved
<1>0. free[p] + Cardinality(Opening(p)) = Permits
  BY DEF PermitsConserved
<1>1. CASE p = exit[c]
  <2>1. Opening(p)' = Opening(p) \ {c} /\ c \in Opening(p)
    BY <1>1 DEF Moves, Opening, Typed, SessionTyped
  <2>2. Cardinality(Opening(p)') = Cardinality(Opening(p)) - 1
    BY <2>1, OpeningIsFinite, FS_RemoveElement
  <2>3. free'[p] = free[p] + 1 /\ free[p] \in Nat
    BY <1>1 DEF Release, Typed, FreeTyped
  <2> QED BY <1>0, <2>2, <2>3, OpeningIsFinite
<1>2. CASE p # exit[c]
  <2>1. Opening(p)' = Opening(p)
    BY <1>2 DEF Moves, Opening, Typed, SessionTyped
  <2>2. free'[p] = free[p]
    BY <1>2 DEF Release, Typed, FreeTyped
  <2> QED BY <1>0, <2>1, <2>2
<1> QED BY <1>1, <1>2

LEMMA ConservedStep ==
  ASSUME Typed, PermitsConserved, [Next]_vars
  PROVE  PermitsConserved'
<1> USE DEF Typed, SessionTyped, Holding, Moves, Reads, discovery, session, relaying
<1>1. ASSUME NEW c \in Clients, Acquire(c)
      PROVE  PermitsConserved'
  BY <1>1, PermitTaken
<1>2. ASSUME NEW c \in Clients, Opened(c) \/ Unsupported(c) \/ OpenFails(c)
      PROVE  PermitsConserved'
  BY <1>2, PermitReturned DEF Opened, Unsupported, OpenFails
<1>3. ASSUME NEW c \in Clients, Panic(c)
      PROVE  PermitsConserved'
  BY <1>3, PermitReturned, PermitsKept DEF Panic
<1>4. ASSUME NEW c \in Clients, Accept(c) \/ Answer(c)
      PROVE  PermitsConserved'
  BY <1>4, PermitsKept DEF Accept, Answer
<1>5. ASSUME NEW c \in Clients,
             \/ ClientFails(c) \/ Greet(c) \/ RefuseMethods(c) \/ Request(c)
             \/ GiveUpAsking(c) \/ AcquireTimesOut(c) \/ Evict(c)
      PROVE  PermitsConserved'
  BY <1>5, PermitsKept
     DEF ClientFails, Greet, RefuseMethods, Request, GiveUpAsking, AcquireTimesOut, Evict
<1>6. ASSUME NEW c \in Clients,
             \/ Initiate(c) \/ InitiateFails(c) \/ EndUpload(c) \/ EndDownload(c)
             \/ EndRelay(c) \/ ReportBandwidth(c)
      PROVE  PermitsConserved'
  BY <1>6, PermitsKept
     DEF Initiate, InitiateFails, EndUpload, EndDownload, EndRelay, ReportBandwidth
<1>7. ASSUME NEW l \in Ports, Listen(l) \/ Redirect(l)
      PROVE  PermitsConserved'
  BY <1>7, PermitsKept DEF Listen, AcceptFails, Rebind, RebindFails, Redirect
<1>8. CASE (\E p \in Peers : DropUnfit(p)) \/ UNCHANGED vars
  BY <1>8, PermitsKept DEF DropUnfit, vars
<1> QED
  BY <1>1, <1>2, <1>3, <1>4, <1>5, <1>6, <1>7, <1>8 DEF Next, Progress, TimeOut

(* However an open ends, by success, error, time-out or panic, its permit  *)
(* is returned, once.                                                      *)
THEOREM PermitsAreConserved == Spec => []PermitsConserved
<1>1. ASSUME Init PROVE PermitsConserved
  <2>1. \A p \in Peers : Opening(p) = {} /\ free[p] = Permits
    BY <1>1 DEF Init, Opening
  <2>2. Permits \in Nat
    BY MaxConcurrentIsNatural DEF Permits
  <2> QED BY <2>1, <2>2, FS_EmptySet DEF PermitsConserved
<1>2. Typed /\ PermitsConserved /\ [Next]_vars => PermitsConserved'
  BY ConservedStep
<1> QED BY <1>1, <1>2, AlwaysTyped, PTL DEF Spec

(* The state of the sessions keeps its types: one that asks for a stream   *)
(* has an exit, and no semaphore has more permits than it was made with.   *)
THEOREM SessionTypes == Spec => []TypeOK
<1>1. ASSUME Typed, PermitsConserved PROVE TypeOK
  <2>1. ASSUME NEW p \in Peers PROVE free[p] \in 0..Permits
    <3>1. free[p] \in Nat /\ free[p] + Cardinality(Opening(p)) = Permits
      BY <1>1 DEF Typed, FreeTyped, PermitsConserved
    <3> QED BY <3>1, OpeningIsFinite
  <2>2. free \in [Peers -> 0..Permits]
    BY <1>1, <2>1 DEF Typed, FreeTyped
  <2> QED BY <1>1, <2>2 DEF Typed, SessionTyped, OthersTyped, TypeOK
<1> QED BY <1>1, AlwaysTyped, PermitsAreConserved, PTL
-----------------------------------------------------------------------------
(* A session holds the exit that refused it until it has reported it.      *)
Refused ==
  /\ unfit \subseteq Incompatible
  /\ \A c \in Clients : stage[c] = "evicting" => exit[c] \in Incompatible

LEMMA RefusedStep ==
  ASSUME Typed, Refused, [Next]_vars
  PROVE  Refused'
<1> USE DEF Typed, SessionTyped, Refused, Moves, Reads, discovery, session, relaying
<1>1. ASSUME NEW c \in Clients, Unsupported(c) \/ Evict(c)
      PROVE  Refused'
  BY <1>1 DEF Unsupported, Evict
<1>2. ASSUME NEW c \in Clients, Accept(c) \/ Answer(c)
      PROVE  Refused'
  BY <1>2 DEF Accept, Answer
<1>3. ASSUME NEW c \in Clients,
             \/ ClientFails(c) \/ Greet(c) \/ RefuseMethods(c) \/ Request(c)
             \/ GiveUpAsking(c) \/ Acquire(c) \/ AcquireTimesOut(c)
      PROVE  Refused'
  BY <1>3 DEF ClientFails, Greet, RefuseMethods, Request, GiveUpAsking, Acquire, AcquireTimesOut
<1>4. ASSUME NEW c \in Clients, Opened(c) \/ OpenFails(c) \/ Panic(c)
      PROVE  Refused'
  BY <1>4 DEF Opened, OpenFails, Panic
<1>5. ASSUME NEW c \in Clients,
             \/ Initiate(c) \/ InitiateFails(c) \/ EndUpload(c) \/ EndDownload(c)
             \/ EndRelay(c) \/ ReportBandwidth(c)
      PROVE  Refused'
  BY <1>5 DEF Initiate, InitiateFails, EndUpload, EndDownload, EndRelay, ReportBandwidth
<1>6. ASSUME NEW l \in Ports, Listen(l) \/ Redirect(l)
      PROVE  Refused'
  BY <1>6 DEF Listen, AcceptFails, Rebind, RebindFails, Redirect
<1>7. CASE (\E p \in Peers : DropUnfit(p)) \/ UNCHANGED vars
  BY <1>7 DEF DropUnfit, vars
<1> QED BY <1>1, <1>2, <1>3, <1>4, <1>5, <1>6, <1>7 DEF Next, Progress, TimeOut

(* Discovery is told to forget a peer only if that peer refused the        *)
(* protocol, whatever became of the port's exit since.                     *)
THEOREM ReportsAreTrue == Spec => []OnlyIncompatibleEvicted
<1>1. Init => Refused
  BY DEF Init, Refused
<1>2. Typed /\ Refused /\ [Next]_vars => Refused'
  BY RefusedStep
<1>3. Refused => OnlyIncompatibleEvicted
  BY DEF Refused, OnlyIncompatibleEvicted
<1> QED BY <1>1, <1>2, <1>3, AlwaysTyped, PTL DEF Spec
-----------------------------------------------------------------------------
(* What a client has been told follows from where its session is, and so   *)
(* does whether it is listed or still copying.                             *)
Early == {"absent", "asking", "greeting", "requesting"}
Late == {"queueing", "opening", "evicting", "initiating", "relaying", "reporting"}

ToldByStage ==
  \A c \in Clients :
    /\ stage[c] \in Early => told[c] = <<>>
    /\ stage[c] \in Late => told[c] = <<"Succeeded">>
ListedByStage ==
  \A c \in Clients :
    /\ c \in listed \cup up \cup down => stage[c] \in {"relaying", "panicked"}
    /\ c \in billed => stage[c] = "over" /\ told[c] = <<"Succeeded">>
Accounted == ToldByStage /\ ListedByStage

LEMMA AccountedStep ==
  ASSUME Typed, Accounted, [Next]_vars
  PROVE  Accounted'
<1> USE DEF Typed, SessionTyped, OthersTyped, Accounted, ToldByStage, ListedByStage,
            Early, Late, Stages, Serving, Moves, Tells, discovery, session, relaying
<1>1. ASSUME NEW c \in Clients, Accept(c)
      PROVE  Accounted'
  BY <1>1 DEF Accept
<1>2. ASSUME NEW c \in Clients, Answer(c)
      PROVE  Accounted'
  <2>1. ToldByStage'
    BY <1>2 DEF Answer
  <2>2. ListedByStage'
    BY <1>2 DEF Answer
  <2>. QED
    BY <2>1, <2>2
<1>3. ASSUME NEW c \in Clients, ClientFails(c) \/ Greet(c) \/ RefuseMethods(c) \/ GiveUpAsking(c)
      PROVE  Accounted'
  BY <1>3 DEF ClientFails, Greet, RefuseMethods, GiveUpAsking
<1>4. ASSUME NEW c \in Clients, Request(c)
      PROVE  Accounted'
  <2>1. told[c] = <<>> /\ told' = [told EXCEPT ![c] = <<"Succeeded">>]
    <3>1. told[c] = <<>>
      BY <1>4 DEF Request
    <3>2. Append(<<>>, "Succeeded") = <<"Succeeded">>
      OBVIOUS
    <3> QED BY <1>4, <3>1, <3>2 DEF Request
  <2> QED BY <1>4, <2>1 DEF Request
<1>5. ASSUME NEW c \in Clients, Acquire(c) \/ Opened(c) \/ Unsupported(c)
      PROVE  Accounted'
  BY <1>5 DEF Acquire, Opened, Unsupported
<1>6. ASSUME NEW c \in Clients, AcquireTimesOut(c) \/ OpenFails(c) \/ Evict(c)
      PROVE  Accounted'
  BY <1>6 DEF AcquireTimesOut, OpenFails, Evict
<1>7. ASSUME NEW c \in Clients, Initiate(c)
      PROVE  Accounted'
  BY <1>7 DEF Initiate
<1>8. ASSUME NEW c \in Clients, InitiateFails(c) \/ Panic(c)
      PROVE  Accounted'
  BY <1>8 DEF InitiateFails, Panic
<1>9. ASSUME NEW c \in Clients, EndUpload(c) \/ EndDownload(c)
      PROVE  Accounted'
  BY <1>9 DEF EndUpload, EndDownload
<1>10. ASSUME NEW c \in Clients, EndRelay(c)
      PROVE  Accounted'
  BY <1>10 DEF EndRelay
<1>11. ASSUME NEW c \in Clients, ReportBandwidth(c)
      PROVE  Accounted'
  BY <1>11 DEF ReportBandwidth
<1>12. ASSUME UNCHANGED <<session, relaying>>
       PROVE  Accounted'
  BY <1>12
<1>13. ASSUME NEW l \in Ports, Listen(l) \/ Redirect(l)
       PROVE  Accounted'
  BY <1>12, <1>13 DEF Listen, AcceptFails, Rebind, RebindFails, Redirect
<1>14. CASE (\E p \in Peers : DropUnfit(p)) \/ UNCHANGED vars
  BY <1>12, <1>14 DEF DropUnfit, vars
<1> QED
  BY <1>1, <1>2, <1>3, <1>4, <1>5, <1>6, <1>7, <1>8, <1>9, <1>10, <1>11, <1>13, <1>14
     DEF Next, Progress, TimeOut

LEMMA AlwaysAccounted == Spec => []Accounted
<1>1. Init => Accounted
  BY DEF Init, Accounted, ToldByStage, ListedByStage, Early, Late
<1>2. Typed /\ Accounted /\ [Next]_vars => Accounted'
  BY AccountedStep
<1> QED BY <1>1, <1>2, AlwaysTyped, PTL DEF Spec

(* A session that is gone, other than by a panic, is neither listed nor    *)
(* copying, and what was billed is over and had succeeded.                 *)
THEOREM ListingIsTrue == Spec => []ListedWhileServed
<1>1. Accounted => ListedWhileServed
  BY DEF Accounted, ListedByStage, ListedWhileServed
<1> QED BY <1>1, AlwaysAccounted, PTL

LEMMA TwoAnswers ==
  ASSUME NEW S, NEW x \in S, NEW y \in S
  PROVE  Append(<<x>>, y) = <<x, y>>
<1> DEFINE s == Append(<<x>>, y)
           t == <<x, y>>
<1>1. <<x>> \in Seq(S) /\ Len(<<x>>) = 1 /\ <<x>>[1] = x
  OBVIOUS
<1>2. t \in Seq(S) /\ Len(t) = 2 /\ t[1] = x /\ t[2] = y
  OBVIOUS
<1>3. s \in Seq(S) /\ Len(s) = 2 /\ s[1] = x /\ s[2] = y
  BY <1>1, AppendProperties
<1>4. s = t
  <2> HIDE DEF s, t
  <2>1. Len(s) = Len(t) /\ \A i \in 1..Len(s) : s[i] = t[i]
    BY <1>2, <1>3
  <2> QED BY <1>2, <1>3, <2>1, SeqEqual
<1> QED BY <1>4

(* A client that was told of success and for which no stream could be      *)
(* opened is told of the failure in the step that lets it go.              *)
THEOREM FailuresAreTold == Spec => FailureTold
<1> DEFINE Told ==
      \A c \in Clients :
        stage[c] \in {"queueing", "opening", "evicting"} /\ stage'[c] = "over"
          => told'[c] = <<"Succeeded", "GeneralFailure">>
<1>1. ASSUME Typed, Accounted, [Next]_vars
      PROVE  Told
  <2> SUFFICES ASSUME NEW c \in Clients, stage[c] \in {"queueing", "opening", "evicting"},
                      stage'[c] = "over"
               PROVE  told'[c] = <<"Succeeded", "GeneralFailure">>
    OBVIOUS
  <2>1. told[c] = <<"Succeeded">>
    BY <1>1 DEF Accounted, ToldByStage, Late
  <2>2. AcquireTimesOut(c) \/ OpenFails(c) \/ Evict(c)
    <3> USE <1>1 DEF Typed, SessionTyped, Moves, discovery, session, relaying
    <3>1. ASSUME NEW d \in Clients, Progress(d), ~AcquireTimesOut(c), ~OpenFails(c), ~Evict(c)
          PROVE  FALSE
      BY <3>1 DEF Progress, Accept, ClientFails, Greet, RefuseMethods, Request, Acquire, Opened,
                  Unsupported, Evict, Initiate, InitiateFails, EndUpload, EndDownload, EndRelay,
                  ReportBandwidth
    <3>2. ASSUME NEW d \in Clients, TimeOut(d) \/ Answer(d) \/ Panic(d),
                 ~AcquireTimesOut(c), ~OpenFails(c), ~Evict(c)
          PROVE  FALSE
      BY <3>2 DEF TimeOut, GiveUpAsking, AcquireTimesOut, OpenFails, Answer, Panic
    <3>3. ASSUME UNCHANGED stage
          PROVE  FALSE
      BY <3>3
    <3>4. ASSUME NEW l \in Ports, Listen(l) \/ Redirect(l)
          PROVE  FALSE
      BY <3>3, <3>4 DEF Listen, AcceptFails, Rebind, RebindFails, Redirect
    <3>5. CASE (\E p \in Peers : DropUnfit(p)) \/ UNCHANGED vars
      BY <3>3, <3>5 DEF DropUnfit, vars
    <3> QED BY <3>1, <3>2, <3>4, <3>5 DEF Next
  <2>3. told' = [told EXCEPT ![c] = Append(@, "GeneralFailure")]
    BY <2>2 DEF AcquireTimesOut, OpenFails, Evict, Tells
  <2>4. told'[c] = Append(told[c], "GeneralFailure")
    BY <1>1, <2>3 DEF Typed, SessionTyped
  <2>5. Append(<<"Succeeded">>, "GeneralFailure") = <<"Succeeded", "GeneralFailure">>
    <3>1. "Succeeded" \in Answers /\ "GeneralFailure" \in Answers
      BY DEF Answers
    <3> QED BY <3>1, TwoAnswers
  <2> QED BY <2>1, <2>4, <2>5
<1>2. Typed /\ Accounted /\ [Next]_vars => [Told]_vars
  BY <1>1
<1> QED BY <1>2, AlwaysTyped, AlwaysAccounted, PTL DEF Spec, FailureTold
=============================================================================
