---------------------------- MODULE NetworkProofs ----------------------------
(***************************************************************************)
(* Network's invariants, for all its constants.  Each of them is inductive *)
(* once the types are known.                                               *)
(***************************************************************************)
EXTENDS Network, TLAPS

Answers == {"none", "awaited", "nobody", "shutdown"} \cup Peers
LinkCounts == [Conditions -> Nat]

(* What the steps on connections do to the connections of a peer.          *)
LEMMA LinksTyped ==
  ASSUME TypeOK, NEW p \in Everyone
  PROVE  /\ LinksOf(p) \in Nat
         /\ \A k \in Conditions : links[p][k] \in Nat /\ links[p][k] <= LinksOf(p)
BY DEF TypeOK, LinksOf, Conditions

(* Answering dials keeps the table and the answers typed.                  *)
LEMMA AnswerTyped ==
  ASSUME TypeOK, NEW answered \in SUBSET pendingDials,
         NEW reply \in Answers \cup {Hub}, reply \in Answers \/ answered = {},
         Answer(answered, reply)
  PROVE  /\ pendingDials' \subseteq pendingDials
         /\ answer' \in [Callers -> Answers]
BY DEF Answer, TypeOK, Answers

LEMMA EstablishTyped ==
  ASSUME TypeOK, NEW p \in Everyone, Establish(p)
  PROVE  /\ links' \in [Everyone -> LinkCounts]
         /\ pendingDials' \subseteq pendingDials
         /\ answer' \in [Callers -> Answers]
         /\ UNCHANGED <<running, strikes>>
<1> DEFINE answered == {d \in pendingDials : p \in d.candidates}
<1>1. Answer(answered, p)
  BY DEF Establish, CompletePendingDials
<1>2. p \in Answers \/ answered = {}
  BY HubIsNoExit DEF Everyone, Answers, TypeOK
<1>3. p \in Answers \cup {Hub} /\ answered \in SUBSET pendingDials
  BY DEF Everyone, Answers
<1>4. pendingDials' \subseteq pendingDials /\ answer' \in [Callers -> Answers]
  <2> HIDE DEF answered
  <2> QED BY <1>1, <1>2, <1>3, AnswerTyped
<1>5. links' \in [Everyone -> LinkCounts]
  BY DEF Establish, TypeOK, LinkCounts, Conditions
<1> QED BY <1>4, <1>5 DEF Establish

LEMMA TypedInit == Init => TypeOK
<1> SUFFICES ASSUME Init PROVE TypeOK
  OBVIOUS
<1>1. links \in [Everyone -> LinkCounts]
  BY DEF Init, LinkCounts
<1>2. strikes \in [Everyone -> 0..(PingStrikes - 1)]
  BY LimitsArePositive DEF Init
<1>3. answer \in [Callers -> Answers]
  BY DEF Init, Answers
<1> QED BY <1>1, <1>2, <1>3 DEF Init, TypeOK, LinkCounts, Answers

LEMMA TypedStep == TypeOK /\ [Next]_vars => TypeOK'
<1> SUFFICES ASSUME TypeOK, [Next]_vars PROVE TypeOK'
  OBVIOUS
<1> USE LimitsArePositive
<1>h. Hub \in Everyone /\ Peers \subseteq Everyone
  BY DEF Everyone
<1>1. ASSUME NEW c \in Callers, NEW candidates \in SUBSET Peers, Dial(c, candidates)
      PROVE  TypeOK'
  <2>1. [caller |-> c, candidates |-> candidates, age |-> 0]
          \in [caller : Callers, candidates : SUBSET Peers, age : 0..DialTimeout]
    OBVIOUS
  <2> QED BY <1>1, <2>1 DEF Dial, TypeOK, bootstrap
<1>2. CASE Tick
  BY <1>2 DEF Tick, TypeOK, bootstrap
<1>3. CASE ExpireDials
  <2>1. /\ pendingDials' \subseteq pendingDials
        /\ answer' \in [Callers -> Answers]
    BY <1>3, AnswerTyped DEF ExpireDials, Answers
  <2> QED BY <1>3, <2>1 DEF ExpireDials, TypeOK, bootstrap, Answers
<1>4. CASE Shutdown
  <2>1. /\ pendingDials' \subseteq pendingDials
        /\ answer' \in [Callers -> Answers]
    BY <1>4, AnswerTyped DEF Shutdown, Answers
  <2>2. links' \in [Everyone -> LinkCounts]
    BY <1>4, LinksTyped DEF Shutdown, LinkCounts
  <2> QED BY <1>4, <2>1, <2>2 DEF Shutdown, TypeOK, bootstrap, Answers, LinkCounts
<1>5. ASSUME NEW p \in Peers, PeerConnects(p)
      PROVE  TypeOK'
  BY <1>5, <1>h, EstablishTyped DEF PeerConnects, TypeOK, bootstrap, Answers, LinkCounts
<1>6. CASE HubConnects
  <2>1. hubDials' \in Nat /\ ownHubDials' \in Nat
    BY <1>6 DEF HubConnects, TypeOK
  <2>2. bootstrapConnected' \in BOOLEAN /\ bootstrapDialing' \in BOOLEAN
    BY <1>6 DEF HubConnects
  <2>3. /\ links' \in [Everyone -> LinkCounts] /\ pendingDials' \subseteq pendingDials
        /\ answer' \in [Callers -> Answers] /\ UNCHANGED <<running, strikes>>
    BY <1>6, <1>h, EstablishTyped DEF HubConnects
  <2> QED BY <2>1, <2>2, <2>3 DEF TypeOK, Answers, LinkCounts
<1>7. CASE HubDialFails
  BY <1>7, HubNamedIsKnown DEF HubDialFails, TypeOK, dials
<1>8. CASE OwnHubDial
  BY <1>8 DEF OwnHubDial, TypeOK, dials
<1>9. CASE OwnHubDialFails
  <2>1. ownHubDials' \in Nat
    BY <1>9 DEF OwnHubDialFails, TypeOK
  <2>2. bootstrapDialing' \in BOOLEAN
    BY <1>9 DEF OwnHubDialFails
  <2> QED BY <1>9, <2>1, <2>2 DEF OwnHubDialFails, TypeOK, dials
<1>10. CASE RetryBootstrap
  BY <1>10 DEF RetryBootstrap, TypeOK, dials
<1>11. ASSUME NEW p \in Everyone, GoSilent(p)
       PROVE  TypeOK'
  BY <1>11 DEF GoSilent, TypeOK, dials, bootstrap, Conditions
<1>12. ASSUME NEW p \in Everyone, PingSucceeded(p)
       PROVE  TypeOK'
  BY <1>12 DEF PingSucceeded, TypeOK, dials, bootstrap
<1>13. ASSUME NEW p \in Everyone, PingFailed(p)
       PROVE  TypeOK'
  <2>1. links' \in [Everyone -> LinkCounts]
    <3>1. [k \in Conditions |-> IF k = "closing" THEN LinksOf(p) ELSE 0] \in LinkCounts
      BY LinksTyped DEF LinkCounts
    <3> QED BY <1>13, <3>1 DEF PingFailed, TypeOK, LinkCounts
  <2>2. strikes' \in [Everyone -> 0..(PingStrikes - 1)]
    BY <1>13 DEF PingFailed, TypeOK
  <2> QED BY <1>13, <2>1, <2>2 DEF PingFailed, TypeOK, dials, bootstrap, LinkCounts
<1>14. ASSUME NEW p \in Everyone, NEW k \in Conditions, Close(p, k)
       PROVE  TypeOK'
  <2>1. bootstrapConnected' \in BOOLEAN /\ bootstrapDialing' \in BOOLEAN
    BY <1>14 DEF Close, TypeOK
  <2>2. links' \in [Everyone -> LinkCounts]
    BY <1>14 DEF Close, TypeOK, LinkCounts
  <2> QED BY <1>14, <2>1, <2>2 DEF Close, TypeOK, dials, LinkCounts
<1>15. CASE UNCHANGED vars
  BY <1>15 DEF vars, dials, bootstrap, TypeOK
<1> QED
  BY <1>1, <1>2, <1>3, <1>4, <1>5, <1>6, <1>7, <1>8, <1>9, <1>10, <1>11, <1>12,
     <1>13, <1>14, <1>15 DEF Next, Pinged

(* The state of the network actor keeps its types: no peer ever has as     *)
(* many strikes as the limit, and no entry of the dial table outlives its  *)
(* deadline.                                                               *)
THEOREM NetworkTyped == Spec => []TypeOK
BY TypedInit, TypedStep, PTL DEF Spec
-----------------------------------------------------------------------------
LEMMA ArmedStep ==
  ASSUME HubNamed, TypeOK, RetryArmed, [Next]_vars
  PROVE  RetryArmed'
<1>1. CASE HubDialFails
  BY <1>1 DEF HubDialFails, RetryArmed
<1>2. CASE RetryBootstrap
  BY <1>2 DEF RetryBootstrap, RetryArmed, TypeOK
<1>3. CASE HubConnects \/ OwnHubDialFails
  BY <1>3 DEF HubConnects, OwnHubDialFails, RetryArmed
<1>4. ASSUME NEW p \in Everyone, NEW k \in Conditions, Close(p, k)
      PROVE  RetryArmed'
  BY <1>4 DEF Close, RetryArmed
<1>5. ASSUME UNCHANGED bootstrap, running' => running
      PROVE  RetryArmed'
  BY <1>5 DEF bootstrap, RetryArmed
<1>6. CASE OwnHubDial
  BY <1>6 DEF OwnHubDial, RetryArmed
<1>7. CASE \E c \in Callers, candidates \in SUBSET Peers : Dial(c, candidates)
  BY <1>5, <1>7 DEF Dial
<1>8. CASE Tick \/ ExpireDials \/ Shutdown
  BY <1>5, <1>8 DEF Tick, ExpireDials, Shutdown
<1>9. CASE \E p \in Peers : PeerConnects(p)
  BY <1>5, <1>9 DEF PeerConnects, Establish
<1>10. CASE \E p \in Everyone : GoSilent(p) \/ Pinged(p)
  BY <1>5, <1>10 DEF GoSilent, Pinged, PingSucceeded, PingFailed
<1>11. CASE UNCHANGED vars
  BY <1>5, <1>11 DEF vars
<1> QED
  BY <1>1, <1>2, <1>3, <1>4, <1>6, <1>7, <1>8, <1>9, <1>10, <1>11 DEF Next

(* When the hub's address names the hub, bootstrap_dialing never outlives  *)
(* the dial it stands for, so that the retry is never switched off.        *)
THEOREM RetryStaysArmed == HubNamed => (Spec => []RetryArmed)
<1> SUFFICES ASSUME HubNamed PROVE Spec => []RetryArmed
  OBVIOUS
<1>1. Init => RetryArmed
  BY DEF Init, RetryArmed
<1>2. TypeOK /\ RetryArmed /\ [Next]_vars => RetryArmed'
  BY ArmedStep
<1> QED BY <1>1, <1>2, NetworkTyped, PTL DEF Spec
-----------------------------------------------------------------------------
(* Whatever a step does to the connections, it keeps their number but for  *)
(* one that comes up or closes.                                            *)
LEMMA LinksKept ==
  ASSUME TypeOK, NEW p \in Everyone, NEW q \in Everyone, GoSilent(q) \/ PingFailed(q)
  PROVE  LinksOf(p)' = LinksOf(p)
<1>1. LinksOf(q) \in Nat
  BY LinksTyped
<1>2. CASE GoSilent(q)
  BY <1>2 DEF GoSilent, LinksOf, TypeOK, Conditions
<1>3. CASE PingFailed(q) /\ UNCHANGED links
  BY <1>3 DEF LinksOf
<1>4. CASE PingFailed(q) /\ links' = [links EXCEPT ![q] =
             [k \in Conditions |-> IF k = "closing" THEN LinksOf(q) ELSE 0]]
  <2>1. CASE p = q
    <3>1. links'[q] = [k \in Conditions |-> IF k = "closing" THEN LinksOf(q) ELSE 0]
      BY <1>4 DEF TypeOK
    <3>2. links'[q]["alive"] = 0 /\ links'[q]["silent"] = 0 /\ links'[q]["closing"] = LinksOf(q)
      BY <3>1 DEF Conditions
    <3> QED BY <1>1, <2>1, <3>2 DEF LinksOf
  <2>2. CASE p # q
    BY <1>4, <2>2 DEF LinksOf, TypeOK
  <2> QED BY <2>1, <2>2
<1> QED BY <1>2, <1>3, <1>4 DEF PingFailed

LEMMA NoticedStep ==
  ASSUME TypeOK, HubLossNoticed, [Next]_vars
  PROVE  HubLossNoticed'
<1>h. Hub \in Everyone
  BY DEF Everyone
<1>1. CASE HubConnects
  <2>1. links' = [links EXCEPT ![Hub]["alive"] = @ + 1]
    BY <1>1 DEF HubConnects, Establish
  <2> QED BY <1>h, <2>1 DEF LinksOf, HubLossNoticed, TypeOK, Conditions
<1>2. ASSUME NEW p \in Peers, PeerConnects(p)
      PROVE  HubLossNoticed'
  <2>1. links'[Hub] = links[Hub] /\ UNCHANGED <<running, bootstrapConnected>>
    BY <1>2, HubIsNoExit DEF PeerConnects, Establish, TypeOK, bootstrap, Everyone
  <2> QED BY <2>1 DEF LinksOf, HubLossNoticed
<1>3. ASSUME NEW p \in Everyone, NEW k \in Conditions, Close(p, k)
      PROVE  HubLossNoticed'
  <2>1. CASE p = Hub
    BY <1>3, <2>1 DEF Close, HubLossNoticed
  <2>2. CASE p # Hub
    BY <1>h, <1>3, <2>2 DEF Close, HubLossNoticed, LinksOf, TypeOK
  <2> QED BY <2>1, <2>2
<1>4. ASSUME NEW q \in Everyone, GoSilent(q) \/ PingFailed(q)
      PROVE  HubLossNoticed'
  <2>1. LinksOf(Hub)' = LinksOf(Hub)
    BY <1>h, <1>4, LinksKept
  <2> QED BY <1>4, <2>1 DEF GoSilent, PingFailed, HubLossNoticed, bootstrap
<1>5. CASE Shutdown
  BY <1>5 DEF Shutdown, HubLossNoticed
<1>6. CASE UNCHANGED <<running, links, bootstrapConnected>>
  BY <1>6 DEF HubLossNoticed, LinksOf
<1> QED
  BY <1>1, <1>2, <1>3, <1>4, <1>5, <1>6
     DEF Next, Pinged, Dial, Tick, ExpireDials, HubDialFails, OwnHubDial, OwnHubDialFails,
         RetryBootstrap, PingSucceeded, vars, bootstrap

(* However many connections to the hub come up and close, the hub is not   *)
(* taken for connected once the last of them is gone.                      *)
THEOREM HubLossIsNoticed == Spec => []HubLossNoticed
<1>1. Init => HubLossNoticed
  BY DEF Init, HubLossNoticed, LinksOf, Everyone, Conditions
<1>2. TypeOK /\ HubLossNoticed /\ [Next]_vars => HubLossNoticed'
  BY NoticedStep
<1> QED BY <1>1, <1>2, NetworkTyped, PTL DEF Spec
-----------------------------------------------------------------------------
LEMMA EstablishAdds ==
  ASSUME TypeOK, NEW p \in Everyone, NEW q \in Everyone, Establish(q)
  PROVE  LinksOf(p)' >= LinksOf(p)
<1>1. links' = [links EXCEPT ![q]["alive"] = @ + 1]
  BY DEF Establish
<1> QED BY <1>1 DEF LinksOf, TypeOK, Conditions

LEMMA StrikesStep ==
  ASSUME TypeOK, StrikesOfConnected, [Next]_vars
  PROVE  StrikesOfConnected'
<1>h. Hub \in Everyone /\ Peers \subseteq Everyone
  BY DEF Everyone
<1>1. ASSUME NEW q \in Everyone, Establish(q)
      PROVE  StrikesOfConnected'
  <2>1. \A p \in Everyone : LinksOf(p)' >= LinksOf(p) /\ LinksOf(p)' \in Nat
    BY <1>1, LinksTyped, EstablishAdds, EstablishTyped
       DEF Establish, LinksOf, LinkCounts, Conditions
  <2> QED BY <1>1, <2>1, LinksTyped DEF Establish, StrikesOfConnected
<1>2. ASSUME NEW q \in Everyone, NEW k \in Conditions, Close(q, k)
      PROVE  StrikesOfConnected'
  <2>1. strikes'[q] = 0
    BY <1>2 DEF Close, TypeOK
  <2>2. \A p \in Everyone \ {q} : strikes'[p] = strikes[p] /\ links'[p] = links[p]
    BY <1>2 DEF Close, TypeOK
  <2> QED BY <1>2, <2>1, <2>2 DEF Close, StrikesOfConnected, LinksOf
<1>3. ASSUME NEW q \in Everyone, GoSilent(q)
      PROVE  StrikesOfConnected'
  <2>1. \A p \in Everyone : LinksOf(p)' = LinksOf(p)
    BY <1>3, LinksKept
  <2> QED BY <1>3, <2>1 DEF GoSilent, StrikesOfConnected
<1>4. ASSUME NEW q \in Everyone, PingFailed(q)
      PROVE  StrikesOfConnected'
  <2>1. \A p \in Everyone : LinksOf(p)' = LinksOf(p)
    BY <1>4, LinksKept
  <2>2. LinksOf(q) > 0
    BY <1>4, LinksTyped DEF PingFailed, LinksOf, TypeOK, Conditions
  <2>3. \A p \in Everyone \ {q} : strikes'[p] = strikes[p]
    BY <1>4 DEF PingFailed, TypeOK
  <2> QED BY <1>4, <2>1, <2>2, <2>3 DEF PingFailed, StrikesOfConnected
<1>5. ASSUME NEW q \in Everyone, PingSucceeded(q)
      PROVE  StrikesOfConnected'
  BY <1>5 DEF PingSucceeded, StrikesOfConnected, TypeOK, LinksOf
<1>6. CASE Shutdown
  BY <1>6 DEF Shutdown, StrikesOfConnected
<1>7. CASE UNCHANGED <<running, links, strikes>>
  BY <1>7 DEF StrikesOfConnected, LinksOf
<1> QED
  BY <1>h, <1>1, <1>2, <1>3, <1>4, <1>5, <1>6, <1>7
     DEF Next, Pinged, Dial, Tick, ExpireDials, HubDialFails, OwnHubDial, OwnHubDialFails,
         RetryBootstrap, PeerConnects, HubConnects, vars, bootstrap

(* behaviour.rs, ping_strikes: a peer has strikes only while it has a      *)
(* connection, in whatever order its connections come up, miss pings and   *)
(* close.                                                                  *)
THEOREM StrikesAreOfConnected == Spec => []StrikesOfConnected
<1>1. Init => StrikesOfConnected
  BY DEF Init, StrikesOfConnected
<1>2. TypeOK /\ StrikesOfConnected /\ [Next]_vars => StrikesOfConnected'
  BY StrikesStep
<1> QED BY <1>1, <1>2, NetworkTyped, PTL DEF Spec
=============================================================================
