---------------------------- MODULE StartupProofs ----------------------------
(***************************************************************************)
(* Theorems about Startup, for every configuration, number of retries and  *)
(* number of starts: its types, the terminal, the exit code, the identity. *)
(***************************************************************************)
EXTENDS Startup, TLAPS

Early == {"configuring", "installing", "identifying", "saving", "spawning"}
Unwired == Early \cup {"authenticating", "dialing", "reserving", "wiring", "failing"}

NoTaskOutlives == exit # "no" => \A t \in Names : task[t] = "absent"

NothingYet ==
  main \in Early => /\ bound = 0 /\ terminal = "plain" /\ broke = {}
                    /\ \A t \in Names : task[t] = "absent"

NotWired ==
  main \in Unwired => /\ task["network"] = "absent" /\ task["discovery"] = "absent"
                      /\ broke \subseteq {"ui"}

DialsCounted ==
  /\ main \in Early \cup {"authenticating"} => retries = 0
  /\ main = "dialing" => retries <= MaxBootstrapRetries

ConfigSized == Len(config) \in Nat

RawIsUi == exit = "no" /\ terminal = "raw" => task["ui"] = "running" \/ "ui" \in broke

BreaksKnown ==
  exit = "no" => /\ broke \subseteq Names
                 /\ \A t \in broke : task[t] = "failed" \/ erred # {}

NewWhenUnread == main = "saving" => ~(keyfile > 0 /\ readable)

(* Without an interface and a Ctrl-C, nothing cancels the token but a      *)
(* failed start and the task that broke first.                             *)
StopsUnasked ==
  exit = "no" /\ headless /\ presses = 0 =>
    /\ task["ui"] = "absent"
    /\ \A t \in Names : task[t] = "ended" => shutdown
    /\ shutdown => main = "failing" \/ "first" \in erred
    /\ main = "draining" => shutdown

TasksTyped == task \in [Names -> Alive \cup {"absent", "ended", "failed"}]

RestTyped ==
  /\ file \in Files
  /\ main \in {"configuring", "installing", "identifying", "saving", "spawning", "authenticating",
               "dialing", "reserving", "wiring", "binding", "waiting", "draining", "failing", "over"}
  /\ headless \in BOOLEAN /\ readable \in BOOLEAN /\ shutdown \in BOOLEAN
  /\ erred \subseteq {"first", "drain"}
  /\ terminal \in {"plain", "raw"}
  /\ exit \in {"no", "ok", "error", "cut", "cut with error", "forced", "killed"}
  /\ main = "over" <=> exit # "no"
  /\ broke \subseteq {"ui", "network", "discovery", "binding"}

Counted ==
  /\ DialsCounted /\ ConfigSized
  /\ starts \in 1..MaxStarts /\ retries \in 0..MaxBootstrapRetries + 1
  /\ bound \in 0..Len(config) /\ presses \in 0..2
  /\ keyfile \in Int /\ identity \in Nat

Absences == NoTaskOutlives /\ NothingYet /\ NotWired

AtTheEnd == TerminalRestored /\ FailureReported

IInv == TypeOK /\ Counted /\ Absences /\ RawIsUi /\ BreaksKnown /\ StopsUnasked /\ NewWhenUnread
        /\ AtTheEnd
-----------------------------------------------------------------------------
(* from_path yields the servers of its file, one for each.                 *)
LEMMA ServersSized ==
  ASSUME NEW f \in Files, NEW servers \in from_path(f)
  PROVE  Len(servers) \in Nat
<1> DEFINE chosen == [i \in DOMAIN f |-> CHOOSE server \in Parsed(f[i]) : TRUE]
<1>1. servers = chosen
  BY DEF from_path
<1>2. Len(f) \in Nat /\ DOMAIN chosen = 1..Len(f)
  BY FilesAreSequences
<1>. QED
  BY <1>1, <1>2

LEMMA Initially == Init => IInv
<1>. SUFFICES ASSUME Init PROVE IInv
  OBVIOUS
<1>. USE BoundsAreNatural
     DEF Init, Fresh, IInv, Counted, Absences, AtTheEnd, TypeOK, NoTaskOutlives, NothingYet,
         NotWired, DialsCounted, ConfigSized, RawIsUi, BreaksKnown, StopsUnasked,
         NewWhenUnread, TerminalRestored, FailureReported, Names, Alive, Early, Unwired
<1>1. Len(config) = 0
  OBVIOUS
<1>2. TypeOK
  <2>1. task \in [Names -> Alive \cup {"absent", "ended", "failed"}]
    OBVIOUS
  <2>2. /\ starts \in 1..MaxStarts /\ retries \in 0..MaxBootstrapRetries + 1
        /\ bound \in 0..Len(config) /\ presses \in 0..2 /\ keyfile \in Int /\ identity \in Nat
    BY <1>1
  <2>. QED
    BY <2>1, <2>2
<1>3. NoTaskOutlives /\ NothingYet /\ NotWired /\ DialsCounted /\ ConfigSized
  BY <1>1
<1>4. RawIsUi /\ BreaksKnown /\ StopsUnasked /\ NewWhenUnread /\ TerminalRestored /\ FailureReported
  OBVIOUS
<1>. QED
  BY <1>2, <1>3, <1>4

(* The tasks' states, the counters and the rest of the types, apart.        *)
LEMMA TasksTypedStep ==
  ASSUME TypeOK, [Next]_vars
  PROVE  TasksTyped'
<1>. USE DEF TypeOK, TasksTyped, Names, Alive, given, keys, progress, ending, Exits, Then,
         Advance, FailStart, Joins, Ends
<1>1. CASE LoadConfig \/ Install \/ StartError \/ Drained \/ GraceLapses
  BY <1>1 DEF LoadConfig, Install, StartError, Drained, GraceLapses
<1>2. CASE load_or_generate_keypair \/ SaveKeypair \/ Authenticate \/ DialAgain
  BY <1>2 DEF load_or_generate_keypair, SaveKeypair, Authenticate, DialAgain
<1>3. CASE SpawnUi
  BY <1>3 DEF SpawnUi
<1>4. CASE SpawnActors
  BY <1>4 DEF SpawnActors
<1>5. CASE BindServer
  BY <1>5 DEF BindServer
<1>6. CASE AllBound \/ WakeForShutdown \/ Identified \/ ReservationAccepted
  BY <1>6 DEF AllBound, WakeForShutdown, Identified, ReservationAccepted
<1>7. CASE UiStarts \/ UiQuits \/ UiBreaks
  BY <1>7 DEF UiStarts, UiQuits, UiBreaks
<1>8. CASE CtrlC \/ Killed
  BY <1>8 DEF CtrlC, Killed
<1>9. CASE StartedAgain
  BY <1>9 DEF StartedAgain
<1>10. ASSUME NEW t \in Names, WakeForTask(t) \/ Drain(t)
      PROVE  TasksTyped'
  BY <1>10 DEF WakeForTask, Drain
<1>11. ASSUME NEW t \in Names, ActorEnds(t) \/ ActorPanics(t)
      PROVE  TasksTyped'
  BY <1>11 DEF ActorEnds, ActorPanics
<1>12. CASE UNCHANGED vars
  BY <1>12 DEF vars
<1>. QED
  BY <1>1, <1>2, <1>3, <1>4, <1>5, <1>6, <1>7, <1>8, <1>9, <1>10, <1>11, <1>12 DEF Next, Main, Ui

LEMMA CountsTypedStep ==
  ASSUME BoundsAreNatural, TypeOK, NothingYet, Counted, [Next]_vars
  PROVE  Counted'
<1>. USE DEF BoundsAreNatural, TypeOK, NothingYet, Counted, DialsCounted, ConfigSized, Early,
         given, keys, progress, ending, Exits, Then, Advance, FailStart, Joins, Ends
<1>1. CASE LoadConfig
  BY <1>1 DEF LoadConfig
<1>2. CASE Install
  BY <1>2 DEF Install
<1>3. CASE load_or_generate_keypair
  BY <1>3 DEF load_or_generate_keypair
<1>4. CASE SaveKeypair
  BY <1>4 DEF SaveKeypair
<1>5. CASE SpawnUi
  BY <1>5 DEF SpawnUi
<1>6. CASE Authenticate
  BY <1>6 DEF Authenticate
<1>7. CASE StartError
  BY <1>7 DEF StartError
<1>8. CASE SpawnActors
  BY <1>8 DEF SpawnActors
<1>9. CASE BindServer
  BY <1>9 DEF BindServer
<1>10. CASE AllBound \/ WakeForShutdown
  BY <1>10 DEF AllBound, WakeForShutdown
<1>11. CASE Drained \/ GraceLapses
  BY <1>11 DEF Drained, GraceLapses
<1>12. CASE UiStarts \/ UiQuits
  BY <1>12 DEF UiStarts, UiQuits
<1>13. CASE UiBreaks
  BY <1>13 DEF UiBreaks
<1>14. CASE DialAgain
  BY <1>14 DEF DialAgain
<1>15. CASE Identified \/ ReservationAccepted
  BY <1>15 DEF Identified, ReservationAccepted
<1>16. CASE CtrlC
  BY <1>16 DEF CtrlC
<1>17. CASE Killed
  BY <1>17 DEF Killed
<1>18. CASE StartedAgain
  <2>1. config' = <<>> /\ Len(config') = 0
    BY <1>18 DEF StartedAgain
  <2>2. starts \in 1..MaxStarts /\ starts < MaxStarts /\ starts' = starts + 1
    BY <1>18 DEF StartedAgain
  <2>3. retries' = 0 /\ bound' = 0 /\ presses' = 0 /\ identity' = 0 /\ keyfile' = keyfile
    BY <1>18 DEF StartedAgain
  <2>4. main' = "configuring"
    BY <1>18 DEF StartedAgain
  <2>5. keyfile \in Int /\ MaxBootstrapRetries \in Nat /\ MaxStarts \in Nat
    OBVIOUS
  <2>. HIDE DEF TypeOK, NothingYet, Counted, ConfigSized, DialsCounted
  <2>. QED
    BY <2>1, <2>2, <2>3, <2>4, <2>5 DEF Counted, DialsCounted, ConfigSized
<1>19. ASSUME NEW t \in Names, WakeForTask(t) \/ Drain(t)
      PROVE  Counted'
  BY <1>19 DEF WakeForTask, Drain
<1>20. ASSUME NEW t \in Names, ActorEnds(t) \/ ActorPanics(t)
      PROVE  Counted'
  BY <1>20 DEF ActorEnds, ActorPanics
<1>21. CASE UNCHANGED vars
  BY <1>21 DEF vars
<1>. QED
  BY <1>1, <1>2, <1>3, <1>4, <1>5, <1>6, <1>7, <1>8, <1>9, <1>10, <1>11, <1>12, <1>13, <1>14,
     <1>15, <1>16, <1>17, <1>18, <1>19, <1>20, <1>21 DEF Next, Main, Ui

LEMMA RestTypedStep ==
  ASSUME TypeOK, [Next]_vars
  PROVE  RestTyped'
<1>. USE DEF TypeOK, RestTyped, Names, given, keys, progress, ending, Exits, Then, Advance,
         FailStart, Joins, Ends
<1>1. CASE LoadConfig \/ Install
  BY <1>1 DEF LoadConfig, Install
<1>2. CASE load_or_generate_keypair \/ SaveKeypair
  BY <1>2 DEF load_or_generate_keypair, SaveKeypair
<1>3. CASE SpawnUi \/ Authenticate
  BY <1>3 DEF SpawnUi, Authenticate
<1>4. CASE StartError \/ SpawnActors
  BY <1>4 DEF StartError, SpawnActors
<1>5. CASE BindServer \/ AllBound
  BY <1>5 DEF BindServer, AllBound
<1>6. CASE WakeForShutdown
  BY <1>6 DEF WakeForShutdown
<1>7. CASE Drained
  BY <1>7 DEF Drained
<1>8. CASE GraceLapses
  BY <1>8 DEF GraceLapses
<1>9. CASE UiStarts
  BY <1>9 DEF UiStarts
<1>10. CASE UiQuits
  BY <1>10 DEF UiQuits
<1>11. CASE UiBreaks
  BY <1>11 DEF UiBreaks
<1>12. CASE DialAgain \/ Identified \/ ReservationAccepted
  BY <1>12 DEF DialAgain, Identified, ReservationAccepted
<1>13. CASE CtrlC \/ Killed
  BY <1>13 DEF CtrlC, Killed
<1>14. CASE StartedAgain
  BY <1>14 DEF StartedAgain
<1>15. ASSUME NEW t \in Names, WakeForTask(t)
      PROVE  RestTyped'
  BY <1>15 DEF WakeForTask
<1>16. ASSUME NEW t \in Names, Drain(t)
      PROVE  RestTyped'
  BY <1>16 DEF Drain
<1>17. ASSUME NEW t \in Names, ActorEnds(t)
      PROVE  RestTyped'
  BY <1>17 DEF ActorEnds
<1>18. ASSUME NEW t \in Names, ActorPanics(t)
      PROVE  RestTyped'
  BY <1>18 DEF ActorPanics
<1>19. CASE UNCHANGED vars
  BY <1>19 DEF vars
<1>. QED
  BY <1>1, <1>2, <1>3, <1>4, <1>5, <1>6, <1>7, <1>8, <1>9, <1>10, <1>11, <1>12, <1>13, <1>14,
     <1>15, <1>16, <1>17, <1>18, <1>19 DEF Next, Main, Ui

(* Which tasks there cannot be.                                            *)
LEMMA AbsentStep ==
  ASSUME TypeOK, Absences, [Next]_vars
  PROVE  Absences'
<1>. USE DEF TypeOK, Absences, NoTaskOutlives, NothingYet, NotWired, Names, Alive, Early, Unwired,
         given, keys, progress, ending, Exits, Then, Advance, FailStart, Joins, Ends
<1>1. CASE LoadConfig
  BY <1>1 DEF LoadConfig
<1>2. CASE Install
  BY <1>2 DEF Install
<1>3. CASE load_or_generate_keypair
  BY <1>3 DEF load_or_generate_keypair
<1>4. CASE SaveKeypair
  BY <1>4 DEF SaveKeypair
<1>5. CASE SpawnUi
  BY <1>5 DEF SpawnUi
<1>6. CASE Authenticate
  BY <1>6 DEF Authenticate
<1>7. CASE StartError
  BY <1>7 DEF StartError
<1>8. CASE SpawnActors
  BY <1>8 DEF SpawnActors
<1>9. CASE BindServer
  BY <1>9 DEF BindServer
<1>10. CASE AllBound \/ WakeForShutdown
  BY <1>10 DEF AllBound, WakeForShutdown
<1>11. CASE Drained \/ GraceLapses
  BY <1>11 DEF Drained, GraceLapses
<1>12. CASE UiStarts
  BY <1>12 DEF UiStarts
<1>13. CASE UiQuits
  BY <1>13 DEF UiQuits
<1>14. CASE UiBreaks
  BY <1>14 DEF UiBreaks
<1>15. CASE DialAgain
  BY <1>15 DEF DialAgain
<1>16. CASE Identified
  BY <1>16 DEF Identified
<1>17. CASE ReservationAccepted
  BY <1>17 DEF ReservationAccepted
<1>18. CASE CtrlC
  BY <1>18 DEF CtrlC
<1>19. CASE Killed
  BY <1>19 DEF Killed
<1>20. CASE StartedAgain
  BY <1>20 DEF StartedAgain
<1>21. ASSUME NEW t \in Names, WakeForTask(t)
      PROVE  Absences'
  BY <1>21 DEF WakeForTask
<1>22. ASSUME NEW t \in Names, Drain(t)
      PROVE  Absences'
  BY <1>22 DEF Drain
<1>23. ASSUME NEW t \in Names, ActorEnds(t)
      PROVE  Absences'
  BY <1>23 DEF ActorEnds
<1>24. ASSUME NEW t \in Names, ActorPanics(t)
      PROVE  Absences'
  BY <1>24 DEF ActorPanics
<1>25. CASE UNCHANGED vars
  BY <1>25 DEF vars
<1>. QED
  BY <1>1, <1>2, <1>3, <1>4, <1>5, <1>6, <1>7, <1>8, <1>9, <1>10, <1>11, <1>12, <1>13, <1>14,
     <1>15, <1>16, <1>17, <1>18, <1>19, <1>20, <1>21, <1>22, <1>23, <1>24, <1>25 DEF Next, Main, Ui

(* Who answers for a raw terminal.                                         *)
LEMMA RawIsUiStep ==
  ASSUME TypeOK, Absences, RawIsUi, [Next]_vars
  PROVE  RawIsUi'
<1>. USE DEF TypeOK, Absences, RawIsUi, NothingYet, Names, Alive, Early, given, keys, progress,
         ending, Exits, Then, Advance, FailStart, Joins, Ends
<1>1. CASE LoadConfig
  BY <1>1 DEF LoadConfig
<1>2. CASE Install
  BY <1>2 DEF Install
<1>3. CASE load_or_generate_keypair \/ SaveKeypair
  BY <1>3 DEF load_or_generate_keypair, SaveKeypair
<1>4. CASE SpawnUi
  BY <1>4 DEF SpawnUi
<1>5. CASE Authenticate
  BY <1>5 DEF Authenticate
<1>6. CASE StartError
  BY <1>6 DEF StartError
<1>7. CASE SpawnActors
  BY <1>7 DEF SpawnActors
<1>8. CASE BindServer
  BY <1>8 DEF BindServer
<1>9. CASE AllBound \/ WakeForShutdown
  BY <1>9 DEF AllBound, WakeForShutdown
<1>10. CASE Drained \/ GraceLapses
  BY <1>10 DEF Drained, GraceLapses
<1>11. CASE UiStarts
  BY <1>11 DEF UiStarts
<1>12. CASE UiQuits
  BY <1>12 DEF UiQuits
<1>13. CASE UiBreaks
  BY <1>13 DEF UiBreaks
<1>14. CASE DialAgain
  BY <1>14 DEF DialAgain
<1>15. CASE Identified \/ ReservationAccepted
  BY <1>15 DEF Identified, ReservationAccepted
<1>16. CASE CtrlC
  BY <1>16 DEF CtrlC
<1>17. CASE Killed
  BY <1>17 DEF Killed
<1>18. CASE StartedAgain
  BY <1>18 DEF StartedAgain
<1>19. ASSUME NEW t \in Names, WakeForTask(t)
      PROVE  RawIsUi'
  BY <1>19 DEF WakeForTask
<1>20. ASSUME NEW t \in Names, Drain(t)
      PROVE  RawIsUi'
  BY <1>20 DEF Drain
<1>21. ASSUME NEW t \in Names, ActorEnds(t)
      PROVE  RawIsUi'
  BY <1>21 DEF ActorEnds
<1>22. ASSUME NEW t \in Names, ActorPanics(t)
      PROVE  RawIsUi'
  BY <1>22 DEF ActorPanics
<1>23. CASE UNCHANGED vars
  BY <1>23 DEF vars
<1>. QED
  BY <1>1, <1>2, <1>3, <1>4, <1>5, <1>6, <1>7, <1>8, <1>9, <1>10, <1>11, <1>12, <1>13, <1>14,
     <1>15, <1>16, <1>17, <1>18, <1>19, <1>20, <1>21, <1>22, <1>23 DEF Next, Main, Ui

(* What broke is unjoined or an error.  A task that is gone stays so until *)
(* the program is started again.                                           *)
LEMMA BreaksKnownStep ==
  ASSUME TypeOK, Absences, BreaksKnown, [Next]_vars
  PROVE  BreaksKnown'
<1>. USE DEF TypeOK, Absences, BreaksKnown, NotWired, NothingYet, Names, Alive, Early, Unwired,
         given, keys, progress, ending, Exits, Then, Advance, FailStart, Joins, Ends
<1>1. CASE LoadConfig
  BY <1>1 DEF LoadConfig
<1>2. CASE Install
  BY <1>2 DEF Install
<1>3. CASE load_or_generate_keypair \/ SaveKeypair
  BY <1>3 DEF load_or_generate_keypair, SaveKeypair
<1>4. CASE SpawnUi
  BY <1>4 DEF SpawnUi
<1>5. CASE Authenticate
  BY <1>5 DEF Authenticate
<1>6. CASE StartError
  BY <1>6 DEF StartError
<1>7. CASE SpawnActors
  BY <1>7 DEF SpawnActors
<1>8. CASE BindServer
  BY <1>8 DEF BindServer
<1>9. CASE AllBound \/ WakeForShutdown
  BY <1>9 DEF AllBound, WakeForShutdown
<1>10. CASE Drained \/ GraceLapses
  BY <1>10 DEF Drained, GraceLapses
<1>11. CASE UiStarts
  BY <1>11 DEF UiStarts
<1>12. CASE UiQuits
  BY <1>12 DEF UiQuits
<1>13. CASE UiBreaks
  BY <1>13 DEF UiBreaks
<1>14. CASE DialAgain
  BY <1>14 DEF DialAgain
<1>15. CASE Identified \/ ReservationAccepted
  BY <1>15 DEF Identified, ReservationAccepted
<1>16. CASE CtrlC
  BY <1>16 DEF CtrlC
<1>17. CASE Killed
  BY <1>17 DEF Killed
<1>18. CASE StartedAgain
  BY <1>18 DEF StartedAgain
<1>19. ASSUME NEW t \in Names, WakeForTask(t)
      PROVE  BreaksKnown'
  BY <1>19 DEF WakeForTask
<1>20. ASSUME NEW t \in Names, Drain(t)
      PROVE  BreaksKnown'
  BY <1>20 DEF Drain
<1>21. ASSUME NEW t \in Names, ActorEnds(t)
      PROVE  BreaksKnown'
  BY <1>21 DEF ActorEnds
<1>22. ASSUME NEW t \in Names, ActorPanics(t)
      PROVE  BreaksKnown'
  BY <1>22 DEF ActorPanics
<1>23. CASE UNCHANGED vars
  BY <1>23 DEF vars
<1>. QED
  BY <1>1, <1>2, <1>3, <1>4, <1>5, <1>6, <1>7, <1>8, <1>9, <1>10, <1>11, <1>12, <1>13, <1>14,
     <1>15, <1>16, <1>17, <1>18, <1>19, <1>20, <1>21, <1>22, <1>23 DEF Next, Main, Ui

LEMMA NewWhenUnreadStep ==
  ASSUME TypeOK, Absences, NewWhenUnread, [Next]_vars
  PROVE  NewWhenUnread'
<1>. USE DEF TypeOK, Absences, NewWhenUnread, given, keys, progress, ending, Exits, Then, Advance,
         FailStart, Joins, Ends
<1>1. CASE LoadConfig
  BY <1>1 DEF LoadConfig
<1>2. CASE Install
  BY <1>2 DEF Install
<1>3. CASE load_or_generate_keypair \/ SaveKeypair
  BY <1>3 DEF load_or_generate_keypair, SaveKeypair
<1>4. CASE SpawnUi
  BY <1>4 DEF SpawnUi
<1>5. CASE Authenticate
  BY <1>5 DEF Authenticate
<1>6. CASE StartError
  BY <1>6 DEF StartError
<1>7. CASE SpawnActors
  BY <1>7 DEF SpawnActors
<1>8. CASE BindServer
  BY <1>8 DEF BindServer
<1>9. CASE AllBound \/ WakeForShutdown
  BY <1>9 DEF AllBound, WakeForShutdown
<1>10. CASE Drained \/ GraceLapses
  BY <1>10 DEF Drained, GraceLapses
<1>11. CASE UiStarts
  BY <1>11 DEF UiStarts
<1>12. CASE UiQuits
  BY <1>12 DEF UiQuits
<1>13. CASE UiBreaks
  BY <1>13 DEF UiBreaks
<1>14. CASE DialAgain
  BY <1>14 DEF DialAgain
<1>15. CASE Identified \/ ReservationAccepted
  BY <1>15 DEF Identified, ReservationAccepted
<1>16. CASE CtrlC
  BY <1>16 DEF CtrlC
<1>17. CASE Killed
  BY <1>17 DEF Killed
<1>18. CASE StartedAgain
  BY <1>18 DEF StartedAgain
<1>19. ASSUME NEW t \in Names, WakeForTask(t)
      PROVE  NewWhenUnread'
  BY <1>19 DEF WakeForTask
<1>20. ASSUME NEW t \in Names, Drain(t)
      PROVE  NewWhenUnread'
  BY <1>20 DEF Drain
<1>21. ASSUME NEW t \in Names, ActorEnds(t)
      PROVE  NewWhenUnread'
  BY <1>21 DEF ActorEnds
<1>22. ASSUME NEW t \in Names, ActorPanics(t)
      PROVE  NewWhenUnread'
  BY <1>22 DEF ActorPanics
<1>23. CASE UNCHANGED vars
  BY <1>23 DEF vars
<1>. QED
  BY <1>1, <1>2, <1>3, <1>4, <1>5, <1>6, <1>7, <1>8, <1>9, <1>10, <1>11, <1>12, <1>13, <1>14,
     <1>15, <1>16, <1>17, <1>18, <1>19, <1>20, <1>21, <1>22, <1>23 DEF Next, Main, Ui

LEMMA StopsUnaskedStep ==
  ASSUME TypeOK, Absences, StopsUnasked, [Next]_vars
  PROVE  StopsUnasked'
<1>. USE DEF TypeOK, Absences, NothingYet, NotWired, StopsUnasked, Names, Alive, Early, Unwired, given,
         keys, progress, ending, Exits, Then, Advance, FailStart, Joins, Ends
<1>1. CASE LoadConfig
  BY <1>1 DEF LoadConfig
<1>2. CASE Install
  BY <1>2 DEF Install
<1>3. CASE load_or_generate_keypair \/ SaveKeypair
  BY <1>3 DEF load_or_generate_keypair, SaveKeypair
<1>4. CASE SpawnUi
  BY <1>4 DEF SpawnUi
<1>5. CASE Authenticate
  BY <1>5 DEF Authenticate
<1>6. CASE StartError
  BY <1>6 DEF StartError
<1>7. CASE SpawnActors
  BY <1>7 DEF SpawnActors
<1>8. CASE BindServer
  BY <1>8 DEF BindServer
<1>9. CASE AllBound \/ WakeForShutdown
  BY <1>9 DEF AllBound, WakeForShutdown
<1>10. CASE Drained \/ GraceLapses
  BY <1>10 DEF Drained, GraceLapses
<1>11. CASE UiStarts
  BY <1>11 DEF UiStarts
<1>12. CASE UiQuits
  BY <1>12 DEF UiQuits
<1>13. CASE UiBreaks
  BY <1>13 DEF UiBreaks
<1>14. CASE DialAgain
  BY <1>14 DEF DialAgain
<1>15. CASE Identified \/ ReservationAccepted
  BY <1>15 DEF Identified, ReservationAccepted
<1>16. CASE CtrlC
  BY <1>16 DEF CtrlC
<1>17. CASE Killed
  BY <1>17 DEF Killed
<1>18. CASE StartedAgain
  BY <1>18 DEF StartedAgain
<1>19. ASSUME NEW t \in Names, WakeForTask(t)
      PROVE  StopsUnasked'
  BY <1>19 DEF WakeForTask
<1>20. ASSUME NEW t \in Names, Drain(t)
      PROVE  StopsUnasked'
  BY <1>20 DEF Drain
<1>21. ASSUME NEW t \in Names, ActorEnds(t)
      PROVE  StopsUnasked'
  BY <1>21 DEF ActorEnds
<1>22. ASSUME NEW t \in Names, ActorPanics(t)
      PROVE  StopsUnasked'
  BY <1>22 DEF ActorPanics
<1>23. CASE UNCHANGED vars
  BY <1>23 DEF vars
<1>. QED
  BY <1>1, <1>2, <1>3, <1>4, <1>5, <1>6, <1>7, <1>8, <1>9, <1>10, <1>11, <1>12, <1>13, <1>14,
     <1>15, <1>16, <1>17, <1>18, <1>19, <1>20, <1>21, <1>22, <1>23 DEF Next, Main, Ui

(* How the program ends.                                                   *)
LEMMA EndStep ==
  ASSUME TypeOK, Absences, RawIsUi, BreaksKnown, StopsUnasked, AtTheEnd, [Next]_vars
  PROVE  AtTheEnd'
<1>. USE DEF TypeOK, Absences, NoTaskOutlives, NothingYet, NotWired, RawIsUi, BreaksKnown,
         StopsUnasked, AtTheEnd, TerminalRestored, FailureReported, Names, Alive, Early, Unwired, given, keys,
         progress, ending, Exits, Then, Advance, FailStart, Joins, Ends
<1>1. CASE LoadConfig
  BY <1>1 DEF LoadConfig
<1>2. CASE Install
  BY <1>2 DEF Install
<1>3. CASE load_or_generate_keypair \/ SaveKeypair
  BY <1>3 DEF load_or_generate_keypair, SaveKeypair
<1>4. CASE SpawnUi
  BY <1>4 DEF SpawnUi
<1>5. CASE Authenticate
  BY <1>5 DEF Authenticate
<1>6. CASE StartError
  BY <1>6 DEF StartError
<1>7. CASE SpawnActors
  BY <1>7 DEF SpawnActors
<1>8. CASE BindServer
  BY <1>8 DEF BindServer
<1>9. CASE AllBound \/ WakeForShutdown
  BY <1>9 DEF AllBound, WakeForShutdown
<1>10. CASE Drained
  BY <1>10 DEF Drained
<1>11. CASE GraceLapses
  <2>1. /\ main = "draining" /\ exit = "no"
        /\ exit' = IF "first" \in erred THEN "cut with error" ELSE "cut"
        /\ UNCHANGED <<headless, presses>>
    BY <1>11 DEF GraceLapses
  <2>2. exit' = "cut" => (headless' => presses' > 0)
    BY <2>1
  <2>. QED
    BY <2>1, <2>2
<1>12. CASE UiStarts \/ UiQuits \/ UiBreaks
  BY <1>12 DEF UiStarts, UiQuits, UiBreaks
<1>13. CASE DialAgain
  BY <1>13 DEF DialAgain
<1>14. CASE Identified \/ ReservationAccepted
  BY <1>14 DEF Identified, ReservationAccepted
<1>15. CASE CtrlC
  BY <1>15 DEF CtrlC
<1>16. CASE Killed
  BY <1>16 DEF Killed
<1>17. CASE StartedAgain
  BY <1>17 DEF StartedAgain
<1>18. ASSUME NEW t \in Names, WakeForTask(t) \/ Drain(t)
      PROVE  AtTheEnd'
  BY <1>18 DEF WakeForTask, Drain
<1>19. ASSUME NEW t \in Names, ActorEnds(t) \/ ActorPanics(t)
      PROVE  AtTheEnd'
  BY <1>19 DEF ActorEnds, ActorPanics
<1>20. CASE UNCHANGED vars
  BY <1>20 DEF vars
<1>. QED
  BY <1>1, <1>2, <1>3, <1>4, <1>5, <1>6, <1>7, <1>8, <1>9, <1>10, <1>11, <1>12, <1>13, <1>14,
     <1>15, <1>16, <1>17, <1>18, <1>19, <1>20 DEF Next, Main, Ui

LEMMA Steps == IInv /\ [Next]_vars => IInv'
<1>. SUFFICES ASSUME IInv, [Next]_vars PROVE IInv'
  OBVIOUS
<1>1. TypeOK /\ NothingYet /\ Counted /\ Absences /\ RawIsUi /\ BreaksKnown /\ StopsUnasked
      /\ NewWhenUnread /\ AtTheEnd
  BY DEF IInv, Absences
<1>2. (TasksTyped /\ Counted /\ RestTyped)'
  BY <1>1, BoundsAreNatural, TasksTypedStep, CountsTypedStep, RestTypedStep
<1>3. TypeOK'
  BY <1>2 DEF TypeOK, TasksTyped, Counted, RestTyped
<1>4. (Absences /\ RawIsUi /\ BreaksKnown /\ StopsUnasked /\ NewWhenUnread /\ AtTheEnd)'
  BY <1>1, AbsentStep, RawIsUiStep, BreaksKnownStep, StopsUnaskedStep, NewWhenUnreadStep, EndStep
<1>. QED
  BY <1>2, <1>3, <1>4 DEF IInv
-----------------------------------------------------------------------------
LEMMA Inductive == Spec => []IInv
  BY Initially, Steps, PTL DEF Spec

(* main.rs, bootstrap.rs, driver.rs: whatever ends the program, and        *)
(* however often it is started, its state keeps its types, and the dials   *)
(* of the hub stay within their limit.                                     *)
THEOREM StartTyped == Spec => []TypeOK
<1>1. IInv => TypeOK
  BY DEF IInv
<1>. QED
  BY <1>1, Inductive, PTL

(* main.rs:86-93, run_ui: a program that returns has put the terminal      *)
(* back, unless the interface broke or a listener could not be bound.      *)
THEOREM TerminalsAreRestored == Spec => []TerminalRestored
<1>1. IInv => TerminalRestored
  BY DEF IInv, AtTheEnd
<1>. QED
  BY <1>1, Inductive, PTL

(* main.rs, the join and drain of the tasks and their cap: once a task has *)
(* broken, a program that drains does not exit well, and one that the cap  *)
(* cuts exits with 0 only if an operator or an interface ended it.         *)
THEOREM FailuresAreReported == Spec => []FailureReported
<1>1. IInv => FailureReported
  BY DEF IInv, AtTheEnd
<1>. QED
  BY <1>1, Inductive, PTL

(* keypair_identity.rs: a keypair on disk that can be read is never        *)
(* written over, through crashes and restarts.                             *)
THEOREM IdentitiesAreKept == Spec => IdentityKept
<1>1. IInv /\ [Next]_vars => [keyfile > 0 /\ readable => keyfile' = keyfile]_vars
  BY DEF IInv, NewWhenUnread, Next, Main, Ui, vars, given, keys, progress, ending, Exits, Then,
         Advance, FailStart, Joins, Ends, LoadConfig, Install, load_or_generate_keypair,
         SaveKeypair, SpawnUi, Authenticate, StartError, SpawnActors, BindServer, AllBound,
         WakeForShutdown, Drained, GraceLapses, UiStarts, UiQuits, UiBreaks, DialAgain, Identified,
         ReservationAccepted, CtrlC, Killed, StartedAgain, WakeForTask, Drain, ActorEnds, ActorPanics
<1>. QED
  BY <1>1, Inductive, PTL DEF Spec, IdentityKept
-----------------------------------------------------------------------------
(* The configuration in use is one the file yields, and says what the file *)
(* says.                                                                   *)

ConfigRead == main \notin {"configuring", "over"} => config \in from_path(file)

Text(text) ==
  /\ Len(text.parts) \in Nat /\ DOMAIN text.parts = 1..Len(text.parts)
  /\ text.form = "id" => Len(text.parts) = 1

(* An address yields at most one entry, for the peer it ends with.         *)
LEMMA FromMultiaddr ==
  ASSUME NEW parts, Len(parts) \in Nat, DOMAIN parts = 1..Len(parts)
  PROVE  /\ \A e, d \in from_multiaddr(parts) : e = d
         /\ \A e \in from_multiaddr(parts) :
              /\ Len(parts) # 0
              /\ IsP2p(Last(parts)) => e.peer_id = Last(parts).id
              /\ e.address = IF Len(parts) = 1 THEN <<>> ELSE parts
<1>1. ASSUME NEW e \in from_multiaddr(parts)
      PROVE  /\ Len(parts) # 0
             /\ IsP2p(Last(parts)) => e.peer_id = Last(parts).id
             /\ e.address = IF Len(parts) = 1 THEN <<>> ELSE parts
  <2>1. PICK i \in DOMAIN parts :
          e = Entry(parts, i) /\ \A j \in DOMAIN parts : IsP2p(parts[j]) => j <= i
    BY DEF from_multiaddr
  <2>2. IsP2p(Last(parts)) => i = Len(parts)
    BY <2>1 DEF Last
  <2>3. QED BY <2>1, <2>2 DEF Last, Entry
<1>2. \A e, d \in from_multiaddr(parts) : e = d
  <2> SUFFICES ASSUME NEW e \in from_multiaddr(parts), NEW d \in from_multiaddr(parts) PROVE e = d
    OBVIOUS
  <2>1. PICK i \in DOMAIN parts :
          e = Entry(parts, i) /\ IsP2p(parts[i]) /\ \A j \in DOMAIN parts : IsP2p(parts[j]) => j <= i
    BY DEF from_multiaddr
  <2>2. PICK k \in DOMAIN parts :
          d = Entry(parts, k) /\ IsP2p(parts[k]) /\ \A j \in DOMAIN parts : IsP2p(parts[j]) => j <= k
    BY DEF from_multiaddr
  <2>3. i = k
    BY <2>1, <2>2
  <2>4. QED BY <2>1, <2>2, <2>3
<1>3. QED BY <1>1, <1>2

EntryAsWritten(entry, text) ==
  /\ IsP2p(Last(text.parts)) => entry.peer_id = Last(text.parts).id
  /\ from_str(Displayed(entry)) = {entry}

(* An entry that is read names the peer its text ends with, and reads back *)
(* as it is shown.                                                         *)
LEMMA FromStr ==
  ASSUME NEW text, Text(text), NEW entry \in from_str(text)
  PROVE  EntryAsWritten(entry, text)
<1>1. CASE text.form = "id"
  <2>1. entry = [peer_id |-> text.parts[1].id, address |-> <<>>]
    BY <1>1 DEF from_str
  <2>2. Last(text.parts) = text.parts[1]
    BY <1>1 DEF Text, Last
  <2>3. Displayed(entry) = [form |-> "id", parts |-> <<[kind |-> "p2p", id |-> entry.peer_id]>>]
    BY <2>1 DEF Displayed
  <2>4. from_str(Displayed(entry)) = {[peer_id |-> entry.peer_id, address |-> <<>>]}
    BY <2>3 DEF from_str
  <2>5. QED BY <2>1, <2>2, <2>4 DEF EntryAsWritten
<1>2. CASE text.form = "multiaddr"
  <2>1. entry \in from_multiaddr(text.parts)
    BY <1>2 DEF from_str
  <2>2. /\ Len(text.parts) # 0
        /\ IsP2p(Last(text.parts)) => entry.peer_id = Last(text.parts).id
        /\ entry.address = IF Len(text.parts) = 1 THEN <<>> ELSE text.parts
    BY <2>1, FromMultiaddr DEF Text
  <2>3. PICK p : entry = [peer_id |-> p, address |-> IF Len(text.parts) = 1 THEN <<>> ELSE text.parts]
    BY <2>1 DEF from_multiaddr, Entry
  <2>4. CASE Len(text.parts) = 1
    <3>1. Displayed(entry) = [form |-> "id", parts |-> <<[kind |-> "p2p", id |-> entry.peer_id]>>]
      BY <2>2, <2>4 DEF Displayed
    <3>2. from_str(Displayed(entry)) = {[peer_id |-> entry.peer_id, address |-> <<>>]}
      BY <3>1 DEF from_str
    <3>3. QED BY <2>2, <2>3, <2>4, <3>2 DEF EntryAsWritten
  <2>5. CASE Len(text.parts) # 1
    <3>1. Len(<<>>) = 0
      OBVIOUS
    <3>2. entry.address = text.parts /\ text.parts # <<>>
      BY <2>2, <2>5, <3>1
    <3>3. Displayed(entry) = [form |-> "multiaddr", parts |-> text.parts]
      BY <3>2 DEF Displayed
    <3>4. from_str(Displayed(entry)) = from_multiaddr(text.parts)
      BY <3>3 DEF from_str
    <3>5. from_multiaddr(text.parts) = {entry}
      BY <2>1, FromMultiaddr DEF Text
    <3>6. QED BY <2>2, <3>4, <3>5 DEF EntryAsWritten
  <2>6. QED BY <2>4, <2>5
<1>3. QED BY <1>1, <1>2 DEF from_str

(* Whatever a server's text yields is that text's country and entries.     *)
ServerAsWritten(server, text) ==
  /\ server.country = "" => text.country.spelling \in {"absent", "blank"}
  /\ text.listed => server.pinned # <<>>
  /\ \A r \in DOMAIN server.pinned : EntryAsWritten(server.pinned[r], text.entries[r])

LEMMA ParsedFrom ==
  ASSUME NEW text, NEW server \in Parsed(text)
  PROVE  \E code \in deserialize_country(text.country), entries \in deserialize_pinned(text.entries) :
           server = [port |-> text.port, country |-> code, listed |-> text.listed, pinned |-> entries]
BY DEF Parsed

LEMMA ParsedAsWritten ==
  ASSUME NEW text, NEW server \in Parsed(text), validate(server),
         text.country.spelling \notin {"absent", "blank", "unknown"} => text.country.code # "",
         \A r \in DOMAIN text.entries : Text(text.entries[r])
  PROVE  ServerAsWritten(server, text)
<1>1. PICK code \in deserialize_country(text.country), entries \in deserialize_pinned(text.entries) :
        server = [port |-> text.port, country |-> code, listed |-> text.listed, pinned |-> entries]
  BY ParsedFrom
<1>2. server.country = code /\ server.listed = text.listed /\ server.pinned = entries
  BY <1>1
<1>3. code = "" => text.country.spelling \in {"absent", "blank"}
  BY <1>1 DEF deserialize_country
<1>4. /\ entries = [i \in DOMAIN text.entries |-> CHOOSE entry \in from_str(text.entries[i]) : TRUE]
      /\ \A i \in DOMAIN text.entries : from_str(text.entries[i]) # {}
  BY <1>1 DEF deserialize_pinned
<1>5. ASSUME NEW r \in DOMAIN text.entries PROVE entries[r] \in from_str(text.entries[r])
  BY <1>4, <1>5
<1>6. \A r \in DOMAIN entries : EntryAsWritten(entries[r], text.entries[r])
  BY <1>4, <1>5, FromStr
<1>7. QED BY <1>2, <1>3, <1>6 DEF ServerAsWritten, validate

(* A text yields at most one server.                                       *)
LEMMA ParsedOnce ==
  ASSUME NEW text, NEW s \in Parsed(text), NEW t \in Parsed(text) PROVE s = t
<1>1. \A c, d \in deserialize_country(text.country) : c = d
  BY DEF deserialize_country
<1>2. \A c, d \in deserialize_pinned(text.entries) : c = d
  BY DEF deserialize_pinned
<1>3. QED BY <1>1, <1>2 DEF Parsed

(* What is loaded is, server by server, what the file says.                *)
LEMMA FromPath ==
  ASSUME NEW f \in Files, NEW servers \in from_path(f)
  PROVE  \A i \in DOMAIN f : ServerAsWritten(servers[i], f[i])
<1> SUFFICES ASSUME NEW i \in DOMAIN f PROVE ServerAsWritten(servers[i], f[i])
  OBVIOUS
<1>1. /\ servers = [k \in DOMAIN f |-> CHOOSE server \in Parsed(f[k]) : TRUE]
      /\ \A k \in DOMAIN f : \E server \in Parsed(f[k]) : validate(server)
  BY DEF from_path
<1>2. PICK server \in Parsed(f[i]) : validate(server)
  BY <1>1
<1>3. servers[i] \in Parsed(f[i])
  BY <1>1, <1>2
<1>4. servers[i] = server
  BY <1>2, <1>3, ParsedOnce
<1>5. \A r \in DOMAIN f[i].entries : Text(f[i].entries[r])
  BY TextsAreWhatTheySay DEF Text
<1>6. f[i].country.spelling \notin {"absent", "blank", "unknown"} => f[i].country.code # ""
  BY TextsAreWhatTheySay
<1>7. QED BY <1>2, <1>4, <1>5, <1>6, ParsedAsWritten

LEMMA ConfigReadStep ==
  ASSUME ConfigRead, [Next]_vars PROVE ConfigRead'
<1>. USE DEF ConfigRead, given, keys, progress, ending, Exits, Then, Advance, FailStart, Joins, Ends
<1>1. CASE LoadConfig
  BY <1>1 DEF LoadConfig
<1>2. CASE Install \/ load_or_generate_keypair \/ SaveKeypair \/ SpawnUi \/ Authenticate
  BY <1>2 DEF Install, load_or_generate_keypair, SaveKeypair, SpawnUi, Authenticate
<1>3. CASE StartError \/ SpawnActors \/ BindServer \/ AllBound \/ WakeForShutdown
  BY <1>3 DEF StartError, SpawnActors, BindServer, AllBound, WakeForShutdown
<1>4. CASE Drained \/ GraceLapses \/ UiStarts \/ UiQuits \/ UiBreaks \/ DialAgain
  BY <1>4 DEF Drained, GraceLapses, UiStarts, UiQuits, UiBreaks, DialAgain
<1>5. CASE Identified \/ ReservationAccepted \/ CtrlC \/ Killed \/ StartedAgain
  BY <1>5 DEF Identified, ReservationAccepted, CtrlC, Killed, StartedAgain
<1>6. ASSUME NEW t \in Names, WakeForTask(t) \/ Drain(t) \/ ActorEnds(t) \/ ActorPanics(t)
      PROVE  ConfigRead'
  BY <1>6 DEF WakeForTask, Drain, ActorEnds, ActorPanics
<1>7. CASE UNCHANGED vars
  BY <1>7 DEF vars
<1>. QED
  BY <1>1, <1>2, <1>3, <1>4, <1>5, <1>6, <1>7 DEF Next, Main, Ui

(* config.rs: whatever a file holds, no program runs on it without a       *)
(* filter or a pin it asks for, or with a pin for another peer than an     *)
(* entry ends with, and every entry reads back as it is shown.             *)
THEOREM ConfigAsWritten == Spec => []FiltersAsWritten
<1>1. Init => ConfigRead
  BY DEF Init, Fresh, ConfigRead
<1>2. TypeOK /\ ConfigRead => FiltersAsWritten
  <2>. SUFFICES ASSUME TypeOK, ConfigRead, main \notin {"configuring", "over"}, NEW i \in DOMAIN file
                PROVE  ServerAsWritten(config[i], file[i])
    BY DEF FiltersAsWritten, ServerAsWritten, EntryAsWritten
  <2>. QED
    BY FromPath DEF TypeOK, ConfigRead
<1>. QED
  BY <1>1, <1>2, ConfigReadStep, StartTyped, PTL DEF Spec
=============================================================================
