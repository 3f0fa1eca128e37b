------------------------------- MODULE Startup -------------------------------
(***************************************************************************)
(* The program from its start to its exit (p2proxy/src/main.rs): the       *)
(* configuration, the identity on disk (adapters/keypair_identity.rs), the *)
(* interface, authentication and bootstrap (network/bootstrap.rs), the     *)
(* actors (runtime/driver.rs), the SOCKS listeners, and the shutdown,      *)
(* drained under a cap.  It may be killed and started again.               *)
(*                                                                         *)
(* Left out: logging, the addresses the swarm listens on, what the token   *)
(* says, and the channels, which nothing fills this early.                 *)
(***************************************************************************)
EXTENDS Integers, Config

CONSTANTS
  Files,                \* what Config.yaml may hold
  MaxBootstrapRetries,  \* MAX_BOOTSTRAP_RETRIES, 10
  MaxStarts             \* bound: how often the program is started

ASSUME BoundsAreNatural == MaxBootstrapRetries \in Nat /\ MaxStarts \in Nat \ {0}
ASSUME FilesAreSequences == \A f \in Files : Len(f) \in Nat /\ DOMAIN f = 1..Len(f)
(* What Config says of texts: a country that is known has a code, a peer   *)
(* id is one part.                                                         *)
ASSUME TextsAreWhatTheySay ==
  \A f \in Files : \A i \in DOMAIN f :
    /\ f[i].country.spelling \notin {"absent", "blank", "unknown"} => f[i].country.code # ""
    /\ \A r \in DOMAIN f[i].entries :
         LET text == f[i].entries[r]
         IN /\ Len(text.parts) \in Nat /\ DOMAIN text.parts = 1..Len(text.parts)
            /\ text.form = "id" => Len(text.parts) = 1

VARIABLES
  file, config,  \* Config.yaml, and the servers read from it
  starts,        \* how often the program was started
  main,          \* what main is doing
  headless,      \* --no-ui
  keyfile,       \* the keypair on disk: its number, 0 for none, -1 when torn
  readable,      \* whether that file can be read
  identity,      \* the keypair in use, or 0
  retries,       \* of dial_bootstrap
  bound,         \* how many of the servers have their listener
  task,          \* the tasks of main's JoinSet
  terminal,      \* "plain", or "raw" with the alternate screen
  shutdown,      \* the token is cancelled
  presses,       \* how often Ctrl-C was pressed, up to 2
  erred,         \* which errors main has: its first_error, one met while draining
  exit,          \* how the process ended: "no" while it runs
  broke          \* history: what went wrong in this run

given == <<file, starts, headless, readable>>
keys == <<keyfile, identity>>
progress == <<config, retries, bound>>
ending == <<shutdown, presses, erred, broke>>
vars == <<given, main, keys, progress, task, terminal, ending, exit>>

Names == {"ui", "network", "discovery"}
Alive == {"starting", "running"}

TypeOK ==
  /\ file \in Files /\ starts \in 1..MaxStarts
  /\ main \in {"configuring", "installing", "identifying", "saving", "spawning", "authenticating",
               "dialing", "reserving", "wiring", "binding", "waiting", "draining", "failing", "over"}
  /\ keyfile \in Int /\ identity \in Nat
  /\ headless \in BOOLEAN /\ readable \in BOOLEAN /\ shutdown \in BOOLEAN
  /\ erred \subseteq {"first", "drain"}
  /\ retries \in 0..MaxBootstrapRetries + 1
  /\ bound \in 0..Len(config)
  /\ task \in [Names -> Alive \cup {"absent", "ended", "failed"}]
  /\ terminal \in {"plain", "raw"}
  /\ presses \in 0..2
  /\ exit \in {"no", "ok", "error", "cut", "cut with error", "forced", "killed"}
  /\ main = "over" <=> exit # "no"
  /\ broke \subseteq {"ui", "network", "discovery", "binding"}

Fresh ==
  /\ config = <<>> /\ main = "configuring" /\ identity = 0
  /\ retries = 0 /\ bound = 0 /\ task = [t \in Names |-> "absent"]
  /\ terminal = "plain" /\ shutdown = FALSE /\ presses = 0 /\ erred = {}
  /\ exit = "no" /\ broke = {}

Init ==
  /\ file \in Files /\ headless \in BOOLEAN /\ readable \in BOOLEAN
  /\ starts = 1 /\ keyfile \in {0, 1}
  /\ Fresh

(* The process is gone and its tasks with it; the terminal stays as it is. *)
Exits(how) == main' = "over" /\ exit' = how /\ task' = [t \in Names |-> "absent"]

Then(stage) == main' = stage /\ UNCHANGED <<exit, task>>

Advance(from, to) ==
  main = from /\ Then(to) /\ UNCHANGED <<given, keys, progress, terminal, ending>>
-----------------------------------------------------------------------------
LoadConfig ==
  /\ main = "configuring"
  /\ \/ \E servers \in from_path(file) : config' = servers /\ Then("installing")
     \/ from_path(file) = {} /\ Exits("error") /\ UNCHANGED config
  /\ UNCHANGED <<given, keys, retries, bound, terminal, ending>>

(* Logging, error reports and the metrics endpoint, whose port may be      *)
(* taken.                                                                  *)
Install ==
  /\ main = "installing" /\ (Then("identifying") \/ Exits("error"))
  /\ UNCHANGED <<given, keys, progress, terminal, ending>>

(* A slip: a keypair is generated at every start.                          *)
generate_keypair ==
  /\ main = "identifying" /\ identity' = 1 + starts /\ Then("saving")
  /\ UNCHANGED <<given, keyfile, progress, terminal, ending>>

(* load_or_generate_keypair.  A keypair made at the n-th start is n + 1.   *)
load_or_generate_keypair ==
  /\ main = "identifying"
  /\ IF keyfile > 0 /\ readable THEN identity' = keyfile /\ Then("spawning")
                                ELSE identity' = 1 + starts /\ Then("saving")
  /\ UNCHANGED <<given, keyfile, progress, terminal, ending>>

(* The write replaces the file in place: it may fail before or after it    *)
(* has emptied it, and the program goes on with a keypair it did not save. *)
SaveKeypair ==
  /\ main = "saving" /\ Then("spawning")
  /\ keyfile' \in {identity, keyfile, -1}
  /\ UNCHANGED <<given, identity, progress, terminal, ending>>

SpawnUi ==
  /\ main = "spawning" /\ main' = "authenticating"
  /\ task' = IF headless THEN task ELSE [task EXCEPT !["ui"] = "starting"]
  /\ UNCHANGED <<given, keys, progress, terminal, ending, exit>>
-----------------------------------------------------------------------------
(***************************************************************************)
(* start_network: the token, then the hub.  When either fails, main stops  *)
(* the interface and waits for it.                                         *)
(***************************************************************************)
FailStart == Then("failing") /\ shutdown' = TRUE

(* federated_token: refused, or not shaped like a token, or well; and the  *)
(* swarm, which may have nowhere to listen.                                *)
Authenticate ==
  /\ main = "authenticating"
  /\ (Then("dialing") /\ UNCHANGED shutdown) \/ FailStart
  /\ UNCHANGED <<given, keys, progress, terminal, presses, erred, broke>>

(* A slip: the retries are compared before they are counted.               *)
DialOnceMore ==
  /\ main = "dialing" /\ retries' = retries + 1
  /\ IF retries > MaxBootstrapRetries THEN FailStart ELSE Then("dialing") /\ UNCHANGED shutdown
  /\ UNCHANGED <<given, keys, config, bound, terminal, presses, erred, broke>>

(* dial_bootstrap: a dial that fails, or that nobody answers within 10 s   *)
(* by identifying itself, is made again after 2 s.                         *)
DialAgain ==
  /\ main = "dialing" /\ retries' = retries + 1
  /\ IF retries' > MaxBootstrapRetries THEN FailStart ELSE Then("dialing") /\ UNCHANGED shutdown
  /\ UNCHANGED <<given, keys, config, bound, terminal, presses, erred, broke>>

Identified == Advance("dialing", "reserving")

(* The relay grants the reservation.  Nothing bounds the wait for it, and  *)
(* nobody looks at the shutdown token meanwhile.  An address that names    *)
(* another peer than the one that answered fails the start after all.      *)
ReservationAccepted ==
  /\ main = "reserving"
  /\ (Then("wiring") /\ UNCHANGED shutdown) \/ FailStart
  /\ UNCHANGED <<given, keys, progress, terminal, presses, erred, broke>>

(* A slip: main returns before the interface has put the terminal back.    *)
ReturnStartError ==
  /\ main = "failing" /\ Exits("error")
  /\ UNCHANGED <<given, keys, progress, terminal, ending>>

StartError ==
  /\ main = "failing" /\ (\A t \in Names : task[t] \notin Alive) /\ Exits("error")
  /\ UNCHANGED <<given, keys, progress, terminal, ending>>
-----------------------------------------------------------------------------
(* Runtime::spawn.                                                         *)
SpawnActors ==
  /\ main = "wiring" /\ main' = "binding"
  /\ task' = [task EXCEPT !["network"] = "running", !["discovery"] = "running"]
  /\ UNCHANGED <<given, keys, progress, terminal, ending, exit>>

(* Each server in turn gets its listener, and its port a DiscoverFor.  One *)
(* that cannot be bound ends main there and then.                          *)
BindServer ==
  /\ main = "binding" /\ bound < Len(config)
  /\ \/ /\ \A i \in 1..bound : config[i].port # config[bound + 1].port
        /\ bound' = bound + 1 /\ Then("binding") /\ UNCHANGED broke
     \/ Exits("error") /\ broke' = broke \cup {"binding"} /\ UNCHANGED bound
  /\ UNCHANGED <<given, keys, config, retries, terminal, shutdown, presses, erred>>

AllBound == bound = Len(config) /\ Advance("binding", "waiting")

(* join_next: the outcome of a task that is over is taken once.            *)
Joins(t, as) ==
  /\ task[t] \in {"ended", "failed"}
  /\ task' = [task EXCEPT ![t] = "absent"]
  /\ erred' = IF task[t] = "failed" THEN erred \cup {as} ELSE erred

(* main wakes when shutdown is requested or a task is over.                *)
WakeForShutdown == shutdown /\ Advance("waiting", "draining")

WakeForTask(t) ==
  /\ main = "waiting" /\ Joins(t, "first")
  /\ main' = "draining" /\ shutdown' = TRUE
  /\ UNCHANGED <<given, keys, progress, terminal, presses, broke, exit>>

(* A slip: what the tasks return while they are drained is dropped.        *)
DrainIgnoring(t) ==
  /\ main = "draining" /\ task[t] \in {"ended", "failed"}
  /\ task' = [task EXCEPT ![t] = "absent"]
  /\ UNCHANGED <<given, main, keys, progress, terminal, ending, exit>>

Drain(t) ==
  /\ main = "draining" /\ Joins(t, "drain")
  /\ UNCHANGED <<given, main, keys, progress, terminal, shutdown, presses, broke, exit>>

Drained ==
  /\ main = "draining" /\ (\A t \in Names : task[t] = "absent")
  /\ Exits(IF erred # {} THEN "error" ELSE "ok")
  /\ UNCHANGED <<given, keys, progress, terminal, ending>>

(* A slip: the cap only ends the wait for the interface.                   *)
GraceLapsesForUi ==
  /\ main = "draining" /\ task["ui"] \in Alive
  /\ Exits(IF "first" \in erred THEN "cut with error" ELSE "cut")
  /\ UNCHANGED <<given, keys, progress, terminal, ending>>

(* SHUTDOWN_GRACE, 10 s: an error met while draining is forgotten.         *)
GraceLapses ==
  /\ main = "draining" /\ (\E t \in Names : task[t] # "absent")
  /\ Exits(IF "first" \in erred THEN "cut with error" ELSE "cut")
  /\ UNCHANGED <<given, keys, progress, terminal, ending>>
-----------------------------------------------------------------------------
(***************************************************************************)
(* The tasks.  The interface cancels the token when it ends, however it    *)
(* ends short of a panic; an actor ends when the token is cancelled.       *)
(***************************************************************************)
Ends(t, how) == task' = [task EXCEPT ![t] = how]

UiStarts ==
  /\ task["ui"] = "starting" /\ Ends("ui", "running") /\ terminal' = "raw"
  /\ UNCHANGED <<given, main, keys, progress, ending, exit>>

(* q is pressed, or the token is cancelled: the terminal is put back.      *)
UiQuits ==
  /\ task["ui"] = "running" /\ Ends("ui", "ended") /\ terminal' = "plain"
  /\ shutdown' = TRUE
  /\ UNCHANGED <<given, main, keys, progress, presses, erred, broke, exit>>

(* The terminal cannot be set up, drawn on or put back; or the interface   *)
(* panics, and cancels nothing.                                            *)
UiBreaks ==
  /\ task["ui"] \in Alive /\ Ends("ui", "failed")
  /\ shutdown' \in {TRUE, shutdown} /\ broke' = broke \cup {"ui"}
  /\ UNCHANGED <<given, main, keys, progress, terminal, presses, erred, exit>>

ActorEnds(t) ==
  /\ t # "ui" /\ task[t] = "running" /\ shutdown /\ Ends(t, "ended")
  /\ UNCHANGED <<given, main, keys, progress, terminal, ending, exit>>

ActorPanics(t) ==
  /\ t # "ui" /\ task[t] = "running" /\ Ends(t, "failed")
  /\ broke' = broke \cup {t}
  /\ UNCHANGED <<given, main, keys, progress, terminal, shutdown, presses, erred, exit>>

(* spawn_ctrl_c_handler: the second one ends the process at once.          *)
CtrlC ==
  /\ exit = "no" /\ main \notin {"configuring", "installing", "identifying", "saving"}
  /\ presses < 2 /\ presses' = presses + 1 /\ shutdown' = TRUE
  /\ IF presses = 1 THEN Exits("forced") ELSE UNCHANGED <<main, exit, task>>
  /\ UNCHANGED <<given, keys, progress, terminal, erred, broke>>

(* The process is killed, perhaps while it saves its keypair.              *)
Killed ==
  /\ exit = "no" /\ Exits("killed")
  /\ keyfile' \in IF main = "saving" THEN {keyfile, -1, identity} ELSE {keyfile}
  /\ UNCHANGED <<given, identity, progress, terminal, ending>>

StartedAgain ==
  /\ exit # "no" /\ starts < MaxStarts /\ starts' = starts + 1
  /\ config' = <<>> /\ main' = "configuring" /\ identity' = 0
  /\ retries' = 0 /\ bound' = 0 /\ task' = [t \in Names |-> "absent"]
  /\ terminal' = "plain" /\ shutdown' = FALSE /\ presses' = 0 /\ erred' = {}
  /\ exit' = "no" /\ broke' = {}
  /\ headless' \in BOOLEAN /\ readable' \in BOOLEAN
  /\ UNCHANGED <<file, keyfile>>

Main ==
  \/ LoadConfig \/ Install \/ load_or_generate_keypair \/ SaveKeypair \/ SpawnUi
  \/ Authenticate \/ StartError \/ SpawnActors \/ BindServer \/ AllBound
  \/ WakeForShutdown \/ Drained \/ GraceLapses
  \/ \E t \in Names : WakeForTask(t) \/ Drain(t)

Ui == UiStarts \/ (shutdown /\ UiQuits)

Next ==
  \/ Main \/ Ui \/ UiQuits \/ UiBreaks
  \/ DialAgain \/ Identified \/ ReservationAccepted
  \/ \E t \in Names : ActorEnds(t) \/ ActorPanics(t)
  \/ CtrlC \/ Killed \/ StartedAgain

Spec == Init /\ [][Next]_vars

(* main goes on where nothing outside holds it up, a dial is answered or   *)
(* times out, the interface looks at the token each time round its loop.   *)
(* The hub need not grant a reservation, nor an actor ever stop.           *)
FairSpec == Spec /\ WF_vars(Main) /\ WF_vars(Ui) /\ WF_vars(DialAgain \/ Identified)
-----------------------------------------------------------------------------
(* A failure "tears the already-spawned TUI down cleanly before returning" *)
(* (main.rs:86-87): a program that returns has put the terminal back, but  *)
(* for an interface that broke itself and for a listener that could not be *)
(* bound, where main drops its tasks.                                      *)
TerminalRestored ==
  exit \in {"ok", "error"} /\ broke \cap {"ui", "binding"} = {} => terminal = "plain"

(* A task that breaks is reported in the exit code: in whatever order the  *)
(* tasks end, the token is cancelled and main gets to them, a program that *)
(* drained its tasks does not end well.  When the cap cuts the drain, the  *)
(* exit code, which is then 0 ("cut") or 1, knows only of the task that    *)
(* ended the wait: a failure may then go unreported, but only where there  *)
(* is an interface, whose end asks for the shutdown, or Ctrl-C did.  A     *)
(* headless proxy that goes down by itself says so.                        *)
FailureReported ==
  broke # {} => /\ exit # "ok"
                /\ exit = "cut" => (headless => presses > 0)

(* "Config mistakes that must fail startup loudly rather than silently     *)
(* route through arbitrary nodes" (config.rs:328-329), "a typo fails       *)
(* loudly" (config.rs:375-377): no program runs without a filter or a pin  *)
(* its file asks for, nor exits through another peer than the one an entry *)
(* ends with; and an entry reads back as it was shown.                     *)
FiltersAsWritten ==
  main \notin {"configuring", "over"} => \A i \in DOMAIN file :
    /\ config[i].country = "" => file[i].country.spelling \in {"absent", "blank"}
    /\ file[i].listed => config[i].pinned # <<>>
    /\ \A r \in DOMAIN config[i].pinned :
         LET entry == config[i].pinned[r] text == file[i].entries[r]
         IN /\ IsP2p(Last(text.parts)) => entry.peer_id = Last(text.parts).id
            /\ from_str(Displayed(entry)) = {entry}

(* The identity the hub knows outlives crashes and restarts: a keypair on  *)
(* disk that can be read is never written over.                            *)
IdentityKept == [][keyfile > 0 /\ readable => keyfile' = keyfile]_vars

(* "So cleanup can never hang the process" (main.rs:188): once main waits  *)
(* for its tasks a requested shutdown ends it, however slow they are; and  *)
(* the hub is reached or given up, in a bounded number of dials.           *)
StopsInTheEnd ==
  /\ (shutdown /\ main \in {"failing", "binding", "waiting", "draining"}) ~> exit # "no"
  /\ main = "dialing" ~> main # "dialing"
==============================================================================
