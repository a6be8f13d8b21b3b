---------------------------- MODULE PublicServer ----------------------------
(***************************************************************************)
(* The life of a `serve public` process (internal/cli/serve_public.go):    *)
(* it loads the allowlist schema, watches its file (internal/allowlist/    *)
(* loader.go), serves exports over gRPC and HTTP, and drains on a signal.  *)
(*                                                                         *)
(* The file is in the hands of an operator, who saves it in place (what    *)
(* is on disk is unfinished for a moment) or renames a new file over it.   *)
(* An export is admitted with the schema of the moment and then writes     *)
(* through a pooled connection; what it writes is Ingest's matter.         *)
(***************************************************************************)
EXTENDS Integers

CONSTANTS
  ValidSchemas, \* valid contents of the schema file
  Broken,     \* contents that do not parse or validate
  GrpcExports, HttpExports,
  MaxSaves    \* bound: saves of the file

VARIABLES
  phase,      \* of runPublic
  signalled,  \* SIGTERM or SIGINT has arrived
  file,       \* what is on disk
  saving,     \* an in-place save is under way: what it will leave
  saves,
  watch,      \* the inotify watch: "none" yet, "on", "lost" or "closed"
  events,     \* the fsnotify channel holds an event
  reload,     \* the Watch goroutine: "select", "read", or the contents it read
  current,    \* the active schema
  noticed,    \* history: how the last save was made under the watch: "written"
              \* in place or "renamed" over the file; "no" without the watch
  export      \* [Exports -> "none", "handling" or "writing"]

disk == <<file, saving, saves, noticed>>
watcher == <<watch, events, reload, current>>
serverVars == <<phase, signalled, disk, watcher, export>>

Exports == GrpcExports \cup HttpExports
Contents == ValidSchemas \cup {Broken}
Unset == "unset"

\* Any content may be on disk when the process starts.
ServerInit ==
  /\ phase = "boot" /\ signalled = FALSE
  /\ file \in Contents /\ saving = Unset /\ saves = 0 /\ noticed = "no"
  /\ watch = "none" /\ events = FALSE /\ reload = "select" /\ current = Unset
  /\ export = [e \in Exports |-> "none"]

Over == phase \in {"exited", "crashed"}
-----------------------------------------------------------------------------
(* The schema file and its watcher.                                        *)

\* Load fails fast: there is no process without a schema.
Load ==
  /\ phase = "boot"
  /\ IF file = Broken THEN phase' = "crashed" /\ UNCHANGED current
                      ELSE phase' = "serving" /\ current' = file
  /\ UNCHANGED <<signalled, disk, watch, events, reload, export>>

\* Watch, in its own goroutine: the watch is added some time after the load.
AddWatch ==
  /\ phase # "boot" /\ ~ Over /\ watch = "none"
  /\ watch' = "on"
  /\ UNCHANGED <<phase, signalled, disk, events, reload, current, export>>

\* A save in place truncates the file and then writes it: two write events.
Written == events' = (events \/ watch = "on")

BeginSave(c) ==
  /\ saves < MaxSaves /\ saving = Unset
  /\ saving' = c /\ file' = Broken /\ saves' = saves + 1 /\ noticed' = "no"
  /\ Written
  /\ UNCHANGED <<phase, signalled, watch, reload, current, export>>

EndSave ==
  /\ saving # Unset
  /\ file' = saving /\ saving' = Unset /\ noticed' = (IF watch = "on" THEN "written" ELSE "no")
  /\ Written
  /\ UNCHANGED <<phase, signalled, saves, watch, reload, current, export>>

\* A rename over the file removes the watched inode.  That is none of the
\* events Watch reloads on, and the watch ends with the inode.
RenameOver(c) ==
  /\ saves < MaxSaves /\ saving = Unset
  /\ file' = c /\ saves' = saves + 1
  /\ noticed' = (IF watch = "on" THEN "renamed" ELSE "no")
  /\ watch' = IF watch = "on" THEN "lost" ELSE watch
  /\ UNCHANGED <<phase, signalled, saving, events, reload, current, export>>

\* The loop of Watch takes one event from the channel, reads the file, and
\* keeps the previous schema when what it read is not valid.
TakeEvent ==
  /\ reload = "select" /\ events /\ watch \in {"on", "lost"}
  /\ events' = FALSE /\ reload' = "read"
  /\ UNCHANGED <<phase, signalled, disk, watch, current, export>>

ReadFile ==
  /\ reload = "read"
  /\ reload' = file
  /\ UNCHANGED <<phase, signalled, disk, watch, events, current, export>>

\* Mutant of Store: events that came during the reload are dropped as echoes.
StoreDebounced ==
  /\ reload \in Contents
  /\ current' = IF reload \in ValidSchemas THEN reload ELSE current
  /\ reload' = "select" /\ events' = FALSE
  /\ UNCHANGED <<phase, signalled, disk, watch, export>>

Store ==
  /\ reload \in Contents
  /\ current' = IF reload \in ValidSchemas THEN reload ELSE current
  /\ reload' = "select"
  /\ UNCHANGED <<phase, signalled, disk, watch, events, export>>

\* stopCh is closed when the signal arrives; the loop may see it late.
StopWatch ==
  /\ signalled /\ reload = "select" /\ watch \in {"on", "lost"}
  /\ watch' = "closed" /\ events' = FALSE
  /\ UNCHANGED <<phase, signalled, disk, reload, current, export>>
-----------------------------------------------------------------------------
(* Exports.  gRPC takes new calls until GracefulStop, HTTP until Shutdown. *)

\* Mutant of Accept: the gRPC listener stays open while its calls drain.
AcceptWhileDraining(e) ==
  /\ export[e] = "none" /\ phase \in {"serving", "grpc"}
  /\ export' = [export EXCEPT ![e] = "handling"]
  /\ UNCHANGED <<phase, signalled, disk, watcher>>

Accept(e) ==
  /\ export[e] = "none"
  /\ phase \in IF e \in GrpcExports THEN {"serving"} ELSE {"serving", "grpc"}
  /\ export' = [export EXCEPT ![e] = "handling"]
  /\ UNCHANGED <<phase, signalled, disk, watcher>>

\* The handler takes a connection of the pool, which is open until Close.
Write(e) ==
  /\ export[e] = "handling" /\ phase \in {"serving", "grpc", "http"}
  /\ export' = [export EXCEPT ![e] = "writing"]
  /\ UNCHANGED <<phase, signalled, disk, watcher>>

\* It replies: after its write, or without one (refused, nothing to store, or
\* the pool is closed).
Reply(e) ==
  /\ export[e] # "none" /\ ~ Over
  /\ export' = [export EXCEPT ![e] = "none"]
  /\ UNCHANGED <<phase, signalled, disk, watcher>>
-----------------------------------------------------------------------------
(* The end of runPublic.                                                   *)

Signal ==
  /\ ~ Over /\ ~ signalled
  /\ signalled' = TRUE
  /\ UNCHANGED <<phase, disk, watcher, export>>

Goes(from, to) ==
  /\ phase = from /\ phase' = to
  /\ UNCHANGED <<signalled, disk, watcher, export>>

\* The select sees ctx.Done: GracefulStop begins.
BeginDrain == signalled /\ Goes("serving", "grpc")

\* Mutant of GracefulStop: Stop, which does not wait for the calls in flight.
StopAtOnce == Goes("grpc", "http")

\* GracefulStop returns when no call is in flight, however long that takes.
GracefulStop == (\A e \in GrpcExports : export[e] = "none") /\ Goes("grpc", "http")

\* Shutdown returns when the HTTP exports have ended, or the grace period has.
Shutdown == Goes("http", "pool")

\* One of the listeners fails: runPublic returns without draining.
ServeFails == Goes("serving", "failed")

\* The deferred pool.Close waits for the connections in use; then main returns.
ClosePool ==
  /\ \A e \in Exports : export[e] # "writing"
  /\ Goes("pool", "exited") \/ Goes("failed", "crashed")

ServerNext ==
  \/ Load \/ AddWatch \/ TakeEvent \/ ReadFile \/ Store \/ StopWatch
  \/ \E c \in Contents : BeginSave(c) \/ RenameOver(c)
  \/ EndSave
  \/ \E e \in Exports : Accept(e) \/ Write(e) \/ Reply(e)
  \/ Signal \/ BeginDrain \/ GracefulStop \/ Shutdown \/ ServeFails \/ ClosePool

\* The goroutines of the process run; operators, clients and signals are free,
\* but a handler ends and a begun save is finished.
ServerFairness ==
  /\ WF_serverVars(Load) /\ WF_serverVars(AddWatch)
  /\ WF_serverVars(TakeEvent) /\ WF_serverVars(ReadFile) /\ WF_serverVars(Store)
  /\ WF_serverVars(StopWatch) /\ WF_serverVars(EndSave)
  /\ \A e \in Exports : WF_serverVars(Reply(e))
  /\ WF_serverVars(BeginDrain) /\ WF_serverVars(GracefulStop)
  /\ WF_serverVars(Shutdown) /\ WF_serverVars(ClosePool)

ServerSpec == ServerInit /\ [][ServerNext]_serverVars /\ ServerFairness
-----------------------------------------------------------------------------
(* Properties.                                                             *)

\* A valid schema saved in place while the file is watched comes to be the
\* active one and stays it, if no save follows and the server goes on serving:
\* reloads that met the file half-written, and the events that came during a
\* reload, do not have the last word.
SavedSchemaIsServed ==
  \A c \in ValidSchemas :
    <>[](phase = "serving" /\ noticed = "written" /\ file = c) => <>[](current = c)

\* What Watch says of itself ("covers atomic-rename-based editors and plain
\* in-place writes"): the same of a schema renamed over the watched file.
RenamedSchemaIsServed ==
  \A c \in ValidSchemas :
    <>[](phase = "serving" /\ noticed # "no" /\ file = c) => <>[](current = c)

\* A signal ends the process, whatever is in flight and however often clients
\* come back while it drains.
SignalEnds == signalled ~> Over

\* The drain cuts off no gRPC call: when GracefulStop has returned none is in
\* flight and none comes any more, although HTTP was still accepting; and no
\* end of the process, a crash of a listener included, leaves a write open.
DrainIsClean ==
  /\ phase \in {"http", "pool", "exited"} => \A e \in GrpcExports : export[e] = "none"
  /\ Over => \A e \in Exports : export[e] # "writing"
=============================================================================
