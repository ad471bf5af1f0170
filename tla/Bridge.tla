-------------------------------- MODULE Bridge --------------------------------
(***************************************************************************)
(* The editor extension, end to end: the search field of the webview       *)
(* (useCommitSearch.ts, vscodeRepoClient.ts), the extension host's bridge   *)
(* (sidecarBridge.ts), the sidecar's thread per request (main.rs,           *)
(* dispatch.rs) and the worker's search generation (worker/search.rs).      *)
(*                                                                         *)
(* The webview asks for searches and cancels them. The sidecar may die at   *)
(* any moment; the bridge then rejects what is pending, and the next        *)
(* request starts another sidecar, in which the repositories are opened     *)
(* again before anything else is sent. Messages between two parties keep    *)
(* their order; the sidecar's threads do not. A turn of the host's event    *)
(* loop is one step.                                                        *)
(***************************************************************************)
EXTENDS Integers, Sequences, FiniteSets

CONSTANTS
  MaxRequests,  \* bound: requests of the webview
  MaxLosses     \* bound: sidecars that die or do not start, calls that fail

ASSUME BridgeAssumption == MaxRequests \in Nat

RequestIds == 1..MaxRequests
ListId == MaxRequests + 1       \* list_open_repos and open_repo of the bridge itself
OpenId == MaxRequests + 2

VARIABLES
  web,      \* the webview: generation, what it shows, the calls it waits for, the last id
  toHost, toWeb,   \* messages on their way between the webview and the host
  host,     \* the bridge
  proc,     \* the sidecar the bridge holds
  losses,
  posted    \* ghost: how often each request was answered by the bridge

bridgeVars == <<web, toHost, toWeb, host, proc, losses, posted>>

NoShow == [what |-> "graph", of |-> 0]
NoProc == [held |-> FALSE, alive |-> FALSE, open |-> FALSE, openFailed |-> FALSE,
           current |-> 0, threads |-> {}, queue |-> << >>, out |-> << >>]
NewProc == [NoProc EXCEPT !.held = TRUE, !.alive = TRUE]

BridgeInit ==
  /\ web = [gen |-> 0, shown |-> NoShow, waits |-> {}, last |-> 0]
  /\ toHost = << >> /\ toWeb = << >>
  /\ host = [state |-> "running", startup |-> "none", pending |-> {}, joined |-> {},
             disposed |-> FALSE]
  /\ proc = [NewProc EXCEPT !.open = TRUE]
  /\ losses = 0 /\ posted = [id \in RequestIds |-> 0]

CallFails == losses < MaxLosses /\ losses' = losses + 1
CallWorks == UNCHANGED losses

-----------------------------------------------------------------------------
(* The webview: vscodeRepoClient.call and the search field *)

Waits(id) == \E w \in web.waits : w.id = id
Call(id) == CHOOSE w \in web.waits : w.id = id
Later == web.last < MaxRequests
Unchanged == UNCHANGED <<toWeb, host, proc, losses, posted>>

(* start, retry and Load more: a round of its own generation. *)
Search ==
  /\ Later
  /\ LET gen == web.gen + 1
         call == [id |-> web.last + 1, kind |-> "search", gen |-> gen]
     IN /\ web' = [gen |-> gen, shown |-> [what |-> "loading", of |-> gen],
                   waits |-> web.waits \cup {call}, last |-> call.id]
        /\ toHost' = Append(toHost, call)
  /\ Unchanged

(* closeResults: back to the graph; a round that still waits is cancelled. *)
Close ==
  /\ web.shown.what # "graph"
  /\ IF web.shown.what = "loading"
     THEN LET call == [id |-> web.last + 1, kind |-> "cancel", gen |-> web.gen + 1]
          IN /\ Later
             /\ web' = [gen |-> web.gen + 1, shown |-> NoShow,
                        waits |-> web.waits \cup {call}, last |-> call.id]
             /\ toHost' = Append(toHost, call)
     ELSE web' = [web EXCEPT !.gen = @ + 1, !.shown = NoShow] /\ UNCHANGED toHost
  /\ Unchanged

(* A deviation: the generation of an answer is not looked at. *)
IsCurrent_Any(call) == call.kind = "search"

IsCurrent(call) == call.kind = "search" /\ call.gen = web.gen

Shows(call, result) ==
  [web EXCEPT !.waits = @ \ {call},
              !.shown = IF IsCurrent(call) THEN [what |-> result, of |-> call.gen] ELSE @]

(* runRound: a page that does not fill the round asks for the next one. *)
NextPage(call) ==
  /\ Later
  /\ LET next == [call EXCEPT !.id = web.last + 1]
     IN /\ web' = [web EXCEPT !.waits = (@ \ {call}) \cup {next}, !.last = next.id]
        /\ toHost' = Append(toHost, next)

(* handleMessage: an answer settles its call, a transport status every call. *)
Receive ==
  /\ toWeb # << >> /\ toWeb' = Tail(toWeb)
  /\ LET m == Head(toWeb) IN
       \/ /\ m.kind = "answer" /\ ~Waits(m.id) /\ UNCHANGED <<web, toHost>>
       \/ /\ m.kind = "answer" /\ Waits(m.id)
          /\ \/ web' = Shows(Call(m.id), m.result) /\ UNCHANGED toHost
             \/ m.result = "page" /\ IsCurrent(Call(m.id)) /\ NextPage(Call(m.id))
       \/ /\ m.kind = "status" /\ UNCHANGED toHost
          /\ web' = [web EXCEPT !.waits = {},
                       !.shown = IF \E w \in web.waits : IsCurrent(w)
                                 THEN [what |-> "transport", of |-> web.gen] ELSE @]
  /\ UNCHANGED <<host, proc, losses, posted>>

-----------------------------------------------------------------------------
(* The bridge *)

Answer(id, result) == [kind |-> "answer", id |-> id, result |-> result]
TransportStatus == [kind |-> "status", id |-> 0, result |-> "transport"]

Thread(call) == [id |-> call.id, kind |-> call.kind, pc |-> "new", gen |-> 0, result |-> "none"]
Internal(id, kind) == Thread([id |-> id, kind |-> kind])

(* What is written to a sidecar that has died is lost. *)
Written(p, calls) ==
  IF p.alive THEN [p EXCEPT !.threads = @ \cup {Thread(c) : c \in calls}] ELSE p

(* The calls are rejected in the order in which they were made. *)
Rejections(ids) ==
  LET Nth(n) == CHOOSE i \in ids : Cardinality({j \in ids : j < i}) = n - 1
  IN  [n \in 1..Cardinality(ids) |-> Answer(Nth(n), "transport")]

(* rejectPendingAndNotify *)
RejectAll(ids) ==
  /\ toWeb' = toWeb \o Rejections(ids) \o <<TransportStatus>>
  /\ posted' = [id \in RequestIds |-> posted[id] + (IF id \in ids THEN 1 ELSE 0)]

(* A deviation: a loss leaves the ids of the rejected requests behind. *)
PendingAfterLoss_Kept == host.pending

PendingAfterLoss == {}

(* A deviation: only what was written to the sidecar is rejected, not what waited for it. *)
LostCalls_Written == host.pending \ {c.id : c \in host.joined}

LostCalls == host.pending

StateAfterLoss == "reconnecting"

(* A deviation: a request that finds a sidecar being started does not wait for it. *)
Joins_Never == FALSE

Joins == host.startup # "none"

(* handleWebviewMessage and ensureSidecar. *)
Handle ==
  /\ toHost # << >> /\ toHost' = Tail(toHost) /\ UNCHANGED web
  /\ LET call == Head(toHost)
         ids == host.pending \cup {call.id}
     IN \/ /\ host.disposed /\ CallWorks /\ RejectAll(ids)
           /\ host' = [host EXCEPT !.pending = {}] /\ UNCHANGED proc
        \/ /\ ~host.disposed /\ (host.state = "running" \/ (host.startup # "none" /\ ~Joins))
           /\ CallWorks /\ host' = [host EXCEPT !.pending = ids]
           /\ proc' = Written(proc, {call}) /\ UNCHANGED <<toWeb, posted>>
        \/ /\ ~host.disposed /\ Joins
           /\ CallWorks /\ host' = [host EXCEPT !.pending = ids, !.joined = @ \cup {call}]
           /\ UNCHANGED <<proc, toWeb, posted>>
        \/ /\ ~host.disposed /\ host.state # "running" /\ host.startup = "none"
           /\ \/ /\ CallWorks                                     \* spawned, to be restored
                 /\ host' = [host EXCEPT !.pending = ids, !.joined = {call}, !.startup = "list"]
                 /\ proc' = [NewProc EXCEPT !.threads = {Internal(ListId, "list")}]
                 /\ UNCHANGED <<toWeb, posted>>
              \/ /\ CallFails /\ RejectAll(ids) /\ UNCHANGED proc \* it did not start
                 /\ host' = [host EXCEPT !.pending = {}, !.state = "failed"]

Resumed == host.joined

(* relaySidecarLine, and what a restoring startup does next. *)
Relay ==
  /\ proc.held /\ proc.out # << >>
  /\ LET m == Head(proc.out)
         read == [proc EXCEPT !.out = Tail(@)]
     IN \/ /\ m.id = ListId /\ m.result = "ok" /\ UNCHANGED <<toWeb, posted>>
           /\ host' = [host EXCEPT !.startup = "open"]
           /\ proc' = IF proc.alive THEN [read EXCEPT !.threads = @ \cup {Internal(OpenId, "open")}]
                      ELSE read
        \/ /\ m.id = ListId /\ m.result # "ok"                \* the list cannot be read
           /\ RejectAll(host.pending) /\ proc' = NoProc
           /\ host' = [host EXCEPT !.pending = {}, !.joined = {}, !.startup = "none",
                                   !.state = "failed"]
        \/ /\ m.id = OpenId /\ UNCHANGED <<toWeb, posted>>
           /\ host' = [host EXCEPT !.startup = "none", !.joined = {},
                                   !.state = "running"]
           /\ proc' = Written(read, Resumed)
        \/ /\ m.id \in RequestIds /\ proc' = read
           /\ IF m.id \in host.pending                        \* else a stray answer, dropped
              THEN /\ host' = [host EXCEPT !.pending = @ \ {m.id}]
                   /\ toWeb' = Append(toWeb, Answer(m.id, m.result))
                   /\ posted' = [posted EXCEPT ![m.id] = @ + 1]
              ELSE UNCHANGED <<toWeb, posted, host>>
  /\ UNCHANGED <<web, toHost, losses>>

(* handleProcessLoss: what the sidecar wrote and was not read yet is not read any more. *)
Loss ==
  /\ proc.held /\ ~proc.alive /\ ~host.disposed
  /\ RejectAll(LostCalls) /\ proc' = NoProc
  /\ host' = [host EXCEPT !.pending = PendingAfterLoss, !.joined = {}, !.startup = "none",
                          !.state = StateAfterLoss]
  /\ UNCHANGED <<web, toHost, losses>>

Dispose ==
  /\ ~host.disposed /\ proc' = NoProc
  /\ host' = [host EXCEPT !.disposed = TRUE, !.pending = {}, !.joined = {}, !.startup = "none",
                          !.state = "idle"]
  /\ IF host.pending # {} THEN RejectAll(host.pending) ELSE UNCHANGED <<toWeb, posted>>
  /\ UNCHANGED <<web, toHost, losses>>

-----------------------------------------------------------------------------
(* The sidecar: a thread per request, one worker *)

Update(t, u) == proc' = [proc EXCEPT !.threads = (@ \ {t}) \cup {u}]
Replies(t, result) == Update(t, [t EXCEPT !.pc = "reply", !.result = result])
SidecarOnly == UNCHANGED <<web, toHost, toWeb, host, posted>>

(* search_commits claims a generation before it reaches the worker's queue. *)
Claim(t) ==
  /\ t.kind = "search" /\ t.pc = "new" /\ CallWorks
  /\ \/ ~proc.open /\ Replies(t, "not open")
     \/ /\ proc.open
        /\ proc' = [proc EXCEPT !.current = @ + 1,
             !.threads = (@ \ {t}) \cup {[t EXCEPT !.pc = "claimed", !.gen = proc.current + 1]}]

Enqueue(t) ==
  /\ t.kind = "search" /\ t.pc = "claimed" /\ CallWorks
  /\ proc' = [proc EXCEPT !.queue = Append(@, t.id),
                          !.threads = (@ \ {t}) \cup {[t EXCEPT !.pc = "queued"]}]

(* cancel_search, list_open_repos and open_repo. *)
Serve(t) ==
  /\ t.pc = "new"
  /\ \/ /\ t.kind = "cancel" /\ CallWorks
        /\ \/ ~proc.open /\ Replies(t, "not open")
           \/ /\ proc.open
              /\ proc' = [proc EXCEPT !.current = @ + 1,
                   !.threads = (@ \ {t}) \cup {[t EXCEPT !.pc = "reply", !.result = "ok"]}]
     \/ /\ t.kind = "list"
        /\ \/ CallWorks /\ Replies(t, "ok")
           \/ CallFails /\ Replies(t, "error")
     \/ /\ t.kind = "open"
        /\ \/ /\ CallWorks
              /\ proc' = [proc EXCEPT !.open = TRUE,
                   !.threads = (@ \ {t}) \cup {[t EXCEPT !.pc = "reply", !.result = "ok"]}]
           \/ /\ CallFails
              /\ proc' = [proc EXCEPT !.openFailed = TRUE,
                   !.threads = (@ \ {t}) \cup {[t EXCEPT !.pc = "reply", !.result = "error"]}]

(* The walk of one page: cancelled as soon as another generation is current. Walking at one *)
(* instant is enough: a walk that another generation catches is one that began later.       *)
Walk(t) ==
  /\ t.pc = "queued" /\ proc.queue # << >> /\ Head(proc.queue) = t.id /\ CallWorks
  /\ proc' = [proc EXCEPT !.queue = Tail(@),
       !.threads = (@ \ {t}) \cup
          {[t EXCEPT !.pc = "reply", !.result = IF t.gen = proc.current THEN "page" ELSE "cancelled"]}]

WriteAnswer(t) ==
  /\ t.pc = "reply" /\ CallWorks
  /\ proc' = [proc EXCEPT !.threads = @ \ {t}, !.out = Append(@, [id |-> t.id, result |-> t.result])]

ThreadStep(id) ==
  /\ proc.alive
  /\ \E t \in proc.threads :
       t.id = id /\ (Claim(t) \/ Enqueue(t) \/ Serve(t) \/ Walk(t) \/ WriteAnswer(t))
  /\ SidecarOnly

Die ==
  /\ proc.held /\ proc.alive /\ CallFails
  /\ proc' = [proc EXCEPT !.alive = FALSE, !.threads = {}, !.queue = << >>]
  /\ SidecarOnly

-----------------------------------------------------------------------------

AllIds == RequestIds \cup {ListId, OpenId}

BridgeNext ==
  \/ Search \/ Close \/ Receive
  \/ Handle \/ Relay \/ Loss \/ Dispose
  \/ \E id \in AllIds : ThreadStep(id)
  \/ Die

BridgeSpec == BridgeInit /\ [][BridgeNext]_bridgeVars

(* Event loops go on turning, a live sidecar's threads go on running. *)
BridgeFair ==
  /\ WF_bridgeVars(Receive) /\ WF_bridgeVars(Handle) /\ WF_bridgeVars(Relay) /\ WF_bridgeVars(Loss)
  /\ \A id \in AllIds : WF_bridgeVars(ThreadStep(id))

-----------------------------------------------------------------------------
(* What the bridge promises *)

\* A request is answered at most once, whatever dies and starts again in between
\* (relaySidecarLine, rejectPendingAndNotify).
AnsweredOnce == \A id \in RequestIds : posted[id] <= 1

\* What the webview waits for is still in somebody's hands: on its way, pending in the
\* bridge, or answered and on its way back. Nothing is forgotten when a sidecar dies while
\* it is being started (ensureSidecar, handleProcessLoss).
NoRequestLost ==
  \A w \in web.waits :
    \/ \E i \in DOMAIN toHost : toHost[i].id = w.id
    \/ w.id \in host.pending
    \/ \E i \in DOMAIN toWeb : toWeb[i].kind = "answer" /\ toWeb[i].id = w.id

(* Every request of the webview is answered exactly once or still in somebody's hands,       *)
(* whatever sidecar dies, and starts again, with it (relaySidecarLine,                       *)
(* rejectPendingAndNotify, ensureSidecar, handleProcessLoss).                                *)
RequestsAreKept == AnsweredOnce /\ NoRequestLost

(* The user sees what was asked for last, and of repositories that are open: the results on   *)
(* screen are those of the last search (useCommitSearch.runRound), and no search finds its    *)
(* repository closed unless opening it again failed, as what was sent while a sidecar starts  *)
(* is written after the repositories are restored (restorePersistedRepositories).             *)
SearchesAreServed ==
  /\ web.shown.what # "graph" => web.shown.of = web.gen
  /\ \A t \in proc.threads : t.result = "not open" => proc.openFailed
=============================================================================
