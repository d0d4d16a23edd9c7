---------------------------- MODULE OfflineQueue ----------------------------
(***************************************************************************)
(* The action queue of the browser (sync_client_script in src/src/web.rs). *)
(* What the user submits is fetched at once when online; offline, or when  *)
(* the fetch fails, it is appended to a queue in localStorage, which all   *)
(* tabs share.  Enqueuing reads the queue and writes it back after an      *)
(* await for the encryption; a flush reads it, sends item after item and   *)
(* only then writes back what it keeps.  The slot is encrypted with a key  *)
(* made from the password: what cannot be decrypted is removed.            *)
(*                                                                         *)
(* A request carries the csrf token of the page that made it.  With another *)
(* session or none the server answers 401 or 403 to a "json" action and    *)
(* redirects a "form" action (the document handlers), which fetch follows  *)
(* to a page that arrives as a success.                                    *)
(*                                                                         *)
(* A request of a session that goes on may be refused for good as well: a  *)
(* wrong current password is answered 401, a unit the account may not      *)
(* write 403, malformed or conflicting data 400, 404 or 409, at every try. *)
(* So an action has a fate, which does not change while it waits.          *)
(*                                                                         *)
(* Actions are numbered in the order the user submits them.  Left out: the *)
(* action refused at once (online-only, or a page without a login's keys). *)
(* The removal of an undecryptable slot, an await after its read, is taken *)
(* with the read.                                                          *)
(***************************************************************************)
EXTENDS Naturals, Sequences

CONSTANTS
    Tabs,           \* browser tabs with the application
    Requests,       \* the requests that the user's actions make
    MaxActions,     \* bound: actions submitted
    MaxTroubles,    \* bound: fetches that fail, and refusals that are not for good
    MaxReloads,     \* bound: pages left while something is under way
    MaxPasswords,   \* bound: passwords of the user
    MaxLogins       \* bound: sessions of the user

Action == 1 .. MaxActions
NoTab == "no tab"

VARIABLES
    slot,       \* localStorage: the queue and the key that encrypted it
    act,        \* each action: its stage, its tab, its request and the queue it read
    flush,      \* each tab: the flush under way (queueFlushPromise)
    key,        \* each tab: the key of its login
    csrf,       \* each tab: the session whose csrf token its page has
    password,   \* the user's password
    session,    \* the browser's session as the server knows it, or NoSession
    logins,
    online,
    applied,    \* history: how often the server applied each action: 0, 1, 2 for more
    reads,      \* history: the actions in the order of their enqueue reads
    disturbed,  \* history: two reads of the queue overlapped, or one lost it
    again,      \* history: a request may have to be repeated
    troubles, reloads

vars == <<slot, act, flush, key, csrf, password, session, logins, online, applied, reads,
          disturbed, again, troubles, reloads>>

NoSession == 0
Session == NoSession .. MaxLogins
Kind == {"json", "form"}

\* What the server makes of an action: applies it, answers 401 or 403, or another error.  The
\* document handlers redirect whatever they refuse.
Fate == {"fine", "denied", "faulty"}
Request == {[kind |-> k, fate |-> f] : k \in Kind, f \in Fate} \ {[kind |-> "form", fate |-> "faulty"]}

ASSUME RequestsAssumption == Requests \subseteq Request
Stage == {"new", "sending", "enqueuing", "queued", "flushed", "done", "refused", "dropped"}
Quiet == [pc |-> "off", items |-> <<>>, at |-> 1, keep |-> <<>>]

TypeOK ==
    /\ slot.key \in 1 .. MaxPasswords /\ slot.items \in Seq(Action)
    /\ \A a \in Action :
        /\ act[a].stage \in Stage /\ act[a].tab \in Tabs \union {NoTab}
        /\ act[a].request \in Request /\ act[a].csrf \in Session
        /\ act[a].copy \in Seq(Action)
    /\ \A t \in Tabs :
        /\ flush[t].pc \in {"off", "send", "save"}
        /\ flush[t].items \in Seq(Action) /\ flush[t].keep \in Seq(Action)
        /\ flush[t].at \in 1 .. Len(flush[t].items) + 1
    /\ key \in [Tabs -> 1 .. MaxPasswords]
    /\ password \in 1 .. MaxPasswords
    /\ csrf \in [Tabs -> Session] /\ session \in Session /\ logins \in Session
    /\ online \in BOOLEAN
    /\ applied \in [Action -> 0 .. 2] /\ reads \in Seq(Action)
    /\ disturbed \in BOOLEAN /\ again \in BOOLEAN
    /\ troubles \in 0 .. MaxTroubles /\ reloads \in 0 .. MaxReloads

Init ==
    /\ slot = [key |-> 1, items |-> <<>>]
    /\ act = [a \in Action |-> 
                [stage |-> "new", tab |-> NoTab, request |-> [kind |-> "json", fate |-> "fine"],
                 csrf |-> NoSession, copy |-> <<>>]]
    /\ flush = [t \in Tabs |-> Quiet]
    /\ key = [t \in Tabs |-> 1]
    /\ password = 1
    /\ csrf = [t \in Tabs |-> 1] /\ session = 1 /\ logins = 1
    /\ online \in BOOLEAN
    /\ applied = [a \in Action |-> 0]
    /\ reads = <<>>
    /\ disturbed = FALSE
    /\ again = FALSE
    /\ troubles = 0
    /\ reloads = 0

Members(q) == {q[n] : n \in 1 .. Len(q)}
From(q, n) == SubSeq(q, n, Len(q))

Apply(S) ==
    applied' = [a \in Action |->
                    IF a \in S /\ applied[a] < 2 THEN applied[a] + 1 ELSE applied[a]]

Enqueuing == {a \in Action : act[a].stage = "enqueuing"}
Flushing == {t \in Tabs : flush[t].pc # "off"}

\* loadActionQueue: what the key cannot decrypt is removed.
Readable(t) == slot.items = <<>> \/ slot.key = key[t]
Load(t) == IF Readable(t) THEN slot.items ELSE <<>>
Read(t) ==
    /\ slot' = IF Readable(t) THEN slot ELSE [slot EXCEPT !.items = <<>>]
    /\ disturbed' = (disturbed \/ ~Readable(t) \/ Enqueuing # {} \/ Flushing # {})

Save(t, items) == slot' = [key |-> key[t], items |-> items]

Trouble == troubles < MaxTroubles /\ troubles' = troubles + 1

\* What the server makes of a request: require_session, validate_csrf and the rest.
Valid(a) == session # NoSession /\ act[a].csrf = session
IsKind(a, k) == act[a].request.kind = k
HasFate(a, f) == act[a].request.fate = f

ServerApplies(a) == Valid(a) /\ HasFate(a, "fine") /\ Apply({a})

\* A refusal that is not due, now or at any later try, is a trouble.
Refuses(due) == (IF due THEN UNCHANGED troubles ELSE Trouble) /\ UNCHANGED applied

ServerErrs(a) == Refuses(Valid(a) /\ HasFate(a, "faulty"))
\* A status of 401 or 403.
ServerDenies(a) == IsKind(a, "json") /\ Refuses(~Valid(a) \/ HasFate(a, "denied"))
\* A redirect that fetch follows; a handler redirects what it does not allow.
ServerRedirects(a) == IsKind(a, "form") /\ Refuses(~Valid(a) \/ HasFate(a, "denied"))

\* What arrives as response.ok.
ServerAccepts(a) ==
    \/ ServerApplies(a) /\ UNCHANGED troubles
    \/ ServerRedirects(a)

Browser == <<key, csrf, password, session, logins, online>>

----------------------------------------------------------------------------
(* submitServerAction and enqueueAction. *)

\* The action a of tab t is recorded with the csrf token of its page.
Sends(a, t, q) ==
    /\ act' = [act EXCEPT ![a] = [stage |-> "sending", tab |-> t, request |-> q,
                                  csrf |-> csrf[t], copy |-> <<>>]]
    /\ UNCHANGED <<slot, reads, disturbed>>

Enqueue(a, t, q, c) ==
    /\ Read(t)
    /\ act' = [act EXCEPT ![a] = [stage |-> "enqueuing", tab |-> t, request |-> q,
                                  csrf |-> c, copy |-> Load(t)]]
    /\ reads' = Append(reads, a)

Submit(a, t) ==
    /\ act[a].stage = "new"
    /\ \A b \in 1 .. a - 1 : act[b].stage # "new"
    /\ \E q \in Requests : IF online THEN Sends(a, t, q) ELSE Enqueue(a, t, q, csrf[t])
    /\ UNCHANGED <<flush, Browser, applied, again, troubles, reloads>>

\* The fetch is answered: response.ok, or an error status.
Answered(a) ==
    /\ act[a].stage = "sending"
    /\ \/ /\ ServerAccepts(a)
          /\ act' = [act EXCEPT ![a].stage = "done"]
       \/ /\ ServerErrs(a) \/ ServerDenies(a)
          /\ act' = [act EXCEPT ![a].stage = "refused"]
    /\ UNCHANGED <<slot, flush, Browser, reads, disturbed, again, reloads>>

\* The fetch fails, before or after the server applied the action.
FetchFails(a) ==
    /\ act[a].stage = "sending"
    /\ Trouble
    /\ \/ UNCHANGED <<applied, again>>
       \/ ServerApplies(a) /\ again' = TRUE
    /\ Enqueue(a, act[a].tab, act[a].request, act[a].csrf)
    /\ UNCHANGED <<flush, Browser, reloads>>

\* Faulty variant: the new action goes to the front.
EnqueueInFront(a) ==
    /\ act[a].stage = "enqueuing"
    /\ Save(act[a].tab, <<a>> \o act[a].copy)
    /\ act' = [act EXCEPT ![a].stage = "queued", ![a].copy = <<>>]
    /\ UNCHANGED <<flush, Browser, applied, reads, disturbed,
                   again, troubles, reloads>>

\* The user is told that the action is queued and will be sent when online.
EnqueueSaves(a) ==
    /\ act[a].stage = "enqueuing"
    /\ Save(act[a].tab, Append(act[a].copy, a))
    /\ act' = [act EXCEPT ![a].stage = "queued", ![a].copy = <<>>]
    /\ UNCHANGED <<flush, Browser, applied, reads, disturbed,
                   again, troubles, reloads>>

----------------------------------------------------------------------------
(* flushQueuedActions, run when the browser comes online and after each sync. *)

\* Faulty variant: the queue is emptied before its items are sent.
FlushTakesAll(t) ==
    /\ flush[t].pc = "off"
    /\ online
    /\ disturbed' = (disturbed \/ ~Readable(t) \/ Enqueuing # {} \/ Flushing # {})
    /\ slot' = [slot EXCEPT !.items = <<>>]
    /\ Load(t) # <<>>
    /\ flush' = [flush EXCEPT ![t] = [Quiet EXCEPT !.pc = "send", !.items = Load(t)]]
    /\ UNCHANGED <<act, Browser, applied, reads, again, troubles, reloads>>

FlushReads(t) ==
    /\ flush[t].pc = "off"
    /\ online
    /\ slot.items # <<>>
    /\ Read(t)
    /\ flush' = IF Load(t) = <<>> THEN flush
                ELSE [flush EXCEPT ![t] = [Quiet EXCEPT !.pc = "send", !.items = Load(t)]]
    /\ UNCHANGED <<act, Browser, applied, reads, again, troubles, reloads>>

\* Item n of the flush is dealt with; then the next one, or the end.
StepOn(t, kept) ==
    LET f == flush[t] IN
    flush' = [flush EXCEPT
        ![t].keep = f.keep \o kept,
        ![t].at = f.at + 1,
        ![t].pc = IF f.at = Len(f.items) THEN "save" ELSE "send"]

StopHere(t) ==
    flush' = [flush EXCEPT
        ![t].keep = flush[t].keep \o From(flush[t].items, flush[t].at),
        ![t].pc = "save"]

Item(t) == flush[t].items[flush[t].at]

\* Faulty variant: an accepted action is kept.
FlushAcceptedKept(t) ==
    /\ flush[t].pc = "send" /\ online
    /\ ServerAccepts(Item(t))
    /\ act' = [act EXCEPT ![Item(t)].stage = "flushed"]
    /\ StepOn(t, <<Item(t)>>)
    /\ UNCHANGED <<slot, Browser, reads, disturbed, again, reloads>>

\* response.ok: the action counts as processed and is dropped from the queue.
FlushAccepted(t) ==
    /\ flush[t].pc = "send" /\ online
    /\ ServerAccepts(Item(t))
    /\ act' = [act EXCEPT ![Item(t)].stage = "flushed"]
    /\ StepOn(t, <<>>)
    /\ UNCHANGED <<slot, Browser, reads, disturbed, again, reloads>>

\* Faulty variant: any error stops the flush.
FlushStopsAtErrors(t) ==
    /\ flush[t].pc = "send" /\ online
    /\ ServerErrs(Item(t)) \/ ServerDenies(Item(t))
    /\ StopHere(t)
    /\ UNCHANGED <<slot, act, Browser, reads, disturbed, again, reloads>>

\* An action answered with an error is kept and the next one tried; 401 and 403 stop
\* the flush.
FlushRefused(t) ==
    /\ flush[t].pc = "send" /\ online
    /\ \/ ServerErrs(Item(t)) /\ StepOn(t, <<Item(t)>>)
       \/ ServerDenies(Item(t)) /\ StopHere(t)
    /\ UNCHANGED <<slot, act, Browser, reads, disturbed, again, reloads>>

\* The fetch fails, before or after the server applied the action: the flush stops.
FlushFails(t) ==
    /\ flush[t].pc = "send"
    /\ \/ ~online /\ UNCHANGED <<applied, again, troubles>>
       \/ /\ Trouble
          /\ \/ UNCHANGED <<applied, again>>
             \/ ServerApplies(Item(t)) /\ again' = TRUE
    /\ StopHere(t)
    /\ UNCHANGED <<slot, act, Browser, reads, disturbed, reloads>>

FlushSaves(t) ==
    /\ flush[t].pc = "save"
    /\ Save(t, flush[t].keep)
    /\ flush' = [flush EXCEPT ![t] = Quiet]
    /\ UNCHANGED <<act, Browser, applied, reads, disturbed,
                   again, troubles, reloads>>

----------------------------------------------------------------------------
(* The browser. *)

Network ==
    /\ online' = ~online
    /\ UNCHANGED <<slot, act, flush, key, csrf, password, session, logins, applied, reads,
                   disturbed, again, troubles, reloads>>

\* The page of a tab goes: what it had under way stops where it is.  What was sent
\* and not answered may have been applied.
Leaves(t) ==
    /\ \E late \in SUBSET {a \in Action : act[a].stage = "sending" /\ act[a].tab = t /\ Valid(a)} :
        Apply(late)
    /\ act' = [a \in Action |->
                IF act[a].tab = t /\ act[a].stage \in {"sending", "enqueuing"}
                THEN [act[a] EXCEPT !.stage = "dropped", !.copy = <<>>] ELSE act[a]]
    /\ flush' = [flush EXCEPT ![t] = Quiet]
    /\ again' = (again \/ flush[t].pc # "off")

\* A page comes from the network, with the csrf token of the session it has.
Reload(t) ==
    /\ reloads < MaxReloads
    /\ online /\ session # NoSession
    /\ reloads' = reloads + 1
    /\ Leaves(t)
    /\ csrf' = [csrf EXCEPT ![t] = session]
    /\ UNCHANGED <<slot, key, password, session, logins, online, reads, disturbed, troubles>>

\* logout, or the server restarts: sessions are in memory only.
SessionEnds ==
    /\ session # NoSession /\ logins < MaxLogins
    /\ session' = NoSession
    /\ UNCHANGED <<slot, act, flush, key, csrf, password, logins, online, applied, reads,
                   disturbed, again, troubles, reloads>>

\* login, with prepareLoginForm in the page of tab t.
Login(t) ==
    /\ session = NoSession /\ online
    /\ session' = logins + 1 /\ logins' = logins + 1
    /\ csrf' = [csrf EXCEPT ![t] = logins + 1]
    /\ key' = [key EXCEPT ![t] = password]
    /\ Leaves(t)
    /\ UNCHANGED <<slot, password, online, reads, disturbed, troubles, reloads>>

\* The password is changed, here or by an administrator.
ChangePassword ==
    /\ password < MaxPasswords
    /\ password' = password + 1
    /\ UNCHANGED <<slot, act, flush, key, csrf, session, logins, online, applied, reads,
                   disturbed, again, troubles, reloads>>

Flush(t) ==
    FlushReads(t) \/ FlushAccepted(t) \/ FlushRefused(t) \/ FlushFails(t) \/ FlushSaves(t)

Next ==
    \/ \E a \in Action :
        \/ \E t \in Tabs : Submit(a, t)
        \/ Answered(a) \/ FetchFails(a) \/ EnqueueSaves(a)
    \/ \E t \in Tabs : Flush(t) \/ Reload(t) \/ Login(t)
    \/ Network \/ SessionEnds
    \/ ChangePassword

Spec == Init /\ [][Next]_vars

\* The page polls every 15 seconds and a fetch ends; encryption ends.
Fairness ==
    /\ \A t \in Tabs : WF_vars(FlushReads(t)) /\ WF_vars(FlushSaves(t))
                       /\ WF_vars(FlushAccepted(t) \/ FlushRefused(t) \/ FlushFails(t))
    /\ \A a \in Action : WF_vars(EnqueueSaves(a)) /\ WF_vars(Answered(a) \/ FetchFails(a))

FairSpec == Spec /\ Fairness

----------------------------------------------------------------------------

Applied(a) == applied[a] > 0
Queued(a) == act[a].stage = "queued"

\* An action that the user was told is queued stays in the queue until a flush was told
\* that it succeeded, through reloads, logins, refusals and failing fetches, unless two
\* users of the queue overlapped or it could not be decrypted.
QueuedIsKept ==
    ~disturbed => \A a \in Action : Queued(a) => a \in Members(slot.items)

\* The queue holds no action twice, and its actions in the order they were enqueued,
\* even when enqueuing and flushing overlap in several tabs.
Position(a) == CHOOSE n \in 1 .. Len(reads) : reads[n] = a
QueueInOrder ==
    \A m, n \in 1 .. Len(slot.items) :
        m < n => Position(slot.items[m]) < Position(slot.items[n])

\* Nothing is applied twice unless an answer was lost, a page was left in the middle
\* of a flush, or two users of the queue overlapped.
AppliedOnce ==
    ~disturbed /\ ~again => \A a \in Action : applied[a] < 2

\* What was queued and the server would apply is flushed when the browser stays online and
\* no queued action comes from an older session, unless users of the queue overlap.  What
\* fails or is refused in front of it, once or at every try, holds it up only for a while,
\* with the exception of a JSON action that is denied for good: at that one every flush stops.
StopsFlushes(b) == IsKind(b, "json") /\ HasFate(b, "denied")
Reachable(a) ==
    \E n \in 1 .. Len(slot.items) :
        slot.items[n] = a /\ \A m \in 1 .. n : ~StopsFlushes(slot.items[m])
QueuedIsFlushed ==
    (<>[](online /\ \A b \in Members(slot.items) : Valid(b))) =>
        \A a \in Action :
            Queued(a) /\ HasFate(a, "fine") /\ Reachable(a) ~> (~Queued(a) \/ disturbed)
=============================================================================
