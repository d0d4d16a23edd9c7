------------------------------- MODULE Access -------------------------------
(***************************************************************************)
(* Who gets in: the network gate, the throttle of wrong passwords and the  *)
(* sessions (security_middleware, update_network_settings, login, logout,  *)
(* require_session in src/src/web.rs).  All of it is in memory only.        *)
(*                                                                         *)
(* A request is a slot that is handled step by step, a step for each lock   *)
(* it takes: the gate reads a clone of the settings; a login reads whether  *)
(* its name must wait, verifies the password against the data, and only     *)
(* then counts the failure or forgets the count.  Failures are counted by   *)
(* the name in lower case, accounts are found by the exact name.            *)
(***************************************************************************)
EXTENDS Naturals, FiniteSets, Functions

CONSTANTS
    Slots,          \* requests in progress
    Names,          \* the names of the accounts
    KeyOf,          \* the name in lower case that an account's failures are counted by
    Admin,          \* the account of the root administrator
    EnvMode,        \* APP_NETWORK_MODE
    Outside,        \* public addresses
    MaxFailures,    \* bound: failures counted for a name
    MaxSessions,    \* bound: logins that succeed
    MaxSettings     \* bound: updates of the network settings

Key == {KeyOf[n] : n \in Names}
Address == {"lan"} \union Outside
Mode == {"internet-test", "lan-only"}
NoName == "nobody"

ASSUME AccessAssumption ==
    /\ IsFiniteSet(Slots) /\ Slots # {}
    /\ Admin \in Names /\ NoName \notin Names /\ EnvMode \in Mode

VARIABLES
    attempts,   \* for each key: failures and the minutes it still has to wait
    sessions,   \* the sessions there are: the name each belongs to
    settings,   \* network mode and whitelist
    deleted,    \* names whose account is gone
    slot,       \* each request: where it is, its address, the name it is about, its session
    opened,     \* sessions opened so far
    updates,    \* updates of the settings so far
    closed,     \* history: sessions that were logged out
    guesses,    \* history: for each key, wrong passwords verified while it has to wait
    everSet     \* history: the settings there have been since the start

accessVars == <<attempts, sessions, settings, deleted, slot, opened, updates, closed, guesses,
                everSet>>

Free == [pc |-> "free", from |-> "lan", name |-> NoName, session |-> 0, saw |-> [mode |-> "lan-only", list |-> {}]]
EnvSettings == [mode |-> EnvMode, list |-> {}]

AccessTypeOK ==
    /\ \A k \in Key : attempts[k].failures < MaxFailures + Cardinality(Slots) /\ attempts[k].wait \in Nat
    /\ DOMAIN sessions \subseteq 1 .. MaxSessions /\ Range(sessions) \subseteq Names
    /\ settings.mode \in Mode /\ settings.list \subseteq Outside
    /\ deleted \subseteq Names \ {Admin}
    /\ \A s \in Slots :
        /\ slot[s].pc \in {"free", "in", "verify", "count", "forget", "open", "update"}
        /\ slot[s].from \in Address /\ slot[s].name \in Names \union {NoName}
        /\ slot[s].session \in 0 .. MaxSessions
    /\ opened \in 0 .. MaxSessions /\ updates \in 0 .. MaxSettings
    /\ closed \subseteq 1 .. MaxSessions

AccessStart ==
    [attempts |-> [k \in Key |-> [failures |-> 0, wait |-> 0]], sessions |-> <<>>,
     settings |-> EnvSettings, slot |-> [s \in Slots |-> Free],
     guesses |-> [k \in Key |-> 0]]

AccessInit ==
    /\ attempts = AccessStart.attempts /\ sessions = AccessStart.sessions
    /\ settings = AccessStart.settings /\ slot = AccessStart.slot
    /\ guesses = AccessStart.guesses /\ everSet = {EnvSettings}
    /\ deleted = {} /\ closed = {} /\ opened = 0 /\ updates = 0

Goes(s, pc) == slot' = [slot EXCEPT ![s].pc = pc]
Ends(s) == slot' = [slot EXCEPT ![s] = Free]

----------------------------------------------------------------------------
(* The gate. *)

IsAllowedLanIp(ip, whitelist) == ip \in whitelist \/ ip = "lan"
Admits(set, ip) == set.mode = "lan-only" => IsAllowedLanIp(ip, set.list)

\* security_middleware; what it refuses changes nothing.
Admit(s, ip) ==
    /\ slot[s].pc = "free"
    /\ Admits(settings, ip)
    /\ slot' = [slot EXCEPT ![s] = [Free EXCEPT !.pc = "in", !.from = ip, !.saw = settings]]
    /\ UNCHANGED <<attempts, sessions, settings, deleted, opened, updates, closed, guesses,
                   everSet>>

----------------------------------------------------------------------------
(* login *)

Quiet == <<settings, deleted, updates, closed, everSet>>

\* Faulty variant: only every fifth failure makes the name wait.
LoginBlockEveryFifth(failures) == IF failures % 5 = 0 THEN failures \div 5 ELSE 0

LoginBlockMinutes(failures) ==
    CASE failures <= 4 -> 0 [] failures = 5 -> 1 [] failures = 6 -> 3 [] failures = 7 -> 5
      [] failures = 8 -> 10 [] failures = 9 -> 30 [] failures = 10 -> 60 [] OTHER -> 1440

\* Faulty variant: the wait is shown only.
CheckNoWait(s, n) ==
    /\ slot[s].pc = "in"
    /\ attempts[KeyOf[n]].failures < MaxFailures
    /\ slot' = [slot EXCEPT ![s].pc = "verify", ![s].name = n]
    /\ UNCHANGED <<attempts, sessions, opened, guesses, Quiet>>

\* active_login_wait_state: while the name has to wait, the password is not looked at.
CheckWait(s, n) ==
    /\ slot[s].pc = "in"
    /\ attempts[KeyOf[n]].failures < MaxFailures
    /\ IF attempts[KeyOf[n]].wait > 0
       THEN Ends(s)
       ELSE slot' = [slot EXCEPT ![s].pc = "verify", ![s].name = n]
    /\ UNCHANGED <<attempts, sessions, opened, guesses, Quiet>>

\* The name is unknown or its account deleted, or the password is wrong.
VerifyWrong(s) ==
    /\ slot[s].pc = "verify"
    /\ Goes(s, "count")
    /\ guesses' = [guesses EXCEPT ![KeyOf[slot[s].name]] =
                        IF attempts[KeyOf[slot[s].name]].wait > 0 THEN @ + 1 ELSE @]
    /\ UNCHANGED <<attempts, sessions, opened, Quiet>>

VerifyRight(s) ==
    /\ slot[s].pc = "verify" /\ slot[s].name \notin deleted
    /\ opened < MaxSessions
    /\ Goes(s, "forget")
    /\ UNCHANGED <<attempts, sessions, opened, guesses, Quiet>>

RegisterLoginFailure(s) ==
    /\ slot[s].pc = "count"
    /\ LET k == KeyOf[slot[s].name]
           n == attempts[k].failures + 1
       IN attempts' = [attempts EXCEPT ![k] = [failures |-> n, wait |-> LoginBlockMinutes(n)]]
    /\ Ends(s)
    /\ UNCHANGED <<sessions, opened, guesses, Quiet>>

ForgetFailures(s) ==
    /\ slot[s].pc = "forget"
    /\ attempts' = [attempts EXCEPT ![KeyOf[slot[s].name]] = [failures |-> 0, wait |-> 0]]
    /\ guesses' = [guesses EXCEPT ![KeyOf[slot[s].name]] = 0]
    /\ Goes(s, "open")
    /\ UNCHANGED <<sessions, opened, Quiet>>

OpenSession(s) ==
    /\ slot[s].pc = "open" /\ opened < MaxSessions
    /\ opened' = opened + 1
    /\ sessions' = [c \in DOMAIN sessions \union {opened'} |->
                        IF c = opened' THEN slot[s].name ELSE sessions[c]]
    /\ Ends(s)
    /\ UNCHANGED <<attempts, guesses, Quiet>>

Logout(s, c) ==
    /\ slot[s].pc = "in"
    /\ sessions' = [d \in DOMAIN sessions \ {c} |-> sessions[d]]
    /\ closed' = closed \union {c}
    /\ Ends(s)
    /\ UNCHANGED <<attempts, settings, deleted, opened, updates, guesses, everSet>>

----------------------------------------------------------------------------
(* update_network_settings *)

\* require_session: two reads, of the sessions and of the users; then the role is checked.
RequireAdmin(s, c) ==
    /\ slot[s].pc = "in"
    /\ c \in DOMAIN sessions /\ sessions[c] = Admin
    /\ slot' = [slot EXCEPT ![s].pc = "update", ![s].session = c]
    /\ UNCHANGED <<attempts, sessions, opened, guesses, Quiet>>

\* Faulty variant: the clone of the session is stored back.
UpdateNetworkSettingsRenews(s, mode, whitelist) ==
    /\ slot[s].pc = "update" /\ updates < MaxSettings
    /\ settings' = [mode |-> mode, list |-> whitelist]
    /\ everSet' = everSet \union {[mode |-> mode, list |-> whitelist]}
    /\ sessions' = [c \in DOMAIN sessions \union {slot[s].session} |-> Admin]
    /\ updates' = updates + 1
    /\ Ends(s)
    /\ UNCHANGED <<attempts, deleted, opened, closed, guesses>>

UpdateNetworkSettings(s, mode, whitelist) ==
    /\ slot[s].pc = "update" /\ updates < MaxSettings
    /\ settings' = [mode |-> mode, list |-> whitelist]
    /\ everSet' = everSet \union {[mode |-> mode, list |-> whitelist]}
    /\ updates' = updates + 1
    /\ Ends(s)
    /\ UNCHANGED <<attempts, sessions, deleted, opened, closed, guesses>>

----------------------------------------------------------------------------
(* Around the requests. *)

\* Time goes on to the end of the wait that ends next, or by half of it.
MinutesPass ==
    \E k \in Key : \E d \in {attempts[k].wait, attempts[k].wait \div 2} :
        /\ d > 0
        /\ \A j \in Key : attempts[j].wait > 0 => d <= attempts[j].wait
        /\ attempts' = [j \in Key |-> [attempts[j] EXCEPT !.wait = IF @ > d THEN @ - d ELSE 0]]
        /\ guesses' = [j \in Key |-> IF attempts'[j].wait = 0 THEN 0 ELSE guesses[j]]
        /\ UNCHANGED <<sessions, slot, opened, Quiet>>

\* delete_tree_node in OrgTree: the account goes, its sessions stay.
DeleteAccount(n) ==
    /\ n \in Names \ (deleted \union {Admin})
    /\ deleted' = deleted \union {n}
    /\ UNCHANGED <<attempts, sessions, settings, slot, opened, updates, closed, guesses, everSet>>

AccessStep ==
    \/ \E s \in Slots :
        \/ \E ip \in Address : Admit(s, ip)
        \/ \E n \in Names : CheckWait(s, n)
        \/ VerifyWrong(s) \/ VerifyRight(s) \/ RegisterLoginFailure(s) \/ ForgetFailures(s)
        \/ OpenSession(s)
        \/ \E c \in DOMAIN sessions : Logout(s, c) \/ RequireAdmin(s, c)
        \/ \E m \in Mode, list \in SUBSET Outside : UpdateNetworkSettings(s, m, list)
    \/ MinutesPass
    \/ \E n \in Names : DeleteAccount(n)

\* All of it is gone when the process ends.
AccessLost ==
    /\ attempts' = AccessStart.attempts /\ sessions' = AccessStart.sessions
    /\ settings' = AccessStart.settings /\ slot' = AccessStart.slot
    /\ guesses' = AccessStart.guesses /\ everSet' = {EnvSettings}
    /\ UNCHANGED <<deleted, opened, updates, closed>>

----------------------------------------------------------------------------
(* Properties. *)

\* While a name has to wait, no more wrong passwords are verified for it than there were other
\* requests already past the check when the wait began, however the waits are prolonged.
GuessesBounded == \A k \in Key : guesses[k] < Cardinality(Slots)

\* Only time, a right password or a new process shortens a wait: failures that were verified
\* side by side and counted late, in any order, never do.
WaitGrows ==
    [][\A k \in Key :
        attempts'[k].wait < attempts[k].wait =>
            \/ MinutesPass \/ AccessLost \/ \E s \in Slots : ForgetFailures(s)]_accessVars

\* A request is admitted, also when settings are updated while it passes, by a mode and a
\* whitelist that were in force together; and a session that was logged out is never valid
\* again, whatever request of it was under way.
AccessIsCurrent ==
    /\ \A s \in Slots :
        slot[s].pc # "free" => slot[s].saw \in everSet /\ Admits(slot[s].saw, slot[s].from)
    /\ closed \intersect DOMAIN sessions = {}
=============================================================================
