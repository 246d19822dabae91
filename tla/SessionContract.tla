--------------------------- MODULE SessionContract ---------------------------
(***************************************************************************)
(* What a HookSession promises to those who listen to it (HookManager, and *)
(* through it BridgeManager), stated over what they can see: the account   *)
(* announced last, the session's combined health and the events of one     *)
(* turn.  HookSession implements it; BridgeManager relies on it.           *)
(***************************************************************************)
EXTENDS Sequences

CONSTANTS Uins, NoUin

VARIABLES
    login,      \* the account announced and not revoked since
    ok,         \* receiveHealthy
    out         \* the events of the last turn

contractVars == <<login, ok, out>>

Init ==
    /\ login = NoUin
    /\ ok = TRUE
    /\ out = <<>>

\* 'login': always news, never a repetition.
Announce(u) ==
    /\ login # u
    /\ login' = u
    /\ ok' \in {ok, TRUE}
    /\ out' = <<[ev |-> "login", uin |-> u]>>

\* 'disconnected': only from a session that had announced a login.
Revoke ==
    /\ login # NoUin
    /\ login' = NoUin
    /\ ok' \in BOOLEAN
    /\ out' = <<[ev |-> "disconnected"]>>

\* A packet is handed on only for an announced login; when it proves that
\* the receive path is back, that is reported first.
Forward(u) ==
    /\ login # NoUin
    /\ UNCHANGED login
    /\ \/ ok' \in {ok, TRUE} /\ out' = <<[ev |-> "packet", uin |-> u]>>
       \/ /\ ~ok /\ ok'
          /\ out' = <<[ev |-> "health", ok |-> TRUE], [ev |-> "packet", uin |-> u]>>

\* 'receive-health-changed'
Report(h) ==
    /\ ok # h
    /\ ok' = h
    /\ out' = <<[ev |-> "health", ok |-> h]>>
    /\ UNCHANGED login

\* A turn without events.  Health that is reset silently is reset to good.
Quiet ==
    /\ out' = <<>>
    /\ ok' \in {ok, TRUE}
    /\ UNCHANGED login

Next ==
    \/ \E u \in Uins : Announce(u)
    \/ Revoke
    \/ \E u \in Uins : Forward(u)
    \/ \E h \in BOOLEAN : Report(h)
    \/ Quiet

Spec == Init /\ [][Next]_contractVars
=============================================================================
