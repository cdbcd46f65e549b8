------------------------------ MODULE RemoteProxy ------------------------------
(***************************************************************************)
(* Remote proxy sessions (server/remote-proxy.ts).  A session has a local  *)
(* listener of its own that forwards requests to another server.  A timer  *)
(* looks every minute for sessions that were not used for half an hour and *)
(* closes them one after the other.                                        *)
(*                                                                         *)
(* Closing a listener waits for the responses it is sending, which may     *)
(* never end; each tick of the timer starts a loop of its own, so several  *)
(* of them may be under way.  Time is seen through what the loops compare: *)
(* whether a session was used in the last half hour, and, for each loop,   *)
(* whether it had been idle that long when the loop began.                 *)
(***************************************************************************)
EXTENDS Naturals, Sequences, FiniteSets, SequencesExt

CONSTANTS
  Session, \* sessions that may be created
  Sweep,   \* loops of cleanupExpiredSessions
  None

VARIABLES
  listener,  \* the app of each session
  sessions,  \* RemoteProxySessionManager.sessions
  activated, \* sessions whose bootstrap token was exchanged
  recent,    \* sessions accessed in the last SESSION_IDLE_TTL_MS
  busy,      \* sessions that are sending a response
  sweeps     \* what each loop has left, and the close it awaits

vars == <<listener, sessions, activated, recent, busy, sweeps>>

(* todo: what is left of Array.from(sessions); idle: the sessions that      *)
(* `now - lastAccessAt > SESSION_IDLE_TTL_MS` holds of, with the loop's now *)
SweepState ==
  [todo : Seq(Session), idle : SUBSET Session, awaits : Session \cup {None}]
NoSweep == [todo |-> <<>>, idle |-> {}, awaits |-> None]

TypeOK ==
  /\ listener \in [Session -> {"none", "listening", "open", "closing", "closed"}]
  /\ sessions \subseteq Session /\ activated \subseteq Session
  /\ recent \subseteq Session /\ busy \subseteq Session
  /\ sweeps \in [Sweep -> SweepState]

Init ==
  /\ listener = [s \in Session |-> "none"]
  /\ sessions = {} /\ activated = {} /\ recent = {} /\ busy = {}
  /\ sweeps = [w \in Sweep |-> NoSweep]

\* Mutant: a loop compares the times it has read when it began.
accessed_NotInLoops(s) == recent' = recent \cup {s} /\ UNCHANGED sweeps

(* An access sets lastAccessAt: s is recent, and no loop's now is later     *)
accessed(s) ==
  /\ recent' = recent \cup {s}
  /\ sweeps' = [w \in Sweep |-> [sweeps[w] EXCEPT !.idle = @ \ {s}]]

createSession(s) ==
  /\ listener[s] = "none"
  /\ listener' = [listener EXCEPT ![s] = "listening"]
  /\ UNCHANGED <<sessions, activated, recent, busy, sweeps>>

listens(s) ==
  /\ listener[s] = "listening"
  /\ listener' = [listener EXCEPT ![s] = "open"]
  /\ sessions' = sessions \cup {s}
  /\ accessed(s)
  /\ UNCHANGED <<activated, busy>>

(* The token is not used up by its exchange                                 *)
exchangeToken(s) ==
  /\ listener[s] = "open"
  /\ activated' = activated \cup {s}
  /\ accessed(s)
  /\ UNCHANGED <<listener, sessions, busy>>

proxyRequest(s) ==
  /\ listener[s] = "open" /\ s \in activated
  /\ busy' = busy \cup {s}
  /\ accessed(s)
  /\ UNCHANGED <<listener, sessions, activated>>

responseEnds(s) ==
  /\ s \in busy
  /\ busy' = busy \ {s}
  /\ UNCHANGED <<listener, sessions, activated, recent, sweeps>>

(* Half an hour without an access                                           *)
idles(s) ==
  /\ s \in sessions \cap recent
  /\ recent' = recent \ {s}
  /\ UNCHANGED <<listener, sessions, activated, busy, sweeps>>

(* disposeSession up to the await of app.close(); what the session kept is  *)
(* forgotten with it                                                        *)
disposed(s) ==
  /\ sessions' = sessions \ {s}
  /\ activated' = activated \ {s} /\ recent' = recent \ {s}
  /\ listener' = [listener EXCEPT ![s] = "closing"]

deleteSession(s) ==
  /\ s \in sessions
  /\ disposed(s)
  /\ UNCHANGED <<busy, sweeps>>

closes(s) ==
  /\ listener[s] = "closing" /\ s \notin busy
  /\ listener' = [listener EXCEPT ![s] = "closed"]
  /\ UNCHANGED <<sessions, activated, recent, busy, sweeps>>

(* A loop goes on to the next close it awaits, over sessions that are not    *)
(* idle and sessions that are gone                                          *)
goesOn(w, todo, idle) ==
  LET next == {n \in DOMAIN todo : todo[n] \in sessions \cap idle}
      first == CHOOSE n \in next : \A k \in next : n <= k
  IN
  IF next = {}
  THEN /\ sweeps' = [sweeps EXCEPT ![w] = NoSweep]
       /\ UNCHANGED <<sessions, activated, recent, listener>>
  ELSE /\ sweeps' = [sweeps EXCEPT ![w] =
            [todo |-> SubSeq(todo, first + 1, Len(todo)), idle |-> idle, awaits |-> todo[first]]]
       /\ disposed(todo[first])

\* Mutant: a tick is skipped while a loop is under way.
mayTick_OneAtATime(w) == \A v \in Sweep : sweeps[v] = NoSweep

mayTick(w) == sweeps[w] = NoSweep /\ w = CHOOSE v \in Sweep : sweeps[v] = NoSweep

(* The loops bear any names; the first free one is taken.                   *)
(* A tick that finds no idle session changes nothing and is left out.       *)
(* Sessions are listed in the order of their creation, here in any order.   *)
cleanupTick(w) ==
  /\ mayTick(w) /\ sessions \ recent # {}
  /\ \E order \in SetToSeqs(sessions) : goesOn(w, order, sessions \ recent)
  /\ UNCHANGED busy

cleanupExpiredSessions(w) ==
  /\ sweeps[w] # NoSweep /\ listener[sweeps[w].awaits] = "closed"
  /\ goesOn(w, sweeps[w].todo, sweeps[w].idle)
  /\ UNCHANGED busy

Next ==
  \/ \E s \in Session :
       \/ createSession(s) \/ listens(s) \/ exchangeToken(s) \/ proxyRequest(s)
       \/ responseEnds(s) \/ idles(s) \/ deleteSession(s) \/ closes(s)
  \/ \E w \in Sweep : cleanupTick(w) \/ cleanupExpiredSessions(w)

(* The timer fires and the loop goes on; a response need not end.           *)
Fairness ==
  /\ \A w \in Sweep : WF_vars(cleanupExpiredSessions(w))
  /\ WF_vars(\E w \in Sweep : cleanupTick(w))
  /\ \A s \in Session : WF_vars(closes(s))

Spec == Init /\ [][Next]_vars /\ Fairness

-----------------------------------------------------------------------------
(* A loop closes no session that was used in the last half hour, however    *)
(* long the loop has been waiting: the comparison with the loop's own now   *)
(* errs on the side of keeping (cleanupExpiredSessions).                    *)
InUseIsKept ==
  [][\A s \in sessions \ sessions' : s \in recent => \E x \in Session : deleteSession(x)]_vars

(* An idle session is closed in the end, also when the close of another one *)
(* never ends because of a response that does not: the next tick does not   *)
(* wait for the loop of the last one.                                       *)
IdleIsDisposed == \A s \in Session : ~<>[](s \in sessions /\ s \notin recent)

=============================================================================
