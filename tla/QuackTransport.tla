--------------------------- MODULE QuackTransport ---------------------------
(***************************************************************************)
(* HTTPTransport.Send: one Quack message posted to the addresses the host  *)
(* resolves to, one after the other, until one answers.  The network and   *)
(* the server are external; what matters of them is how far an attempt got *)
(* and which error net/http makes of it, because isFallthroughErr decides  *)
(* on the error alone whether the next address is tried.                   *)
(***************************************************************************)
EXTENDS FiniteSets, Naturals, Sequences

CONSTANTS
  Addresses,   \* addresses the host may resolve to
  Faults,      \* how attempts may end besides an answer, see AllFaults
  MaxSends     \* bound: messages sent

(***************************************************************************)
(* dial     no TCP connection: refused, no route, dial timeout; net/http   *)
(*          reports a *net.OpError                                         *)
(* reset    an established connection breaks while the request is written  *)
(*          or the reply awaited; also a *net.OpError                      *)
(* timeout  the client's Timeout or the context ends while the reply is    *)
(*          awaited, or the server hangs up: no *net.OpError               *)
(* garbled  a reply that is cut off, not 2xx, or does not decode           *)
(* lookup   the host does not resolve                                      *)
(***************************************************************************)
AllFaults == {"dial", "reset", "timeout", "garbled", "lookup"}

ASSUME ConstantsAssumption ==
  /\ IsFiniteSet(Addresses) /\ Addresses # {}
  /\ Faults \subseteq AllFaults
  /\ MaxSends \in Nat

VARIABLES
  tls,         \* the URI asks for https
  pc,          \* "idle", "try" or "posted"
  endpoints,   \* the candidates of this Send
  next,        \* the position of the one being tried
  outcome,     \* what the last Send returned, "none" before the first
  sends,       \* messages sent so far
  accepted,    \* history: connections accepted for this message
  resets,      \* history: of these, how many broke with a *net.OpError
  runs,        \* history: times the server has run this message
  tried        \* history: addresses tried for this message

history == <<accepted, resets, runs, tried>>
vars == <<tls, pc, endpoints, next, outcome, sends, history>>

\* Lists of addresses without repetition.
Lists(lengths) ==
  {e \in UNION {[1..n -> Addresses] : n \in lengths} :
     \A i, j \in DOMAIN e : e[i] = e[j] => i = j}

\* What endpointCandidates may return, in any order: the resolver chooses.
\* For https it is the hostname alone, which dials one address.
Candidates == Lists(1..(IF tls THEN 1 ELSE Cardinality(Addresses)))

Outcomes == {"none", "reply", "serverError", "error"}

TypeOK ==
  /\ tls \in BOOLEAN
  /\ pc \in {"idle", "try", "posted"}
  /\ endpoints \in Candidates \union {<<>>}
  /\ endpoints = <<>> \/ next \in DOMAIN endpoints
  /\ outcome \in Outcomes
  /\ sends \in 0..MaxSends
  /\ accepted \in Nat
  /\ resets \in Nat
  /\ runs \in Nat
  /\ tried \subseteq Addresses

Init ==
  /\ tls \in BOOLEAN
  /\ pc = "idle"
  /\ endpoints = <<>>
  /\ next = 1
  /\ outcome = "none"
  /\ sends = 0
  /\ accepted = 0
  /\ resets = 0
  /\ runs = 0
  /\ tried = {}
----------------------------------------------------------------------------
Return(o) ==
  /\ pc' = "idle"
  /\ outcome' = o

(***************************************************************************)
(* Slips, to see that the properties notice; no specification uses them.   *)
(***************************************************************************)
SlipFallthrough(fault) == fault \in {"dial", "reset", "timeout"}

SlipFallthroughNever(fault) == fault = "reset"

\* isFallthroughErr: any *net.OpError sends the message to the next address.
Fallthrough(fault) == fault \in {"dial", "reset"}

SlipWrapsAround(fault) ==        \* begins again after the last address
  /\ fault \in Faults
  /\ IF Fallthrough(fault)
       THEN /\ next' = IF next < Len(endpoints) THEN next + 1 ELSE 1
            /\ pc' = "try"
            /\ UNCHANGED outcome
       ELSE /\ Return("error")
            /\ UNCHANGED next
----------------------------------------------------------------------------
\* Send starts: encode, then look the host up, every time anew.
Send ==
  /\ pc = "idle"
  /\ sends < MaxSends
  /\ sends' = sends + 1
  /\ accepted' = 0
  /\ resets' = 0
  /\ runs' = 0
  /\ tried' = {}
  /\ UNCHANGED tls
  /\ next' = 1
  /\ \/ /\ endpoints' \in Candidates
        /\ pc' = "try"
        /\ UNCHANGED outcome
     \/ /\ "lookup" \in Faults /\ ~tls
        /\ endpoints' = <<>>
        /\ Return("error")

\* httpClient.Do failed: the next address, the error, or, after the last
\* address, "no endpoints connected".
Failed(fault) ==
  /\ fault \in Faults
  /\ IF Fallthrough(fault) /\ next < Len(endpoints)
       THEN /\ next' = next + 1
            /\ pc' = "try"
            /\ UNCHANGED outcome
       ELSE /\ Return("error")
            /\ UNCHANGED next

DialFails ==
  /\ pc = "try"
  /\ tried' = tried \union {endpoints[next]}
  /\ Failed("dial")
  /\ UNCHANGED <<tls, endpoints, sends, accepted, resets, runs>>

Post ==
  /\ pc = "try"
  /\ pc' = "posted"
  /\ tried' = tried \union {endpoints[next]}
  /\ accepted' = accepted + 1
  /\ UNCHANGED <<tls, endpoints, next, outcome, sends, resets, runs>>

\* The server runs the message and its reply is read and decoded.
Answered ==
  /\ pc = "posted"
  /\ runs' = runs + 1
  /\ \/ Return("reply")
     \/ Return("serverError")
     \/ "garbled" \in Faults /\ Return("error")
  /\ UNCHANGED <<tls, endpoints, next, sends, accepted, resets, tried>>

\* The exchange breaks off after the connection was accepted; the server
\* may or may not have run the message by then.
BreaksOff ==
  /\ pc = "posted"
  /\ \/ Failed("reset") /\ resets' = resets + 1
     \/ Failed("timeout") /\ UNCHANGED resets
  /\ runs' \in {runs, runs + 1}
  /\ UNCHANGED <<tls, endpoints, sends, accepted, tried>>

Attempt == DialFails \/ Post \/ Answered \/ BreaksOff

Next == Send \/ Attempt

Spec == Init /\ [][Next]_vars

\* Each attempt ends: dialling has its own timeout, http.Client.Timeout
\* covers the rest.
FairSpec == Spec /\ WF_vars(Attempt)
----------------------------------------------------------------------------
(***************************************************************************)
(* Properties.                                                             *)
(***************************************************************************)

\* Sending is not idempotent (INSERT, COMMIT, FETCH).  A message is posted
\* again only after a connection that had been accepted was reset, and over
\* https never; a timeout, a bad reply or the server's error is final.  (The
\* comment on HTTPTransport, http.go:29-31, knows no exception: "each address
\* is tried in order until one accepts the TCP connection".)
RepeatsNeedReset == accepted <= 1 + (IF tls THEN 0 ELSE resets)

\* A Send that returns a reply, or the server's error, has run the message,
\* and exactly once unless an earlier connection was reset.
RepliesAreReal ==
  pc = "idle" /\ outcome \in {"reply", "serverError"} =>
    runs \in 1..(1 + resets)

\* Send gives up for want of a connection only when every address the host
\* resolved to has been tried.
EveryAddressTried ==
  pc = "idle" /\ outcome = "error" /\ accepted = 0 =>
    \A i \in DOMAIN endpoints : endpoints[i] \in tried

\* Send returns.
SendReturns == pc # "idle" ~> pc = "idle"
============================================================================
