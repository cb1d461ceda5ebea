------------------------------- MODULE Egress -------------------------------
(***************************************************************************)
(* One request of the HTTP connector, from the tool router's policy check  *)
(* through every redirect of the safe client: which origin each hop goes   *)
(* to, which address it connects to, and what it carries.                  *)
(*                                                                         *)
(* The name service may answer differently at every look.  An address is   *)
(* its class: "loopback" stands for every restricted range.  The headers   *)
(* of the call that are not among the kept ones (the credential, those of  *)
(* the model) are one flag, as is the body.  The deadline, a cancellation  *)
(* and every error of the connection end the call.  MaxAnswers bounds the  *)
(* changes of the name service.                                            *)
(***************************************************************************)
EXTENDS Naturals, Sequences

CONSTANTS
  Origins,        \* the origins a request or a redirect may name
  Literals,       \* those whose host is a restricted address
  Proxy,          \* the origin of cfg.HTTP_EGRESS_PROXY_URL
  MaxRedirects,   \* cfg.HTTP_MAX_REDIRECTS
  MaxAnswers      \* changes of the name service

ASSUME EgressAssumption ==
  /\ Literals \subseteq Origins /\ Proxy \notin Origins
  /\ MaxRedirects \in Nat /\ MaxAnswers \in Nat

VARIABLES
  egress,    \* the policy: allowed origins ({} allows all), "none" or a kind of proxy
  granted,   \* privateOrigins: the origin of the call, if a grant names it exactly
  answers,   \* the classes of the addresses a name resolves to now
  changes,   \* how often they have changed
  request,   \* the call: where it is, and the hop it prepares
  hops       \* the hops that have left, in order

egressVars == <<egress, granted, answers, changes, request, hops>>

Classes == {"public", "private", "loopback"}
Answers == {{"public"}, {"private"}, {"loopback"}, {"public", "loopback"}}
Named == (Origins \ Literals) \union {Proxy}
Methods == {"GET", "POST", "PUT"}

\* The router's request: the model's headers but the reserved ones, the credential
\* over them, and the body of a mutation.
NewRequest(o, m) ==
  [at |-> "validating", origin |-> o, method |-> m, body |-> m # "GET",
   own |-> TRUE, address |-> "public", redirects |-> 0]

\* The patterns of usable grants that are the resource itself.
PrivateOrigins(o) == {{}, {o}}

EgressInit ==
  /\ egress \in [allowed : {{}} \union {Origins \ {o} : o \in Origins},
                 proxy : {"none", "https", "http"}]
  /\ \E o \in Origins, m \in Methods :
       /\ request = NewRequest(o, m)
       /\ granted \in PrivateOrigins(o)
  /\ answers = [n \in Origins \union {Proxy} |->
                  IF n \in Named THEN {"public"} ELSE {"loopback"}]
  /\ changes = 0
  /\ hops = <<>>

\* The name service changes an answer.
NameChanges(n, a) ==
  /\ changes < MaxAnswers
  /\ answers' = [answers EXCEPT ![n] = a]
  /\ changes' = changes + 1
  /\ UNCHANGED <<egress, granted, request, hops>>
-----------------------------------------------------------------------------
(* What a hop may do *)

\* parseTarget and matchesOrigin: the origin is on the allowlist, if there is one.
OriginAllowed(o) == egress.allowed = {} \/ o \in egress.allowed

\* assertAddressAllowed: a public address; with the exact grant an ordinary
\* private one, and the restricted address that the origin itself names.
AddressAllowed(o, a, private) ==
  \/ a = "public"
  \/ private /\ (a = "private" \/ o \in Literals)

End(outcome) == request' = [request EXCEPT !.at = outcome]
Prepared(at, a) == request' = [request EXCEPT !.at = at, !.address = a]
Unsent == UNCHANGED <<egress, granted, answers, changes, hops>>

\* checkUrlPolicy, before a receipt exists: an obvious private literal needs the
\* grant.  parseTarget then looks at the allowlist.
ValidateUrl ==
  /\ request.at = "validating"
  /\ IF request.origin \in Literals \ granted \/ ~OriginAllowed(request.origin)
     THEN End("refused") ELSE End("resolving")
  /\ Unsent

\* resolveTarget: every answer must be allowed; the first is pinned.
ResolveTarget ==
  LET o == request.origin IN
  /\ request.at = "resolving"
  /\ IF \A a \in answers[o] : AddressAllowed(o, a, o \in granted)
     THEN \E a \in answers[o] :
            Prepared(IF egress.proxy = "none" THEN "sending" ELSE "proxying", a)
     ELSE End("refused")
  /\ Unsent

\* The proxy's own address: private is fine, plaintext only on the loopback.
ResolveProxy ==
  /\ request.at = "proxying"
  /\ IF \A a \in answers[Proxy] :
          IF egress.proxy = "http" THEN a = "loopback" ELSE AddressAllowed(Proxy, a, TRUE)
     THEN End("sending") ELSE End("refused")
  /\ Unsent

Hop(a) == [origin |-> request.origin, address |-> a, method |-> request.method,
           body |-> request.body, own |-> request.own]

\* Faulty variant: the connection looks the name up again.
ConnectByName ==
  /\ request.at = "sending"
  /\ \E a \in answers[request.origin] : hops' = Append(hops, Hop(a))
  /\ End("waiting")
  /\ UNCHANGED <<egress, granted, answers, changes>>

\* requestOnce connects to the pinned address, or has the proxy do so.
SendHop ==
  /\ request.at = "sending"
  /\ hops' = Append(hops, Hop(request.address))
  /\ End("waiting")
  /\ UNCHANGED <<egress, granted, answers, changes>>
-----------------------------------------------------------------------------
(* Its answer *)

Answered ==
  /\ request.at = "waiting"
  /\ End("answered")
  /\ Unsent

\* The router refuses an answer with too long a transaction id or with
\* the credential in it.
AnswerRefused ==
  /\ request.at = "answered"
  /\ End("refused")
  /\ Unsent

\* A 303, and a 301 or 302 of a POST, become a GET; a 307 or 308 does not.
TurnsIntoGet(kind) ==
  \/ kind = "see-other"
  \/ kind = "moved" /\ request.method = "POST"

\* Another origin gets the harmless headers only, and so does every later hop.
FollowRedirect(o, kind) ==
  LET get == TurnsIntoGet(kind) IN
  /\ request.at = "waiting" /\ request.redirects < MaxRedirects /\ OriginAllowed(o)
  /\ request' = [request EXCEPT
       !.at = "resolving", !.origin = o, !.redirects = @ + 1,
       !.own = @ /\ o = request.origin,
       !.method = IF get THEN "GET" ELSE @, !.body = @ /\ ~get]
  /\ Unsent

RefuseRedirect(o) ==
  /\ request.at = "waiting" /\ (request.redirects = MaxRedirects \/ ~OriginAllowed(o))
  /\ End("refused")
  /\ Unsent

\* The deadline passes, the lease is lost, or the connection fails.
CallFails ==
  /\ request.at \in {"resolving", "proxying", "sending", "waiting"}
  /\ End("failed")
  /\ Unsent

EgressNext ==
  \/ \E n \in Named, a \in Answers : NameChanges(n, a)
  \/ ValidateUrl \/ ResolveTarget \/ ResolveProxy \/ SendHop \/ Answered
  \/ AnswerRefused \/ CallFails
  \/ \E o \in Origins :
       \/ RefuseRedirect(o)
       \/ \E kind \in {"see-other", "moved", "kept"} : FollowRedirect(o, kind)

EgressSpec == EgressInit /\ [][EgressNext]_egressVars
-----------------------------------------------------------------------------
(* Properties *)

\* The type of the state.
EgressTypeOK ==
  /\ granted \subseteq Origins
  /\ answers \in [Origins \union {Proxy} -> SUBSET Classes]
  /\ changes \in 0..MaxAnswers
  /\ request.at \in {"validating", "resolving", "proxying", "sending", "waiting",
                    "answered", "refused", "failed"}
  /\ request.redirects \in 0..MaxRedirects
  /\ Len(hops) <= MaxRedirects + 1

\* Whatever the name service answers in between, and however the call is sent
\* on: every hop goes to an allowed origin, at an address that is allowed for
\* that very origin; the credential goes to no origin but the first, and not
\* back to it after a detour; no body goes with another method than its own
\* ("authoritative all-answer DNS validation and pins the selected address",
\* toolRouter.ts:875-879; redirectHeaders, safeHttp.ts:194-203).
EveryHopIsAuthorized ==
  \A i \in DOMAIN hops :
    /\ OriginAllowed(hops[i].origin)
    /\ AddressAllowed(hops[i].origin, hops[i].address, hops[i].origin \in granted)
    /\ hops[i].own => \A j \in 1..i : hops[j].origin = hops[1].origin
    /\ hops[i].body => \A j \in 1..i : hops[j].method = hops[1].method /\ hops[j].body
=============================================================================
