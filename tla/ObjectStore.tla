----------------------------- MODULE ObjectStore -----------------------------
(***************************************************************************)
(* The object store's request loop, TosObjectStore.request, under its most *)
(* demanding user: the live conformance probe, which writes two objects,   *)
(* reads them, deletes them and, if all went well, gives evidence that it  *)
(* left nothing in the bucket.                                             *)
(*                                                                         *)
(* The probe is a plan of requests.  Bodies are left out: an answer is     *)
(* what was written, or it is refused.  A request whose answer was given   *)
(* up may be applied, may be applied later or never.  MaxPuts is the       *)
(* TOS_MAX_ATTEMPTS of the configuration.                                  *)
(***************************************************************************)
EXTENDS Naturals, Sequences, FiniteSets

CONSTANT MaxPuts

ASSUME ObjectStoreAssumption == MaxPuts \in Nat \ {0}

VARIABLES
  stored,      \* what exists: the bucket and the probe's objects
  abandoned,   \* requests whose answer was given up, and may still be applied
  landedLate,  \* a PUT of them was applied after the probe saw its key absent
  probe        \* the request it makes, its try, what was answered, the outcome

storeVars == <<stored, abandoned, landedLate, probe>>

\* The probe's keys: written directly, and through a presigned URL.
Objects == {"direct", "presigned"}

\* fetchPresigned: a presigned URL is fetched once.
FetchTries == 1

\* The probe's requests in order.
Plan ==
  LET Request(stage, method, key, tries) ==
        [stage |-> stage, method |-> method, key |-> key, tries |-> tries]
  IN <<Request("find", "HEAD", "bucket", MaxPuts), Request("create", "PUT", "bucket", MaxPuts),
       Request("confirm", "HEAD", "bucket", MaxPuts),
       Request("use", "PUT", "direct", MaxPuts), Request("use", "GET", "direct", MaxPuts),
       Request("use", "HEAD", "direct", MaxPuts), Request("use", "GET", "direct", FetchTries),
       Request("use", "PUT", "presigned", FetchTries),
       Request("use", "GET", "presigned", MaxPuts),
       Request("delete", "DELETE", "direct", MaxPuts),
       Request("delete", "DELETE", "presigned", MaxPuts),
       Request("check", "HEAD", "direct", MaxPuts),
       Request("check", "HEAD", "presigned", MaxPuts),
       Request("last", "GET", "direct", MaxPuts)>>

Places(stage) == {i \in DOMAIN Plan : Plan[i].stage = stage}
FirstOf(stage) == CHOOSE i \in Places(stage) : \A j \in Places(stage) : i <= j

ObjectStoreInit ==
  /\ stored \in SUBSET {"bucket"}
  /\ abandoned = {}
  /\ landedLate = FALSE
  /\ probe = [at |-> 1, try |-> 1, answered |-> {}, failed |-> FALSE, kept |-> 0,
              outcome |-> "none"]
-----------------------------------------------------------------------------
(* Where the probe goes from a request *)

Current == Plan[probe.at]
Probing == probe.outcome = "none"
Outcome(o) == [probe EXCEPT !.outcome = o]
Evidence == Outcome("evidence")
GoToRequest(i) == [probe EXCEPT !.at = i, !.try = 1]

\* Past the deletes only if both were answered; past the checks only if the
\* use of the objects had not failed.
Onwards ==
  IF probe.at + 1 = FirstOf("check") /\ probe.kept > 0 THEN Outcome("cleanup_failed")
  ELSE IF probe.at + 1 = FirstOf("last") /\ probe.failed THEN Outcome("use_failed")
  ELSE GoToRequest(probe.at + 1)

\* A 2xx: an object that is still there where none should be ends the probe.
Answered2xx ==
  CASE Current.stage = "find" -> GoToRequest(FirstOf("confirm"))
    [] Current.stage \in {"check", "last"} -> Outcome("left_behind")
    [] OTHER -> [Onwards EXCEPT !.answered = @ \cup {probe.at}]

\* Faulty variant: a failure of the use ends the probe before its cleanup.
ThrewAtOnce ==
  CASE Current.stage = "use" -> Outcome("use_failed")
    [] Current.stage = "delete" ->
         IF probe.at + 1 = FirstOf("check") THEN Outcome("cleanup_failed")
         ELSE [GoToRequest(probe.at + 1) EXCEPT !.kept = @ + 1]
    [] OTHER -> Outcome("failed")

\* The request threw: a failed use is remembered and cleaned up after, a failed
\* delete is counted and the other key deleted too.
Threw ==
  CASE Current.stage = "use" ->
         [GoToRequest(FirstOf("delete")) EXCEPT !.failed = TRUE]
    [] Current.stage = "delete" ->
         IF probe.at + 1 = FirstOf("check") THEN Outcome("cleanup_failed")
         ELSE [GoToRequest(probe.at + 1) EXCEPT !.kept = @ + 1]
    [] OTHER -> Outcome("failed")
-----------------------------------------------------------------------------
(* TosObjectStore.request, and fetchPresigned *)

Applied(r, s) ==
  CASE r.method = "PUT" -> s \cup {r.key}
    [] r.method = "DELETE" -> s \ {r.key}
    [] OTHER -> s

RequestSucceeds ==
  /\ Probing
  /\ Current.key # "bucket" => "bucket" \in stored
  /\ Current.method \in {"HEAD", "GET"} => Current.key \in stored
  /\ Current.method = "PUT" /\ Current.key = "bucket" => "bucket" \notin stored
  /\ stored' = Applied(Current, stored)
  /\ probe' = Answered2xx
  /\ UNCHANGED <<abandoned, landedLate>>

\* 404 is an answer to exists, to bucketExists, and to the last GET.
RequestFindsNothing ==
  /\ Probing /\ Current.method \in {"HEAD", "GET"} /\ Current.key \notin stored
  /\ probe' = CASE Current.stage \in {"find", "check"} -> Onwards
                [] Current.stage = "last" -> Evidence
                [] OTHER -> Threw
  /\ UNCHANGED <<stored, abandoned, landedLate>>

\* A status that is not retried (responseError).
RequestIsRefused ==
  /\ Probing
  /\ probe' = Threw
  /\ UNCHANGED <<stored, abandoned, landedLate>>

\* Past the retries, the body of a GET is too large, cut off (readBounded), or
\* not what was put (assertPayload).
BodyIsRefused ==
  /\ Probing /\ Current.method = "GET" /\ Current.tries = MaxPuts /\ Current.key \in stored
  /\ probe' = Threw
  /\ UNCHANGED <<stored, abandoned, landedLate>>

\* So is that of the presigned GET (readExpectedPayload).
PayloadIsRefused ==
  /\ Probing /\ Current.method = "GET" /\ Current.tries = FetchTries /\ Current.key \in stored
  /\ probe' = Threw
  /\ UNCHANGED <<stored, abandoned, landedLate>>

\* A retryable status, no connection, or the timeout: the next try, or it throws.
RequestIsLost ==
  /\ Probing
  /\ \/ stored' = Applied(Current, stored) /\ UNCHANGED abandoned
     \/ /\ abandoned' = abandoned \cup
             {[method |-> m, key |-> Current.key, try |-> probe.try] :
                m \in {Current.method} \ {"HEAD", "GET"}}
        /\ UNCHANGED stored
  /\ probe' = IF probe.try < Current.tries THEN [probe EXCEPT !.try = @ + 1] ELSE Threw
  /\ UNCHANGED landedLate

\* The probe is past its check of the key.
SeenAbsent(key) ==
  \E i \in Places("check") :
    Plan[i].key = key /\ (probe.at > i \/ (probe.at = i /\ ~Probing))

\* The store applies, or drops, what was abandoned.
AbandonedLands(r) ==
  /\ r \in abandoned
  /\ abandoned' = abandoned \ {r}
  /\ stored' = IF r.key = "bucket" \/ "bucket" \in stored THEN Applied(r, stored) ELSE stored
  /\ landedLate' = (landedLate \/ (r.method = "PUT" /\ SeenAbsent(r.key)))
  /\ UNCHANGED probe

AbandonedIsDropped(r) ==
  /\ r \in abandoned
  /\ abandoned' = abandoned \ {r}
  /\ UNCHANGED <<stored, landedLate, probe>>

ObjectStoreNext ==
  \/ RequestSucceeds \/ RequestFindsNothing \/ RequestIsRefused \/ BodyIsRefused
  \/ PayloadIsRefused \/ RequestIsLost
  \/ \E r \in abandoned : AbandonedLands(r) \/ AbandonedIsDropped(r)

ObjectStoreSpec == ObjectStoreInit /\ [][ObjectStoreNext]_storeVars
-----------------------------------------------------------------------------
(* Properties *)

\* The type of the state.
ObjectStoreTypeOK ==
  /\ stored \subseteq {"bucket"} \cup Objects
  /\ abandoned \subseteq
       [method : {"PUT", "DELETE"}, key : {"bucket"} \cup Objects, try : 1..MaxPuts]
  /\ landedLate \in BOOLEAN
  /\ probe.at \in DOMAIN Plan /\ probe.try \in 1..MaxPuts
  /\ probe.answered \subseteq DOMAIN Plan /\ probe.failed \in BOOLEAN /\ probe.kept \in 0..1
  /\ probe.outcome \in {"none", "evidence", "use_failed", "cleanup_failed",
                       "left_behind", "failed"}

\* Evidence is true, through lost answers, retries and failed steps: every use
\* of an object was answered and none is left; nor is one left when the use
\* failed.  Only a PUT that was given up and is applied after the probe has
\* seen its key absent makes it untrue (executeTosConformance: "cleanup:
\* objectsDeleted", tosConformance.ts:320-324).
EvidenceIsTrue ==
  /\ probe.outcome = "evidence" => Places("use") \subseteq probe.answered
  /\ probe.outcome \in {"evidence", "use_failed"} /\ ~landedLate => stored \cap Objects = {}
=============================================================================
