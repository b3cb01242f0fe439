---------------------------- MODULE RetryChoice ----------------------------
(***************************************************************************)
(* rwx retry (service_retry.go): what may be retried is asked for, an      *)
(* action and its tool caches are chosen from it, by flags or in prompts,  *)
(* and requested.  What the service offers may change meanwhile: a refusal *)
(* then brings the new offer, and a person who gave no flags is asked once *)
(* more.                                                                   *)
(***************************************************************************)
EXTENDS Naturals, FiniteSets, Sequences

CONSTANTS Caches   \* tool caches

NoToolCache == "no-tool-cache"
Offers ==
  {o \in [retryable : BOOLEAN, actions : SUBSET {"full", NoToolCache},
          caches : SUBSET Caches, debug : SUBSET {"before"}] :
     ~o.retryable => o.actions = {} /\ o.caches = {} /\ o.debug = {}}
Nothing == [retryable |-> FALSE, actions |-> {}, caches |-> {}, debug |-> {}]

VARIABLES
  wish,        \* the flags, and whether a person can be asked
  offer,       \* what the service offers now
  known,       \* what the command knows of it
  choice,      \* the point it is at
  chosen,      \* the request it makes
  requests,    \* requests made, each with the offer it was chosen from
  answer       \* "", "ok", "refused", "error"

retryVars == <<wish, offer, known, choice, chosen, requests, answer>>

NoRequest == [action |-> "", caches |-> {}, debug |-> ""]
RetryInit ==
  /\ wish \in [action : {"", "full", NoToolCache}, caches : {{}} \cup {{c} : c \in Caches},
               debug : {"", "before"}, interactive : BOOLEAN]
  /\ offer \in Offers /\ known = Nothing
  /\ choice = "options" /\ chosen = NoRequest /\ requests = <<>> /\ answer = ""

Bare == wish.action = "" /\ wish.caches = {} /\ wish.debug = ""
Finishes(a) == choice' = "end" /\ answer' = a

-----------------------------------------------------------------------------
(* selectRetryRequest: what was asked for, the only one there is, or what the
   person picks; a selection that needs a person or is not offered has no outcome.
   Faulty: an action from the flags is not compared with the offer. *)
Picked(asked, available) ==
  IF asked # {} THEN asked ELSE IF Cardinality(available) = 1 \/ wish.interactive THEN available ELSE {}
ActionsUnchecked(o) == Picked({wish.action} \ {""}, o.actions)
ActionsOf(o) == Picked({wish.action} \ {""}, o.actions) \cap o.actions

CachesOf(action, o) ==
  IF action # NoToolCache THEN IF wish.caches = {} THEN {{}} ELSE {}
  ELSE IF wish.caches # {} THEN {wish.caches} \cap SUBSET o.caches
  ELSE IF Cardinality(o.caches) = 1 THEN {o.caches}
  ELSE IF wish.interactive THEN (SUBSET o.caches) \ {{}} ELSE {}

DebugOf(o) == IF wish.debug = "" THEN {""} ELSE {wish.debug} \cap o.debug

Selections(o) ==
  IF ~o.retryable THEN {}
  ELSE UNION {{[action |-> a, caches |-> cs, debug |-> d] : cs \in CachesOf(a, o), d \in DebugOf(o)} :
              a \in ActionsOf(o)}

-----------------------------------------------------------------------------
GetRetryOptions ==
  /\ choice = "options"
  /\ known' = offer
  /\ choice' = "select"
  /\ UNCHANGED <<wish, offer, chosen, requests, answer>>

(* A person may give up at the prompt. *)
SelectRetryRequest ==
  /\ choice = "select"
  /\ \/ chosen' \in Selections(known) /\ choice' = "request" /\ UNCHANGED answer
     \/ /\ Selections(known) = {} \/ wish.interactive
        /\ Finishes("error") /\ UNCHANGED chosen
  /\ UNCHANGED <<wish, offer, known, requests>>

(* The service takes a request that fits its offer, and answers another with the offer.
   The second refusal is the last. *)
Accepted ==
  /\ offer.retryable /\ chosen.action \in offer.actions /\ chosen.caches \subseteq offer.caches
  /\ chosen.debug \in {""} \cup offer.debug
RequestRetry ==
  /\ choice = "request"
  /\ requests' = Append(requests, [request |-> chosen, from |-> known])
  /\ IF Accepted THEN Finishes("ok") /\ UNCHANGED known
     ELSE IF wish.interactive /\ Bare /\ requests = <<>> /\ offer.retryable /\ offer.actions # {}
     THEN choice' = "select" /\ known' = offer /\ UNCHANGED answer
     ELSE Finishes("refused") /\ UNCHANGED known
  /\ UNCHANGED <<wish, offer, chosen>>

RetryCallFails ==
  /\ choice \in {"options", "request"} /\ Finishes("error")
  /\ UNCHANGED <<wish, offer, known, chosen, requests>>

(* The run goes on while the person chooses; it makes a difference when the request is made. *)
OfferChanges ==
  /\ choice = "request" /\ offer' \in Offers /\ offer = known
  /\ UNCHANGED <<wish, known, choice, chosen, requests, answer>>

RetryNext ==
  GetRetryOptions \/ SelectRetryRequest \/ RequestRetry \/ RetryCallFails \/ OfferChanges

RetrySpec == RetryInit /\ [][RetryNext]_retryVars

-----------------------------------------------------------------------------
(***************************************************************************)
(* What is requested was offered to the one who chose it and respects the  *)
(* flags; there is at most one more request, for a person who left the     *)
(* choice open, and never after one that was taken.                        *)
(***************************************************************************)
RetryAsksForWhatIsOffered ==
  /\ \A i \in DOMAIN requests :
       LET r == requests[i].request
           o == requests[i].from
       IN  /\ o.retryable /\ r.action \in o.actions /\ r.caches \subseteq o.caches
           /\ (r.caches # {}) = (r.action = NoToolCache)
           /\ r.debug = wish.debug /\ r.debug \in {""} \cup o.debug
           /\ wish.action \in {"", r.action}
           /\ wish.caches \in {{}, r.caches}
  /\ Len(requests) <= 1 \/ (Len(requests) = 2 /\ wish.interactive /\ Bare)
  /\ answer = "ok" => Accepted
=============================================================================
