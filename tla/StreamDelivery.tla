----------------------------- MODULE StreamDelivery ----------------------------
(***************************************************************************)
(* What the ingest stream promises its clients, without saying how: an      *)
(* accepted entry is delivered any number of times, and is released only    *)
(* when everything it carries is safe, or a copy is quarantined, or the     *)
(* length cap of the stream evicted it.  DrainStream implements this.       *)
(***************************************************************************)
CONSTANTS Entries,    \* stream entries
          Events,     \* logical events
          EventsOf    \* the events an entry carries

VARIABLES status,       \* "absent", "queued", "pending" or "released"
          safe,         \* events committed and registered downstream
          quarantined,  \* entries with a dead-letter copy
          evicted       \* entries trimmed by the length cap

vars == <<status, safe, quarantined, evicted>>

Init ==
  /\ status = [m \in Entries |-> "absent"]
  /\ safe = {} /\ quarantined = {} /\ evicted = {}

Releasable(m) ==
  \/ EventsOf[m] # {} /\ EventsOf[m] \subseteq safe
  \/ m \in quarantined \cup evicted

\* An entry is accepted; the cap may evict others to make room.
Accept(m) ==
  /\ status[m] = "absent" /\ status' = [status EXCEPT ![m] = "queued"]
  /\ evicted \subseteq evicted' /\ evicted' \subseteq Entries
  /\ UNCHANGED <<safe, quarantined>>

Evict ==
  /\ evicted \subseteq evicted' /\ evicted' \subseteq Entries
  /\ UNCHANGED <<status, safe, quarantined>>

\* Queued entries start their first delivery; evicted ones are passed over.
Deliver ==
  \E S \in SUBSET {m \in Entries : status[m] = "queued" /\ m \notin evicted},
     skipped \in SUBSET {m \in Entries : status[m] = "queued" /\ m \in evicted} :
    /\ status' = [m \in Entries |-> IF m \in S THEN "pending"
                                    ELSE IF m \in skipped THEN "released"
                                    ELSE status[m]]
    /\ UNCHANGED <<safe, quarantined, evicted>>

\* Events of delivered entries become safe together.
Secure(E) ==
  /\ \A e \in E : \E m \in Entries : e \in EventsOf[m] /\ status[m] \in {"pending", "released"}
  /\ safe' = safe \cup E
  /\ UNCHANGED <<status, quarantined, evicted>>

Quarantine(m) ==
  /\ status[m] \in {"pending", "released"}
  /\ quarantined' = quarantined \cup {m}
  /\ UNCHANGED <<status, safe, evicted>>

Release ==
  \E S \in SUBSET {m \in Entries : status[m] = "pending" /\ Releasable(m)} :
    /\ status' = [m \in Entries |-> IF m \in S THEN "released" ELSE status[m]]
    /\ UNCHANGED <<safe, quarantined, evicted>>

Next ==
  \/ \E m \in Entries : Accept(m) \/ Quarantine(m)
  \/ Evict \/ Deliver \/ Release
  \/ \E E \in SUBSET Events : Secure(E)

Spec == Init /\ [][Next]_vars
================================================================================
