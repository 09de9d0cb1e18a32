--------------------------- MODULE ServiceRegistry ---------------------------
(***************************************************************************)
(* The API gateway's service registry (core/service_discovery.py): the     *)
(* dictionary of instance lists, the health index beside it, the           *)
(* management API that changes both, and the health check task that walks  *)
(* over the dictionary and the lists and suspends at every probe, while    *)
(* they change under it.                                                   *)
(***************************************************************************)
EXTENDS Integers, FiniteSets, SequencesExt

CONSTANTS Services,   \* service names
          Configured, \* the sequence of services init_service_discovery registers
          Urls        \* service URLs

VARIABLES known,     \* the dictionary's keys, in insertion order
          registry,  \* _service_registry: per service, the list of instances
          index,     \* _service_health: per service, pairs <<id, url>>
          pass       \* the health check task

vars == <<known, registry, index, pass>>

\* The task sleeps, or probes the instance at position idx of the list of the
\* service at position pos; the dictionary had size keys when the pass began.
\* current says whether the probed object is still the one in the list.
Asleep == [pos |-> 0, idx |-> 0, size |-> 0, url |-> "", current |-> FALSE]

Ids == 1..Cardinality(Urls)

TypeOK ==
  /\ known \in Seq(Services)
  /\ registry \in [Services -> Seq([id : Ids, url : Urls])]
  /\ index \in [Services -> SUBSET (Ids \X Urls)]
  /\ pass \in [pos : 0..Cardinality(Services), idx : 0..Cardinality(Urls),
               size : 0..Cardinality(Services), url : Urls \cup {""}, current : BOOLEAN]

\* Every configured service starts with one instance, whose id ends in 1.
Init ==
  /\ known = Configured
  /\ \E url \in [Services -> Urls] :
       /\ registry = [s \in Services |->
            IF s \in ToSet(Configured) THEN <<[id |-> 1, url |-> url[s]]>> ELSE <<>>]
       /\ index = [s \in Services |->
            IF s \in ToSet(Configured) THEN {<<1, url[s]>>} ELSE {}]
  /\ pass = Asleep

-----------------------------------------------------------------------------
\* Near misses for the mutation runs.
DeregisterKeepsIndex(s, j) ==
  /\ registry' = [registry EXCEPT ![s] = RemoveAt(@, j)]
  /\ UNCHANGED index

StopAtFirstService(pos, idx, size) ==
  IF pos > 0 /\ idx < Len(registry[known[pos]])
    THEN [pos |-> pos, idx |-> idx + 1, size |-> size,
          url |-> registry[known[pos]][idx + 1].url, current |-> TRUE]
  ELSE IF pos = 0 /\ registry[known[1]] # <<>>
    THEN [pos |-> 1, idx |-> 1, size |-> size,
          url |-> registry[known[1]][1].url, current |-> TRUE]
  ELSE Asleep

-----------------------------------------------------------------------------
\* f"{service_name}-{len(...) + 1}"
NextId(s) == Len(registry[s]) + 1

Holds(s, url) == \E j \in DOMAIN registry[s] : registry[s][j].url = url

\* register_service; a URL that is registered already is left alone.
Register(s, url) ==
  /\ known' = IF s \in ToSet(known) THEN known ELSE Append(known, s)
  /\ IF Holds(s, url) THEN UNCHANGED <<registry, index>>
     ELSE /\ registry' = [registry EXCEPT ![s] = Append(@, [id |-> NextId(s), url |-> url])]
          /\ index' = [index EXCEPT ![s] =
               {e \in @ : e[1] # NextId(s)} \cup {<<NextId(s), url>>}]
  /\ UNCHANGED pass

\* Remove the instance at position j, and its id from the index.
Drop(s, j) ==
  /\ registry' = [registry EXCEPT ![s] = RemoveAt(@, j)]
  /\ index' = [index EXCEPT ![s] = {e \in @ : e[1] # registry[s][j].id}]

\* deregister_service
Deregister(s, url) ==
  \E j \in DOMAIN registry[s] :
    /\ registry[s][j].url = url
    /\ Drop(s, j)
    /\ pass' = IF pass.pos > 0 /\ known[pass.pos] = s /\ pass.url = url
                 THEN [pass EXCEPT !.current = FALSE] ELSE pass
    /\ UNCHANGED known

\* Where the two nested for loops go after position (pos, idx): the list
\* iterator goes on by position; the dictionary iterator raises RuntimeError
\* when a key was added since the pass began, which ends the pass.
After(pos, idx, size) ==
  LET later == {p \in pos + 1..Len(known) : registry[known[p]] # <<>>}
      first == CHOOSE p \in later : \A q \in later : p <= q
  IN  IF pos > 0 /\ idx < Len(registry[known[pos]])
        THEN [pos |-> pos, idx |-> idx + 1, size |-> size,
              url |-> registry[known[pos]][idx + 1].url, current |-> TRUE]
      ELSE IF Len(known) # size \/ later = {} THEN Asleep
      ELSE [pos |-> first, idx |-> 1, size |-> size,
            url |-> registry[known[first]][1].url, current |-> TRUE]

BeginPass ==
  /\ pass = Asleep
  /\ pass' = After(0, 0, Len(known))
  /\ UNCHANGED <<known, registry, index>>

\* The probe is answered (its verdict is modelled in ServiceClient) and the
\* loops go on.
Probed ==
  /\ pass # Asleep
  /\ pass' = After(pass.pos, pass.idx, pass.size)
  /\ UNCHANGED <<known, registry, index>>

Next ==
  \/ \E s \in Services, url \in Urls : Register(s, url) \/ Deregister(s, url)
  \/ BeginPass
  \/ Probed

\* Probes have a timeout and the sleep between passes ends.
Spec == Init /\ [][Next]_vars /\ WF_vars(BeginPass) /\ WF_vars(Probed)

-----------------------------------------------------------------------------
\* An entry of the health index belongs to an instance that is registered under
\* that id: deregistering never leaves a dead instance tracked, although ids
\* are reused.
TrackedIsRegistered ==
  \A s \in Services : \A e \in index[s] :
    \E j \in DOMAIN registry[s] : registry[s][j] = [id |-> e[1], url |-> e[2]]

\* Once the registry stays as it is, every instance in it is probed again and
\* again, although passes that were under way when it changed skipped instances
\* or were cut short.
RegistryRests ==
  <>[][\A s \in Services, url \in Urls : ~Register(s, url) /\ ~Deregister(s, url)]_vars

ProbedAgain ==
  RegistryRests =>
    \A s \in Services, url \in Urls :
      <>[]Holds(s, url) =>
        []<>(pass.pos > 0 /\ known[pass.pos] = s /\ pass.url = url /\ pass.current)
=============================================================================
