-------------------------------- MODULE Jwks --------------------------------
(***************************************************************************)
(* The token signing keys of a server (nethernet-tokio/src/util/jwks.rs):  *)
(* one set shared by everyone who validates tokens (MinecraftKeys in       *)
(* nethernet/src/identity/jwk.rs, TokenTrust in trust.rs), refetched by a  *)
(* background task and by the application under one async mutex.           *)
(*                                                                         *)
(* The endpoint that publishes the keys is external; it rotates them.  Of  *)
(* a token there is what its validation looks at; a key is named by its    *)
(* own kid.  Times are in ticks.                                           *)
(***************************************************************************)
EXTENDS Naturals

CONSTANTS
  Keys,           \* signing keys
  None,           \* absence
  Tokens,         \* tokens peers present
  MinInterval,    \* MIN_INTERVAL
  MaxAge,         \* MAX_AGE
  WatchInterval,  \* WATCH_INTERVAL
  MaxRotations    \* bound: changes of the published set

\* What a token is judged by: whether it parses and is not expired, its
\* algorithm, the key it names, the key that signed it, whether subject, issuer
\* and audience are right, and whether the key in cpk signed the fingerprints
\* of the SDP it came with.
TokenType == [fresh : BOOLEAN, rs256 : BOOLEAN, kid : Keys \cup {None},
              signer : Keys \cup {None}, claims : BOOLEAN, bound : BOOLEAN]

Callers == {"watch", "app"}

VARIABLES
  published,   \* what the endpoint serves
  rotations,
  keys,        \* MinecraftKeys::keys
  missed,      \* MinecraftKeys::missed
  age,         \* time since fetched_at, up to MaxAge
  at,          \* where each caller of a refresh is
  reply,       \* the keys in the response of the fetch under way, or None
  sleep,       \* what is left of the watch task's sleep
  held,        \* whether a clone of the Jwks is left
  check,       \* the token under validation and the keys it is held against
  verdict      \* the last verdict

vars == <<published, rotations, keys, missed, age, at, reply, sleep, held, check, verdict>>

Init ==
  /\ published \in SUBSET Keys
  /\ rotations = 0
  /\ keys = published
  /\ missed = FALSE
  /\ age = 0
  /\ at = [watch |-> "sleep", app |-> "idle"]
  /\ reply = None
  /\ sleep = WatchInterval
  /\ held = TRUE
  /\ check = None
  /\ verdict = None

\* The endpoint publishes another set.
Rotate(ks) ==
  /\ rotations < MaxRotations
  /\ rotations' = rotations + 1
  /\ published' = ks
  /\ UNCHANGED <<keys, missed, age, at, reply, sleep, held, check, verdict>>
-----------------------------------------------------------------------------
(* Validation of a token                                                   *)

\* JwkSet::candidates
candidates(set, kid) == IF kid = None THEN set ELSE set \cap {kid}

\* TokenTrust::claims up to the lookup takes a snapshot of the set.
Snapshot(t) ==
  /\ check = None
  /\ t.fresh
  /\ t.rs256
  /\ check' = [token |-> t, set |-> keys]
  /\ UNCHANGED <<published, rotations, keys, missed, age, at, reply, sleep, held, verdict>>

\* Refused before the lookup.
Unfit(t) ==
  /\ check = None
  /\ ~ (t.fresh /\ t.rs256)
  /\ verdict' = "untrusted"
  /\ UNCHANGED <<published, rotations, keys, missed, age, at, reply, sleep, held, check>>

\* The token names a key the snapshot lacks.
mark_missed ==
  /\ check # None
  /\ candidates(check.set, check.token.kid) = {}
  /\ missed' = TRUE
  /\ verdict' = "untrusted"
  /\ check' = None
  /\ UNCHANGED <<published, rotations, keys, age, at, reply, sleep, held>>

\* The signature, the claims, and the fingerprints of the SDP (validate_sdp).
validate_sdp ==
  /\ check # None
  /\ candidates(check.set, check.token.kid) # {}
  /\ verdict' = IF /\ check.token.signer \in candidates(check.set, check.token.kid)
                   /\ check.token.claims
                   /\ check.token.bound
                THEN "trusted" ELSE "untrusted"
  /\ check' = None
  /\ UNCHANGED <<published, rotations, keys, missed, age, at, reply, sleep, held>>
-----------------------------------------------------------------------------
(* Refresh                                                                 *)

Locked == \E c \in Callers : at[c] = "fetch"

Goes(c, to) == at' = [at EXCEPT ![c] = to]

\* Where a caller goes when its refresh is over.
Rest(c) == IF c = "watch" THEN "sleep" ELSE "idle"

\* Jwks::refresh by the application.
refresh ==
  /\ held
  /\ at["app"] = "idle"
  /\ Goes("app", "lock")
  /\ UNCHANGED <<published, rotations, keys, missed, age, reply, sleep, held, check, verdict>>

Young == age < MinInterval

\* The last handle is dropped; a refresh under way holds one.
DropHandles ==
  /\ held
  /\ at["app"] = "idle"
  /\ held' = FALSE
  /\ UNCHANGED <<published, rotations, keys, missed, age, at, reply, sleep, check, verdict>>

\* The watch task wakes: it ends with the last handle, or looks at the flag.
WatchEnds ==
  /\ at["watch"] = "sleep"
  /\ sleep = 0
  /\ ~ held
  /\ Goes("watch", "ended")
  /\ UNCHANGED <<published, rotations, keys, missed, age, reply, sleep, held, check, verdict>>

take_missed ==
  /\ at["watch"] = "sleep"
  /\ sleep = 0
  /\ held
  /\ missed' = FALSE
  /\ sleep' = WatchInterval
  /\ Goes("watch", IF missed THEN "lock" ELSE "due")
  /\ UNCHANGED <<published, rotations, keys, age, reply, held, check, verdict>>

\* Mutant: without a missed key the set is never too old.
is_due_never == FALSE

is_due == age >= MaxAge

CheckDue ==
  /\ at["watch"] = "due"
  /\ ~ Locked
  /\ Goes("watch", IF is_due THEN "lock" ELSE "sleep")
  /\ UNCHANGED <<published, rotations, keys, missed, age, reply, sleep, held, check, verdict>>

\* Mutant: the mutex only guards the time stamp, not the fetch.
Lock_early(c) ==
  /\ at[c] = "lock"
  /\ reply' = None
  /\ Goes(c, IF Young THEN Rest(c) ELSE "fetch")
  /\ UNCHANGED <<published, rotations, keys, missed, age, sleep, held, check, verdict>>

\* The mutex is taken; it is held during the fetch.
Lock(c) ==
  /\ at[c] = "lock"
  /\ ~ Locked
  /\ reply' = None
  /\ Goes(c, IF Young THEN Rest(c) ELSE "fetch")
  /\ UNCHANGED <<published, rotations, keys, missed, age, sleep, held, check, verdict>>

\* The endpoint answers with what it publishes at that time.
Serve ==
  /\ Locked
  /\ reply = None
  /\ reply' = published
  /\ UNCHANGED <<published, rotations, keys, missed, age, at, sleep, held, check, verdict>>

Store(c) ==
  /\ at[c] = "fetch"
  /\ reply # None
  /\ keys' = reply
  /\ age' = 0
  /\ reply' = None
  /\ Goes(c, Rest(c))
  /\ UNCHANGED <<published, rotations, missed, sleep, held, check, verdict>>

\* No connection, a time-out, an error status, or no key set in the body.
FetchFails(c) ==
  /\ at[c] = "fetch"
  /\ reply' = None
  /\ Goes(c, Rest(c))
  /\ UNCHANGED <<published, rotations, keys, missed, age, sleep, held, check, verdict>>

\* One unit of time.
Tick ==
  /\ age < MaxAge \/ sleep > 0
  /\ age' = IF age < MaxAge THEN age + 1 ELSE age
  /\ sleep' = IF at["watch"] = "sleep" /\ sleep > 0 THEN sleep - 1 ELSE sleep
  /\ UNCHANGED <<published, rotations, keys, missed, at, reply, held, check, verdict>>

Fetching(c) == Lock(c) \/ Store(c) \/ FetchFails(c)
Watching == WatchEnds \/ take_missed \/ CheckDue
Validating == mark_missed \/ validate_sdp

Next ==
  \/ \E ks \in SUBSET Keys : Rotate(ks)
  \/ \E t \in Tokens : Snapshot(t) \/ Unfit(t)
  \/ Validating
  \/ refresh
  \/ DropHandles
  \/ Watching
  \/ \E c \in Callers : Fetching(c)
  \/ Serve
  \/ Tick

Spec == Init /\ [][Next]_vars

\* Tasks run, a fetch ends by its time-out, time passes, and a fetch that is
\* tried again and again is answered and stored in the end.
FairSpec ==
  /\ Spec
  /\ WF_vars(Tick)
  /\ WF_vars(Watching)
  /\ \A c \in Callers : SF_vars(Lock(c)) /\ WF_vars(Fetching(c)) /\ SF_vars(Store(c))
  /\ SF_vars(Serve)
-----------------------------------------------------------------------------
TypeOK ==
  /\ published \subseteq Keys
  /\ keys \subseteq Keys
  /\ missed \in BOOLEAN
  /\ age \in 0 .. MaxAge
  /\ at["watch"] \in {"sleep", "due", "lock", "fetch", "ended"}
  /\ at["app"] \in {"idle", "lock", "fetch"}
  /\ sleep \in 0 .. WatchInterval
  /\ held \in BOOLEAN
  /\ verdict \in {None, "trusted", "untrusted"}

\* Keys are stored at most once in MinInterval, though the task and the
\* application refresh at the same time (Inner::refresh).
FetchesAreSpaced == [][\A c \in Callers : Store(c) => ~ Young]_vars

\* As long as a handle is held, a rotation reaches everyone who validates: the
\* shared set becomes what the endpoint publishes, although the flag of a
\* missed key may be taken without a fetch, and fetches fail (refresh_if_needed).
\* Without one the task ends.
KeysConverge ==
  /\ <>(~ held) \/ <>[](keys = published)
  /\ (~ held) ~> (at["watch"] = "ended")
=============================================================================
