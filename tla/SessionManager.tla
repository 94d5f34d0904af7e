--------------------------- MODULE SessionManager ---------------------------
(***************************************************************************)
(* JIT tokens and DPoP proofs (src/governance/session_mgr.py and           *)
(* replay_store.py).  A token is signed, so any process accepts it until   *)
(* it expires; the revocation list, the rotation index and the in-memory   *)
(* replay store belong to one process and are lost with it.  No method     *)
(* awaits, so each is one step.                                            *)
(*                                                                         *)
(* time.time() has fractions of a second and jose compares whole seconds,  *)
(* so the clock counts ticks, Second of them to a second.  A time of 0     *)
(* stands for "no entry"; the clock starts later than that.                *)
(***************************************************************************)
EXTENDS Naturals, Sequences

CONSTANTS
    Jtis,               \* token ids uuid4() may draw
    Proofs,             \* DPoP proof ids
    Keys,               \* rotation keys
    Second,             \* ticks per second
    TokenExpirySeconds, \* the configured lifetime of a token
    Lifetimes,          \* values callers pass for expires_in_seconds
    DPoPProofTtlSeconds,
    DPoPClockSkewSeconds,
    MaxNow,             \* bound: the clock stops here
    NONE                \* Python's None

ASSUME TimeAssumption ==
    /\ Second \in Nat \ {0} /\ TokenExpirySeconds \in Nat /\ DPoPProofTtlSeconds \in Nat
    /\ DPoPClockSkewSeconds \in Nat /\ MaxNow \in Nat /\ Lifetimes \subseteq Nat
ASSUME KeysAssumption == NONE \notin Keys /\ NONE \notin Jtis

VARIABLES
    now,                \* time.time(), in ticks
    exp,                \* of each issued token, in ticks; 0 while the id is unused
    key,                \* the rotation key each token was issued under, or NONE
    revoked_jtis,       \* until when each token is listed as revoked
    rotation_index,     \* the last token issued under each rotation key
    iat,                \* of each proof made, in seconds; 0 while the id is unused
    ath,                \* the token each proof is made for
    entries,            \* until when each proof is registered in the replay store
    own,                \* history: the tokens this process issued,
    revoked,            \* the tokens it was told to revoke or rotated out,
    rotated,            \* when each was last rotated out, or 0,
    used                \* and when each proof was accepted, since the store is up

tokenVars == <<exp, key, revoked_jtis, rotation_index, own, revoked, rotated>>
proofVars == <<iat, ath, entries, used>>
vars == <<now, tokenVars, proofVars>>

TypeOK ==
    /\ now \in Nat
    /\ exp \in [Jtis -> Nat]
    /\ key \in [Jtis -> Keys \cup {NONE}]
    /\ revoked_jtis \in [Jtis -> Nat]
    /\ rotation_index \in [Keys -> Jtis \cup {NONE}]
    /\ iat \in [Proofs -> Nat]
    /\ ath \in [Proofs -> Jtis \cup {NONE}]
    /\ entries \in [Proofs -> Nat]
    /\ own \subseteq Jtis
    /\ revoked \subseteq Jtis
    /\ rotated \in [Jtis -> Nat]
    /\ used \in [Proofs -> Seq(Nat)]

Init ==
    /\ now = Second * (DPoPClockSkewSeconds + 1)
    /\ exp = [j \in Jtis |-> 0]
    /\ key = [j \in Jtis |-> NONE]
    /\ revoked_jtis = [j \in Jtis |-> 0]
    /\ rotation_index = [k \in Keys |-> NONE]
    /\ iat = [p \in Proofs |-> 0]
    /\ ath = [p \in Proofs |-> NONE]
    /\ entries = [p \in Proofs |-> 0]
    /\ own = {}
    /\ revoked = {}
    /\ rotated = [j \in Jtis |-> 0]
    /\ used = [p \in Proofs |-> <<>>]

-----------------------------------------------------------------------------
\* _purge_expired_revocations
Purged(list) == [j \in Jtis |-> IF list[j] <= now THEN 0 ELSE list[j]]

\* Mutant of RotatedOut: the entry is listed for no longer than the purge leaves it.
RotatedOutExpired(j) == [Purged(revoked_jtis) EXCEPT ![j] = now]

\* revoke_jti for the token a rotation replaces: its exp is not at hand, so the entry
\* is kept for as long as a token of the configured lifetime would live.
RotatedOut(j) == [Purged(revoked_jtis) EXCEPT ![j] = now + Second * TokenExpirySeconds]

\* Mutant of IssueToken: the new token is not entered in the rotation index.
IssueTokenUnindexed(k, lifetime) ==
    /\ revoked_jtis' = Purged(revoked_jtis)
    /\ \E j \in Jtis :
        /\ exp[j] = 0
        /\ exp' = [exp EXCEPT ![j] = now + Second * lifetime]
        /\ key' = [key EXCEPT ![j] = k]
        /\ own' = own \cup {j}
    /\ UNCHANGED <<now, rotation_index, revoked, rotated, proofVars>>

\* issue_token, issue_sender_constrained_token under rotation key k, or under none, for
\* a lifetime the caller or the settings give.  The previous token is revoked before
\* the new one is signed, and signing may raise.
IssueToken(k, lifetime) ==
    LET previous == IF k = NONE THEN NONE ELSE rotation_index[k] IN
    /\ IF previous = NONE
         THEN revoked_jtis' = Purged(revoked_jtis) /\ UNCHANGED <<revoked, rotated>>
         ELSE /\ revoked_jtis' = RotatedOut(previous)
              /\ revoked' = revoked \cup {previous}
              /\ rotated' = [rotated EXCEPT ![previous] = now]
    /\ \/ \E j \in Jtis :
            /\ exp[j] = 0
            /\ exp' = [exp EXCEPT ![j] = now + Second * lifetime]
            /\ key' = [key EXCEPT ![j] = k]
            /\ own' = own \cup {j}
            /\ rotation_index' = IF k = NONE THEN rotation_index
                                 ELSE [rotation_index EXCEPT ![k] = j]
       \/ UNCHANGED <<exp, key, own, rotation_index>>
    /\ UNCHANGED <<now, proofVars>>

\* jwt.decode raises ExpiredSignatureError: it compares whole seconds.
Expired(j) == exp[j] \div Second < now \div Second

\* validate_token returns.
Accepts(j) == exp[j] # 0 /\ ~ Expired(j) /\ Purged(revoked_jtis)[j] = 0

\* validate_token, whose one effect is the purge.
ValidateToken(j) ==
    /\ exp[j] # 0 /\ ~ Expired(j)
    /\ revoked_jtis' = Purged(revoked_jtis)
    /\ UNCHANGED <<now, exp, key, rotation_index, own, revoked, rotated, proofVars>>

\* Mutant of RevokeToken: no expires_at is passed, and None is stored.
RevokeTokenUnlisted(j) ==
    /\ exp[j] # 0
    /\ revoked_jtis' = [revoked_jtis EXCEPT ![j] = NONE]
    /\ revoked' = revoked \cup {j}
    /\ UNCHANGED <<now, exp, key, rotation_index, own, rotated, proofVars>>

\* revoke_token: the entry is kept until the token's own exp, and nothing is purged.
RevokeToken(j) ==
    /\ exp[j] # 0
    /\ revoked_jtis' = [revoked_jtis EXCEPT ![j] = exp[j]]
    /\ revoked' = revoked \cup {j}
    /\ UNCHANGED <<now, exp, key, rotation_index, own, rotated, proofVars>>

\* issue_dpop_proof for token j, dated by the whole second of the client's clock.
IssueDPoPProof(p, j) ==
    /\ iat[p] = 0 /\ exp[j] # 0
    /\ \E seconds \in 1..(now \div Second + DPoPClockSkewSeconds) :
        /\ seconds + DPoPClockSkewSeconds >= now \div Second
        /\ iat' = [iat EXCEPT ![p] = seconds]
    /\ ath' = [ath EXCEPT ![p] = j]
    /\ UNCHANGED <<now, tokenVars, entries, used>>

\* The window of validate_dpop_proof.
InWindow(p) ==
    /\ Second * iat[p] + Second * DPoPProofTtlSeconds >= now
    /\ Second * iat[p] <= now + Second * DPoPClockSkewSeconds

\* Mutant of RegisterIfUnused: an entry is overwritten.
RegisterIfUnusedAlways(p) == TRUE

\* register_if_unused finds no entry that is still alive.
RegisterIfUnused(p) == entries[p] <= now

\* validate_sender_constrained_token.  The comparison of ath stands for every check
\* that the proof is made for this token, key and request.
ValidateSenderConstrainedToken(j, p) ==
    /\ exp[j] # 0 /\ iat[p] # 0
    /\ IF Expired(j) THEN UNCHANGED revoked_jtis ELSE revoked_jtis' = Purged(revoked_jtis)
    /\ IF Accepts(j) /\ ath[p] = j /\ InWindow(p) /\ RegisterIfUnused(p)
         THEN /\ entries' = [entries EXCEPT ![p] = now + Second * DPoPProofTtlSeconds]
              /\ used' = [used EXCEPT ![p] = Append(@, now)]
         ELSE UNCHANGED <<entries, used>>
    /\ UNCHANGED <<now, exp, key, rotation_index, own, revoked, rotated, iat, ath>>

Tick ==
    /\ now < MaxNow
    /\ now' = now + 1
    /\ UNCHANGED <<tokenVars, proofVars>>

\* The process dies and a new one starts: SessionManager.__init__.  A replay store in
\* Redis outlives the process, one in memory does not.
Restart ==
    /\ revoked_jtis' = [j \in Jtis |-> 0]
    /\ rotation_index' = [k \in Keys |-> NONE]
    /\ own' = {}
    /\ revoked' = {}
    /\ rotated' = [j \in Jtis |-> 0]
    /\ \/ UNCHANGED <<entries, used>>
       \/ entries' = [p \in Proofs |-> 0] /\ used' = [p \in Proofs |-> <<>>]
    /\ UNCHANGED <<now, exp, key, iat, ath>>

Next ==
    \/ Tick \/ Restart
    \/ \E k \in Keys \cup {NONE}, lifetime \in Lifetimes \cup {TokenExpirySeconds} : IssueToken(k, lifetime)
    \/ \E j \in Jtis :
        \/ ValidateToken(j) \/ RevokeToken(j)
        \/ \E p \in Proofs : IssueDPoPProof(p, j) \/ ValidateSenderConstrainedToken(j, p)

Spec == Init /\ [][Next]_vars

-----------------------------------------------------------------------------
\* A revocation of the token may be over: the token is past its exp, or the configured
\* lifetime has passed since it was rotated out.
Lapsed(j) ==
    \/ exp[j] <= now
    \/ rotated[j] # 0 /\ rotated[j] + Second * TokenExpirySeconds <= now

\* A token revoked by hand or by rotation is accepted again only once it is past its
\* exp, in what is left of that whole second, or, when a rotation replaced it, the
\* configured lifetime after the rotation: no purge drops its entry earlier.
RevocationHolds == \A j \in revoked : Accepts(j) => Lapsed(j)

\* Two tokens that a process issued under one rotation key are accepted side by side
\* only once one of them has lapsed, also after a rotation whose signing failed.
OneLiveTokenPerKey ==
    \A i, j \in own :
        i # j /\ key[i] = key[j] /\ key[i] # NONE /\ Accepts(i) /\ Accepts(j) => Lapsed(i) \/ Lapsed(j)

\* A proof is accepted no more often than its TTL fits into its window, TTL plus clock
\* skew, and once more: the store's entry is dated by the acceptance, the window by
\* the client's iat, which may lie ahead.
AcceptancesBounded ==
    \A p \in Proofs : used[p] # <<>> =>
        (Len(used[p]) - 1) * DPoPProofTtlSeconds <= DPoPProofTtlSeconds + DPoPClockSkewSeconds

\* "Reject a reused proof jti via a replay store" (docs/architecture_decisions.md:367):
\* while the store is up a proof is accepted once.
ProofAcceptedOnce == \A p \in Proofs : Len(used[p]) <= 1
=============================================================================
