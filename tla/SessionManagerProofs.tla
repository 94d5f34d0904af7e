------------------------ MODULE SessionManagerProofs ------------------------
(***************************************************************************)
(* Theorems about SessionManager, for any tokens, proofs and rotation      *)
(* keys, any resolution of the clock and any configured lifetimes.         *)
(***************************************************************************)
EXTENDS SessionManager, Integers, TLAPS

\* The provers, and their seconds, for a leaf that does not name one.
USE ZenonT(3), SMTT(60), ZenonT(60), SMTT(61)

Lifetime == Second * TokenExpirySeconds
Ttl == Second * DPoPProofTtlSeconds

\* What is indexed or revoked was issued.
Issued ==
    /\ now > 0
    /\ \A j \in own \cup revoked : exp[j] # 0
    /\ \A k \in Keys : rotation_index[k] # NONE => exp[rotation_index[k]] # 0

\* A revoked token is listed until it lapses: until its exp, or for the configured
\* lifetime from its last rotation.
Listed ==
    \A j \in revoked :
        \/ exp[j] <= now \/ exp[j] <= revoked_jtis[j]
        \/ rotated[j] # 0 /\ (rotated[j] + Lifetime <= now \/ rotated[j] + Lifetime <= revoked_jtis[j])

\* Of the tokens issued under a key all but the indexed one have been revoked.
Rotated == \A j \in own : key[j] # NONE => j = rotation_index[key[j]] \/ j \in revoked

\* A proof that was accepted is registered for as long as the TTL has not passed.
Registered ==
    \A p \in Proofs : \A i \in DOMAIN used[p] :
        /\ used[p][i] <= now
        /\ used[p][i] + Ttl <= now \/ used[p][i] + Ttl <= entries[p]

TokenInv == Issued /\ Listed /\ Rotated
IInv == TypeOK /\ TokenInv /\ Registered

-----------------------------------------------------------------------------
\* The two lifetimes are numbers, and the clock does not start at 0.
LEMMA Numbers == Lifetime \in Nat /\ Ttl \in Nat /\ Second * (DPoPClockSkewSeconds + 1) \in Nat \ {0}
<1>1. \A a, b \in Nat : a * b \in Nat /\ (a # 0 /\ b # 0 => a * b # 0)
  OBVIOUS
<1>2. Second \in Nat /\ Second # 0 /\ DPoPClockSkewSeconds + 1 \in Nat /\ DPoPClockSkewSeconds + 1 # 0
  BY TimeAssumption
<1> QED  BY <1>1, <1>2, TimeAssumption DEF Lifetime, Ttl

\* A purge drops only entries that are over.
LEMMA PurgeKeepsLive ==
    ASSUME revoked_jtis \in [Jtis -> Nat], now \in Nat
    PROVE  /\ Purged(revoked_jtis) \in [Jtis -> Nat]
           /\ \A j \in Jtis : \/ Purged(revoked_jtis)[j] = revoked_jtis[j]
                              \/ revoked_jtis[j] <= now /\ Purged(revoked_jtis)[j] = 0
BY DEF Purged

\* The initial state satisfies the invariant.
LEMMA InitInvariant == Init => IInv
<1> SUFFICES ASSUME Init PROVE IInv
  OBVIOUS
<1>1. TypeOK
  <2>1. used \in [Proofs -> Seq(Nat)]
    BY DEF Init
  <2> QED  BY <2>1, Numbers DEF Init, TypeOK
<1>2. TokenInv
  BY Numbers DEF Init, TokenInv, Issued, Listed, Rotated
<1>3. Registered
  <2>1. \A p \in Proofs : DOMAIN used[p] = {}
    BY DEF Init
  <2> QED  BY <2>1 DEF Registered
<1> QED  BY <1>1, <1>2, <1>3 DEF IInv

\* IssueToken preserves the invariant, whether or not signing succeeds.
LEMMA IssueTokenPreserves == 
    ASSUME IInv, NEW k \in Keys \cup {NONE}, NEW lifetime \in Lifetimes \cup {TokenExpirySeconds},
           IssueToken(k, lifetime)
    PROVE  IInv'
<1> DEFINE previous == IF k = NONE THEN NONE ELSE rotation_index[k]
<1>1. /\ now \in Nat /\ now > 0 /\ now' = now /\ Lifetime \in Nat /\ Second * lifetime \in Nat
      /\ rotated \in [Jtis -> Nat]
      /\ exp \in [Jtis -> Nat] /\ key \in [Jtis -> Keys \cup {NONE}]
      /\ revoked_jtis \in [Jtis -> Nat] /\ own \subseteq Jtis /\ revoked \subseteq Jtis
      /\ rotation_index \in [Keys -> Jtis \cup {NONE}]
      /\ UNCHANGED <<iat, ath, entries, used>>
  <2>1. \A a, b \in Nat : a * b \in Nat
    OBVIOUS
  <2>2. Second * lifetime \in Nat
    BY <2>1, TimeAssumption
  <2> QED  BY <2>2, Numbers DEF IInv, TypeOK, TokenInv, Issued, IssueToken, proofVars
<1>2. /\ previous \in Jtis \cup {NONE}
      /\ previous # NONE => k \in Keys /\ previous \in Jtis /\ exp[previous] # 0
  BY <1>1, KeysAssumption DEF IInv, TokenInv, Issued
<1>3. /\ revoked_jtis' \in [Jtis -> Nat]
      /\ \A j \in Jtis : j = previous \/ revoked_jtis'[j] = revoked_jtis[j] \/ revoked_jtis[j] <= now
      /\ previous # NONE => revoked_jtis'[previous] = now + Lifetime
  <2>1. CASE previous = NONE
    BY <1>1, <2>1, PurgeKeepsLive DEF IssueToken
  <2>2. CASE previous # NONE
    <3>1. revoked_jtis' = [Purged(revoked_jtis) EXCEPT ![previous] = now + Lifetime]
      BY <2>2 DEF IssueToken, RotatedOut, Lifetime
    <3>2. /\ revoked_jtis' \in [Jtis -> Nat]
          /\ revoked_jtis'[previous] = now + Lifetime
          /\ \A j \in Jtis : j # previous => revoked_jtis'[j] = Purged(revoked_jtis)[j]
      <4> HIDE DEF previous
      <4>1. Purged(revoked_jtis) \in [Jtis -> Nat] /\ now + Lifetime \in Nat
        BY <1>1, PurgeKeepsLive
      <4> QED  BY <1>2, <2>2, <3>1, <4>1
    <3>3. \A j \in Jtis : j = previous \/ revoked_jtis'[j] = revoked_jtis[j] \/ revoked_jtis[j] <= now
      BY <1>1, <3>2, PurgeKeepsLive
    <3> QED  BY <3>2, <3>3
  <2> QED  BY <2>1, <2>2
<1>4. /\ revoked' = IF previous = NONE THEN revoked ELSE revoked \cup {previous}
      /\ rotated' \in [Jtis -> Nat]
      /\ \A j \in Jtis : rotated'[j] = IF j = previous THEN now ELSE rotated[j]
  <2>1. CASE previous = NONE
    BY <1>1, <2>1, KeysAssumption DEF IssueToken
  <2>2. CASE previous # NONE
    <3>1. revoked' = revoked \cup {previous} /\ rotated' = [rotated EXCEPT ![previous] = now]
      BY <2>2 DEF IssueToken
    <3> HIDE DEF previous
    <3> QED  BY <1>1, <1>2, <2>2, <3>1
  <2> QED  BY <2>1, <2>2
<1>listed. ASSUME NEW j \in revoked', UNCHANGED exp \/ (j \in Jtis /\ exp'[j] = exp[j])
      PROVE  \/ exp'[j] <= now \/ exp'[j] <= revoked_jtis'[j]
             \/ rotated'[j] # 0 /\ (rotated'[j] + Lifetime <= now \/ rotated'[j] + Lifetime <= revoked_jtis'[j])
  <2>1. j \in Jtis /\ exp'[j] = exp[j] /\ exp[j] \in Nat /\ revoked_jtis[j] \in Nat /\ rotated[j] \in Nat
    BY <1>1, <1>2, <1>4, <1>listed
  <2>2. CASE j = previous
    <3>1. j # NONE
      BY <2>1, KeysAssumption
    <3> QED  BY <1>1, <1>3, <1>4, <2>1, <2>2, <3>1
  <2>3. CASE j # previous
    <3>1. j \in revoked /\ rotated'[j] = rotated[j]
      BY <1>4, <1>listed, <2>1, <2>3
    <3>2. revoked_jtis'[j] = revoked_jtis[j] \/ revoked_jtis[j] <= now
      BY <1>1, <1>3, <2>1, <2>3
    <3> QED  BY <1>1, <2>1, <3>1, <3>2 DEF IInv, TokenInv, Listed
  <2> QED  BY <2>2, <2>3
<1>5. ASSUME UNCHANGED <<exp, key, own, rotation_index>> PROVE TypeOK' /\ TokenInv'
  <2>1. TypeOK'
    BY <1>1, <1>2, <1>3, <1>4, <1>5 DEF IInv, TypeOK
  <2>2. Issued'
    BY <1>1, <1>2, <1>4, <1>5 DEF IInv, TokenInv, Issued
  <2>3. Listed'
    BY <1>1, <1>5, <1>listed DEF Listed
  <2>4. Rotated'
    BY <1>1, <1>4, <1>5 DEF IInv, TokenInv, Rotated
  <2> QED  BY <2>1, <2>2, <2>3, <2>4 DEF TokenInv
<1>6. ASSUME NEW j \in Jtis, exp[j] = 0,
             exp' = [exp EXCEPT ![j] = now + Second * lifetime],
             key' = [key EXCEPT ![j] = k],
             own' = own \cup {j},
             rotation_index' = IF k = NONE THEN rotation_index ELSE [rotation_index EXCEPT ![k] = j]
      PROVE  TypeOK' /\ TokenInv'
  <2>1. TypeOK'
    BY <1>1, <1>2, <1>3, <1>4, <1>6 DEF IInv, TypeOK
  <2>2. /\ exp'[j] # 0 /\ key'[j] = k
        /\ \A i \in Jtis : i # j => exp'[i] = exp[i] /\ key'[i] = key[i]
        /\ j \notin own /\ j \notin revoked /\ j # previous
    BY <1>1, <1>2, <1>6, KeysAssumption DEF IInv, TokenInv, Issued
  <2>3. /\ k # NONE => rotation_index'[k] = j
        /\ \A h \in Keys : h # k => rotation_index'[h] = rotation_index[h]
    BY <1>1, <1>6
  <2>4. Issued'
    <3>2. \A i \in own' \cup revoked' : exp'[i] # 0
      BY <1>1, <1>2, <1>4, <1>6, <2>2 DEF IInv, TokenInv, Issued
    <3>3. ASSUME NEW h \in Keys, rotation_index'[h] # NONE PROVE exp'[rotation_index'[h]] # 0
      <4>1. CASE h = k
        BY <2>2, <2>3, <3>3, <4>1, KeysAssumption
      <4>2. CASE h # k
        <5>1. rotation_index'[h] = rotation_index[h] /\ rotation_index[h] \in Jtis
          BY <1>1, <2>3, <3>3, <4>2
        <5>2. exp[rotation_index[h]] # 0
          BY <3>3, <5>1 DEF IInv, TokenInv, Issued
        <5> QED  BY <1>6, <2>2, <5>1, <5>2
      <4> QED  BY <4>1, <4>2
    <3> QED  BY <1>1, <3>2, <3>3 DEF Issued
  <2>5. Listed'
    <3>1. \A i \in revoked' : i \in Jtis /\ exp'[i] = exp[i]
      BY <1>1, <1>2, <1>4, <2>2
    <3> QED  BY <1>1, <1>listed, <3>1 DEF Listed
  <2>6. Rotated'
    <3> SUFFICES ASSUME NEW i \in own', key'[i] # NONE
                 PROVE  i = rotation_index'[key'[i]] \/ i \in revoked'
      BY DEF Rotated
    <3>1. CASE i = j
      BY <2>2, <2>3, <3>1
    <3>2. CASE i # j /\ key[i] # k
      <4>1. i \in own /\ i \in Jtis /\ key'[i] = key[i] /\ key[i] \in Keys
        BY <1>1, <1>6, <2>2, <3>2
      <4> QED  BY <1>4, <2>3, <3>2, <4>1 DEF IInv, TokenInv, Rotated
    <3>3. CASE i # j /\ key[i] = k
      <4>1. i \in own /\ i \in Jtis /\ key'[i] = k /\ k # NONE
        BY <1>1, <1>6, <2>2, <3>3
      <4>2. i = previous \/ i \in revoked
        BY <3>3, <4>1 DEF IInv, TokenInv, Rotated
      <4>3. i # NONE
        BY <4>1, KeysAssumption
      <4> QED  BY <1>4, <4>2, <4>3
    <3> QED  BY <3>1, <3>2, <3>3
  <2> QED  BY <2>1, <2>4, <2>5, <2>6 DEF TokenInv
<1>7. TypeOK' /\ TokenInv'
  BY <1>5, <1>6 DEF IssueToken
<1>8. Registered'
  BY <1>1 DEF IInv, Registered
<1> QED  BY <1>7, <1>8 DEF IInv

\* A step that changes nothing but the revocation list, and purges it or extends it by
\* token j until its exp, keeps the tokens' part of the invariant.
LEMMA RelistPreserves ==
    ASSUME IInv, UNCHANGED <<now, exp, key, rotation_index, own, rotated>>,
           revoked_jtis' \in [Jtis -> Nat], revoked \subseteq revoked', revoked' \subseteq Jtis,
           \A j \in Jtis : \/ revoked_jtis'[j] = revoked_jtis[j]
                           \/ revoked_jtis[j] <= now
                           \/ revoked_jtis'[j] = exp[j],
           \A j \in revoked' : j \in revoked \/ (exp[j] # 0 /\ revoked_jtis'[j] = exp[j])
    PROVE  TokenInv'
<1>1. /\ now \in Nat /\ exp \in [Jtis -> Nat] /\ revoked_jtis \in [Jtis -> Nat] /\ revoked \subseteq Jtis
      /\ rotated \in [Jtis -> Nat] /\ Lifetime \in Nat
  BY Numbers DEF IInv, TypeOK
<1>2. Issued'
  BY DEF IInv, TokenInv, Issued
<1>3. Listed'
  BY <1>1 DEF IInv, TokenInv, Listed
<1>4. Rotated'
  BY DEF IInv, TokenInv, Rotated
<1> QED  BY <1>2, <1>3, <1>4 DEF TokenInv

\* ValidateToken preserves the invariant: it purges.
LEMMA ValidateTokenPreserves == ASSUME IInv, NEW j \in Jtis, ValidateToken(j) PROVE IInv'
<1>1. /\ now \in Nat /\ revoked_jtis \in [Jtis -> Nat] /\ revoked \subseteq Jtis
      /\ UNCHANGED <<now, exp, key, rotation_index, own, revoked, rotated, iat, ath, entries, used>>
      /\ revoked_jtis' = Purged(revoked_jtis)
  BY DEF IInv, TypeOK, ValidateToken, proofVars
<1>2. TypeOK'
  BY <1>1, PurgeKeepsLive DEF IInv, TypeOK
<1>3. TokenInv'
  BY <1>1, PurgeKeepsLive, RelistPreserves
<1>4. Registered'
  BY <1>1 DEF IInv, Registered
<1> QED  BY <1>2, <1>3, <1>4 DEF IInv

\* RevokeToken preserves the invariant: the entry lasts until the token's exp.
LEMMA RevokeTokenPreserves == ASSUME IInv, NEW j \in Jtis, RevokeToken(j) PROVE IInv'
<1>1. /\ now \in Nat /\ revoked_jtis \in [Jtis -> Nat] /\ revoked \subseteq Jtis
      /\ exp \in [Jtis -> Nat] /\ exp[j] # 0
      /\ UNCHANGED <<now, exp, key, rotation_index, own, rotated, iat, ath, entries, used>>
      /\ revoked_jtis' = [revoked_jtis EXCEPT ![j] = exp[j]]
      /\ revoked' = revoked \cup {j}
  BY DEF IInv, TypeOK, RevokeToken, proofVars
<1>2. /\ revoked_jtis' \in [Jtis -> Nat] /\ revoked_jtis'[j] = exp[j]
      /\ \A i \in Jtis : i # j => revoked_jtis'[i] = revoked_jtis[i]
  BY <1>1
<1>3. TypeOK'
  BY <1>1, <1>2 DEF IInv, TypeOK
<1>4. TokenInv'
  BY <1>1, <1>2, RelistPreserves
<1>5. Registered'
  BY <1>1 DEF IInv, Registered
<1> QED  BY <1>3, <1>4, <1>5 DEF IInv

\* IssueDPoPProof preserves the invariant, which does not speak of iat and ath.
LEMMA IssueDPoPProofPreserves ==
    ASSUME IInv, NEW j \in Jtis, NEW p \in Proofs, IssueDPoPProof(p, j) PROVE IInv'
<1>1. UNCHANGED <<now, exp, key, revoked_jtis, rotation_index, own, revoked, rotated, entries, used>>
  BY DEF IssueDPoPProof, tokenVars
<1>2. PICK seconds \in 1..(now \div Second + DPoPClockSkewSeconds) : iat' = [iat EXCEPT ![p] = seconds]
  BY ZenonT(60) DEF IssueDPoPProof
<1>3. seconds \in Nat
  BY <1>2
<1>4. TypeOK'
  BY <1>1, <1>2, <1>3 DEF IInv, TypeOK, IssueDPoPProof
<1>5. TokenInv' /\ Registered'
  BY <1>1 DEF IInv, TokenInv, Issued, Listed, Rotated, Registered
<1> QED  BY <1>4, <1>5 DEF IInv

\* ValidateSenderConstrainedToken preserves the invariant: a proof is accepted only
\* when its entry has run out, and is then registered anew.
LEMMA ValidateSenderConstrainedTokenPreserves ==
    ASSUME IInv, NEW j \in Jtis, NEW p \in Proofs, ValidateSenderConstrainedToken(j, p) PROVE IInv'
<1>1. /\ now \in Nat /\ revoked_jtis \in [Jtis -> Nat] /\ revoked \subseteq Jtis /\ Ttl \in Nat
      /\ entries \in [Proofs -> Nat] /\ used \in [Proofs -> Seq(Nat)]
      /\ UNCHANGED <<now, exp, key, rotation_index, own, revoked, rotated, iat, ath>>
      /\ revoked_jtis' = revoked_jtis \/ revoked_jtis' = Purged(revoked_jtis)
  BY Numbers DEF IInv, TypeOK, ValidateSenderConstrainedToken
<1>2. revoked_jtis' \in [Jtis -> Nat] /\ TokenInv'
  BY <1>1, PurgeKeepsLive, RelistPreserves
<1>3. CASE UNCHANGED <<entries, used>>
  <2>1. TypeOK'
    BY <1>1, <1>2, <1>3 DEF IInv, TypeOK
  <2>2. Registered'
    BY <1>1, <1>3 DEF IInv, Registered
  <2> QED  BY <1>2, <2>1, <2>2 DEF IInv
<1>4. CASE /\ entries[p] <= now
           /\ entries' = [entries EXCEPT ![p] = now + Ttl]
           /\ used' = [used EXCEPT ![p] = Append(used[p], now)]
  <2>1. /\ used'[p] = Append(used[p], now) /\ entries'[p] = now + Ttl
        /\ \A q \in Proofs : q # p => used'[q] = used[q] /\ entries'[q] = entries[q]
    BY <1>1, <1>4
  <2>2. used[p] \in Seq(Nat) /\ Append(used[p], now) \in Seq(Nat)
    BY <1>1
  <2>3. entries' \in [Proofs -> Nat] /\ used' \in [Proofs -> Seq(Nat)]
    BY <1>1, <1>4, <2>2
  <2>4. TypeOK'
    BY <1>1, <1>2, <2>3 DEF IInv, TypeOK
  <2>5. \A i \in DOMAIN used'[p] :
            \/ i \in DOMAIN used[p] /\ i <= Len(used[p]) /\ used'[p][i] = used[p][i]
            \/ i = Len(used[p]) + 1 /\ used'[p][i] = now
    BY <1>1, <2>1, <2>2
  <2>6. \A i \in DOMAIN used[p] : used[p][i] \in Nat /\ used[p][i] <= now /\ used[p][i] + Ttl <= now
    BY <1>1, <1>4, <2>2 DEF IInv, Registered
  <2>7. Registered'
    <3>1. \A i \in DOMAIN used'[p] :
             used'[p][i] <= now /\ (used'[p][i] + Ttl <= now \/ used'[p][i] + Ttl <= entries'[p])
      BY <1>1, <2>1, <2>5, <2>6
    <3>2. \A q \in Proofs : q # p => \A i \in DOMAIN used'[q] :
             used'[q][i] <= now /\ (used'[q][i] + Ttl <= now \/ used'[q][i] + Ttl <= entries'[q])
      BY <2>1 DEF IInv, Registered
    <3> QED  BY <1>1, <3>1, <3>2, ZenonT(60) DEF Registered
  <2> QED  BY <1>2, <2>4, <2>7 DEF IInv
<1> QED  BY <1>3, <1>4 DEF ValidateSenderConstrainedToken, RegisterIfUnused, Ttl

\* Tick preserves the invariant: what is over at a time is over later.
LEMMA TickPreserves == ASSUME IInv, Tick PROVE IInv'
<1>1. /\ now \in Nat /\ now' = now + 1 /\ Lifetime \in Nat /\ Ttl \in Nat
      /\ exp \in [Jtis -> Nat] /\ rotated \in [Jtis -> Nat] /\ revoked_jtis \in [Jtis -> Nat]
      /\ revoked \subseteq Jtis /\ used \in [Proofs -> Seq(Nat)]
      /\ UNCHANGED <<exp, key, revoked_jtis, rotation_index, own, revoked, rotated, iat, ath, entries, used>>
  BY Numbers DEF IInv, TypeOK, Tick, tokenVars, proofVars
<1>2. TypeOK'
  BY <1>1 DEF IInv, TypeOK
<1>3. TokenInv'
  BY <1>1 DEF IInv, TokenInv, Issued, Listed, Rotated
<1>4. \A p \in Proofs : \A i \in DOMAIN used[p] : used[p][i] \in Nat
  BY <1>1
<1>5. Registered'
  BY <1>1, <1>4 DEF IInv, Registered
<1> QED  BY <1>2, <1>3, <1>5 DEF IInv

\* Restart preserves the invariant: the new process has issued and revoked nothing.
LEMMA RestartPreserves == ASSUME IInv, Restart PROVE IInv'
<1>1. /\ now \in Nat /\ exp \in [Jtis -> Nat]
      /\ UNCHANGED <<now, exp, key, iat, ath>> /\ own' = {} /\ revoked' = {}
      /\ rotated' = [j \in Jtis |-> 0]
      /\ rotation_index' = [k \in Keys |-> NONE] /\ revoked_jtis' = [j \in Jtis |-> 0]
  BY DEF IInv, TypeOK, Restart
<1>2. TokenInv'
  BY <1>1 DEF IInv, TokenInv, Issued, Listed, Rotated
<1>3. CASE UNCHANGED <<entries, used>>
  <2>1. TypeOK'
    BY <1>1, <1>3 DEF IInv, TypeOK
  <2>2. Registered'
    BY <1>1, <1>3 DEF IInv, Registered
  <2> QED  BY <1>2, <2>1, <2>2 DEF IInv
<1>4. CASE entries' = [p \in Proofs |-> 0] /\ used' = [p \in Proofs |-> <<>>]
  <2>1. used' \in [Proofs -> Seq(Nat)] /\ \A p \in Proofs : DOMAIN used'[p] = {}
    BY <1>4
  <2>2. TypeOK'
    BY <1>1, <1>4, <2>1 DEF IInv, TypeOK
  <2>3. Registered'
    BY <2>1 DEF Registered
  <2> QED  BY <1>2, <2>2, <2>3 DEF IInv
<1> QED  BY <1>3, <1>4 DEF Restart

\* The invariant holds in every reachable state.
THEOREM Invariance == Spec => []IInv
<1>1. IInv /\ [Next]_vars => IInv'
  <2> SUFFICES ASSUME IInv, [Next]_vars PROVE IInv'
    OBVIOUS
  <2>1. CASE UNCHANGED vars
    BY <2>1 DEF IInv, TypeOK, TokenInv, Issued, Listed, Rotated, Registered,
                vars, tokenVars, proofVars
  <2>2. CASE Next
    BY <2>2, TickPreserves, RestartPreserves, IssueTokenPreserves, ValidateTokenPreserves,
       RevokeTokenPreserves, IssueDPoPProofPreserves, ValidateSenderConstrainedTokenPreserves DEF Next
  <2> QED  BY <2>1, <2>2
<1> QED  BY <1>1, InitInvariant, PTL DEF Spec

\* Every variable keeps its type.
THEOREM TypeCorrectness == Spec => []TypeOK
<1>1. IInv => TypeOK
  BY DEF IInv
<1> QED  BY <1>1, Invariance, PTL

\* A token that is listed until it lapses is not accepted before that.
LEMMA ListedRefused == IInv => RevocationHolds
<1> SUFFICES ASSUME IInv, NEW j \in revoked, Purged(revoked_jtis)[j] = 0 PROVE Lapsed(j)
  BY DEF RevocationHolds, Accepts
<1>1. /\ j \in Jtis /\ now \in Nat /\ exp[j] \in Nat /\ revoked_jtis[j] \in Nat /\ rotated[j] \in Nat
      /\ Lifetime \in Nat
  BY Numbers DEF IInv, TypeOK
<1>2. \/ exp[j] <= now \/ exp[j] <= revoked_jtis[j]
      \/ rotated[j] # 0 /\ (rotated[j] + Lifetime <= now \/ rotated[j] + Lifetime <= revoked_jtis[j])
  BY DEF IInv, TokenInv, Listed
<1>3. revoked_jtis[j] <= now
  BY <1>1 DEF Purged
<1>4. exp[j] <= now \/ (rotated[j] # 0 /\ rotated[j] + Lifetime <= now)
  BY <1>1, <1>2, <1>3
<1> QED  BY <1>4 DEF Lapsed, Lifetime

\* validate_token refuses a token that was revoked or rotated out until it lapses,
\* whatever lifetimes callers ask for.
THEOREM RevocationsHold == Spec => []RevocationHolds
BY ListedRefused, Invariance, PTL

\* Of the tokens issue_token issues under a rotation key one at most is accepted that
\* has not lapsed.
THEOREM OneTokenPerKeyIsLive == Spec => []OneLiveTokenPerKey
<1>1. IInv => OneLiveTokenPerKey
  BY ListedRefused DEF IInv, TokenInv, Rotated, RevocationHolds, OneLiveTokenPerKey
<1> QED  BY <1>1, Invariance, PTL

-----------------------------------------------------------------------------
(***************************************************************************)
(* How often a proof is accepted.  The window of a proof hangs on its iat, *)
(* which is written once; the acceptances lie in it, a TTL apart, so that  *)
(* the k-th comes at least k - 1 TTLs after the first.                     *)
(***************************************************************************)

Skew == Second * DPoPClockSkewSeconds

SpacedInWindow(p) ==
    \A k \in DOMAIN used[p] :
        /\ iat[p] # 0
        /\ Second * iat[p] <= used[p][1] + Skew
        /\ used[p][k] <= Second * iat[p] + Ttl
        /\ used[p][1] + (k - 1) * Ttl <= used[p][k]

WindowInv == \A p \in Proofs : SpacedInWindow(p)

\* One more TTL.
LEMMA NextMultiple ==
    ASSUME NEW n \in Nat, NEW d \in Nat
    PROVE  (n - 1) * d \in Int /\ n * d \in Nat /\ n * d = (n - 1) * d + d
OBVIOUS

\* Factors may be taken in any order.
LEMMA FactorsCommute ==
    ASSUME NEW a \in Int, NEW b \in Nat, NEW c \in Nat
    PROVE  c * (a * b) = a * (c * b) /\ a * (c * b) \in Int
OBVIOUS

\* A positive factor cancels.
LEMMA FactorCancels ==
    ASSUME NEW c \in Nat \ {0}, NEW a \in Int, NEW b \in Int, c * a <= c * b
    PROVE  a <= b
<1> SUFFICES ASSUME a > b PROVE FALSE
  OBVIOUS
<1>1. a - b \in Nat /\ a - b >= 1
  OBVIOUS
<1>2. \A x \in Nat : x >= 1 => c * x >= 1
  OBVIOUS
<1>3. c * (a - b) = c * a - c * b
  OBVIOUS
<1> QED  BY <1>1, <1>2, <1>3

\* An acceptance is the last of its proof.
LEMMA LastAcceptance ==
    ASSUME NEW s \in Seq(Nat), NEW x \in Nat
    PROVE  /\ DOMAIN Append(s, x) = 1..(Len(s) + 1) /\ Append(s, x)[Len(s) + 1] = x
           /\ \A k \in 1..Len(s) : Append(s, x)[k] = s[k] /\ s[k] \in Nat
OBVIOUS

\* The acceptance of a proof inside its window, when its entry has run out, keeps the
\* acceptances apart and in the window.
LEMMA AcceptanceSpaced ==
    ASSUME IInv, NEW p \in Proofs, SpacedInWindow(p), iat[p] # 0, InWindow(p), RegisterIfUnused(p),
           used'[p] = Append(used[p], now), UNCHANGED iat
    PROVE  SpacedInWindow(p)'
<1> DEFINE n == Len(used[p])
<1>1. /\ used[p] \in Seq(Nat) /\ n \in Nat /\ now \in Nat /\ entries[p] \in Nat
      /\ Ttl \in Nat
  BY Numbers DEF IInv, TypeOK
<1>2. /\ DOMAIN used'[p] = 1..(n + 1)
      /\ \A k \in 1..n : used'[p][k] = used[p][k] /\ used[p][k] \in Nat
      /\ used'[p][n + 1] = now
  <2> DEFINE longer == Append(used[p], now)
  <2>1. /\ DOMAIN longer = 1..(n + 1) /\ longer[n + 1] = now
        /\ \A k \in 1..n : longer[k] = used[p][k] /\ used[p][k] \in Nat
    BY <1>1, LastAcceptance, ZenonT(60)
  <2>2. used'[p] = longer
    OBVIOUS
  <2> HIDE DEF longer, n
  <2> QED  BY <2>1, <2>2
<1>3. /\ Second * iat[p] + Ttl >= now
      /\ Second * iat[p] <= now + Skew
      /\ now <= Second * iat[p] + Ttl
  <2>1. Second * iat[p] \in Nat
    BY TimeAssumption DEF IInv, TypeOK
  <2> QED  BY <1>1, <2>1 DEF InWindow, Ttl, Skew
<1>4. ASSUME NEW k \in 1..n PROVE used[p][k] + Ttl <= now
  <2>1. k \in DOMAIN used[p] /\ used[p][k] \in Nat
    BY <1>1, <1>2
  <2>2. (used[p][k] + Ttl <= now \/ used[p][k] + Ttl <= entries[p]) /\ entries[p] <= now
    BY <2>1 DEF IInv, Registered, RegisterIfUnused
  <2> DEFINE lapse == used[p][k] + Ttl
  <2>3. lapse \in Nat
    BY <1>1, <2>1
  <2> HIDE DEF lapse
  <2>4. lapse <= now
    BY <1>1, <2>2, <2>3 DEF lapse
  <2> QED  BY <2>4 DEF lapse
<1>5. CASE n = 0
  <2>1. \A k \in DOMAIN used'[p] : k = 1 /\ used'[p][k] = now /\ used'[p][1] = now /\ (k - 1) * Ttl = 0
    BY <1>1, <1>2, <1>5
  <2>2. ASSUME NEW k \in DOMAIN used'[p]
        PROVE  /\ Second * iat[p] <= used'[p][1] + Skew
               /\ used'[p][k] <= Second * iat[p] + Ttl
               /\ used'[p][1] + (k - 1) * Ttl <= used'[p][k]
    <3>1. used'[p][k] = now /\ used'[p][1] = now /\ (k - 1) * Ttl = 0
      BY <2>1
    <3>2. now + 0 <= now
      BY <1>1
    <3> QED  BY <1>3, <3>1, <3>2
  <2> QED  BY <2>2 DEF SpacedInWindow
<1>6. CASE n # 0
  <2>1. /\ n \in DOMAIN used[p] /\ n \in 1..n /\ 1 \in 1..n
        /\ used'[p][1] = used[p][1] /\ used[p][1] \in Nat /\ used[p][n] \in Nat
    BY <1>1, <1>2, <1>6
  <2>2. /\ Second * iat[p] <= used[p][1] + Skew
        /\ used[p][1] + (n - 1) * Ttl <= used[p][n]
    BY <2>1 DEF SpacedInWindow
  <2>3. (n - 1) * Ttl \in Int /\ n * Ttl = (n - 1) * Ttl + Ttl
    BY <1>1, NextMultiple
  <2>4. used[p][1] + n * Ttl <= now
    <3> DEFINE first == used[p][1]
               latest == used[p][n]
               before == (n - 1) * Ttl
    <3>1. first \in Nat /\ latest \in Nat /\ before \in Int /\ Ttl \in Nat /\ now \in Nat
      BY <1>1, <2>1, <2>3
    <3>2. first + before <= latest /\ latest + Ttl <= now
      BY <1>4, <2>1, <2>2
    <3> HIDE DEF first, latest, before
    <3>3. first + (before + Ttl) <= now
      BY <3>1, <3>2
    <3> QED  BY <2>3, <3>3 DEF first, before
  <2>5. ASSUME NEW k \in DOMAIN used'[p]
        PROVE  /\ used'[p][k] <= Second * iat[p] + Ttl
               /\ used'[p][1] + (k - 1) * Ttl <= used'[p][k]
    <3>1. CASE k \in 1..n
      <4>1. k \in DOMAIN used[p]
        BY <1>1, <3>1
      <4> QED  BY <1>2, <2>1, <3>1, <4>1 DEF SpacedInWindow
    <3>2. CASE k = n + 1
      <4>1. k - 1 = n /\ used'[p][k] = now
        BY <1>1, <1>2, <3>2
      <4> QED  BY <1>3, <2>1, <2>4, <4>1
    <3>3. k \in 1..n \/ k = n + 1
      BY <1>1, <1>2
    <3> QED  BY <3>1, <3>2, <3>3
  <2> QED  BY <2>1, <2>2, <2>5 DEF SpacedInWindow
<1> QED  BY <1>5, <1>6

\* Every step keeps the acceptances of each proof apart and in its window.
LEMMA WindowStep == IInv /\ WindowInv /\ [Next]_vars => WindowInv'
<1> SUFFICES ASSUME IInv, WindowInv, [Next]_vars PROVE WindowInv'
  OBVIOUS
<1>1. CASE UNCHANGED <<iat, used>>
  BY <1>1 DEF WindowInv, SpacedInWindow
<1>2. CASE UNCHANGED iat /\ used' = [p \in Proofs |-> <<>>]
  <2>1. \A p \in Proofs : DOMAIN used'[p] = {}
    BY <1>2
  <2> QED  BY <2>1 DEF WindowInv, SpacedInWindow
<1>3. ASSUME NEW j \in Jtis, NEW p \in Proofs, IssueDPoPProof(p, j) PROVE WindowInv'
  <2>1. /\ iat[p] = 0 /\ UNCHANGED used
        /\ \A q \in Proofs : q # p => iat'[q] = iat[q]
    BY <1>3 DEF IssueDPoPProof, IInv, TypeOK
  <2>2. DOMAIN used[p] = {}
    BY <2>1 DEF WindowInv, SpacedInWindow
  <2>3. ASSUME NEW q \in Proofs PROVE SpacedInWindow(q)'
    BY <2>1, <2>2 DEF WindowInv, SpacedInWindow
  <2> QED  BY <2>3 DEF WindowInv
<1>4. ASSUME NEW j \in Jtis, NEW p \in Proofs, ValidateSenderConstrainedToken(j, p) PROVE WindowInv'
  <2>1. CASE UNCHANGED used
    BY <1>1, <1>4, <2>1 DEF ValidateSenderConstrainedToken
  <2>2. CASE InWindow(p) /\ RegisterIfUnused(p) /\ used' = [used EXCEPT ![p] = Append(used[p], now)]
    <3>1. /\ used'[p] = Append(used[p], now) /\ UNCHANGED iat /\ iat[p] # 0
          /\ \A q \in Proofs : q # p => used'[q] = used[q]
      BY <1>4, <2>2 DEF ValidateSenderConstrainedToken, IInv, TypeOK
    <3>2. SpacedInWindow(p)'
      BY <2>2, <3>1, AcceptanceSpaced DEF WindowInv
    <3>3. \A q \in Proofs : q # p => SpacedInWindow(q)'
      BY <3>1 DEF WindowInv, SpacedInWindow
    <3> QED  BY <3>2, <3>3 DEF WindowInv
  <2> QED  BY <1>4, <2>1, <2>2 DEF ValidateSenderConstrainedToken
<1>5. CASE Restart
  BY <1>1, <1>2, <1>5 DEF Restart
<1>6. ASSUME NEW k \in Keys \cup {NONE}, NEW lifetime \in Lifetimes \cup {TokenExpirySeconds},
             IssueToken(k, lifetime)
      PROVE  WindowInv'
  BY <1>1, <1>6 DEF IssueToken, proofVars
<1>7. ASSUME NEW j \in Jtis, ValidateToken(j) \/ RevokeToken(j) PROVE WindowInv'
  BY <1>1, <1>7 DEF ValidateToken, RevokeToken, proofVars
<1>8. CASE Tick \/ UNCHANGED vars
  BY <1>1, <1>8 DEF Tick, vars, proofVars
<1> QED  BY <1>3, <1>4, <1>5, <1>6, <1>7, <1>8 DEF Next

\* validate_sender_constrained_token accepts a proof a bounded number of times: all
\* acceptances fit, a TTL apart, between iat less the skew and iat plus the TTL.
THEOREM AcceptancesAreBounded == Spec => []AcceptancesBounded
<1>1. Init => WindowInv
  <2>1. Init => \A p \in Proofs : DOMAIN used[p] = {}
    BY DEF Init
  <2> QED  BY <2>1 DEF WindowInv, SpacedInWindow
<1>2. IInv /\ WindowInv => AcceptancesBounded
  <2> SUFFICES ASSUME IInv, WindowInv, NEW p \in Proofs, used[p] # <<>>
               PROVE  (Len(used[p]) - 1) * DPoPProofTtlSeconds <= DPoPProofTtlSeconds + DPoPClockSkewSeconds
    BY DEF AcceptancesBounded
  <2> DEFINE n == Len(used[p])
             many == (n - 1) * DPoPProofTtlSeconds
  <2>1. /\ used[p] \in Seq(Nat) /\ n \in Nat /\ n \in DOMAIN used[p] /\ 1 \in DOMAIN used[p]
        /\ used[p][1] \in Nat /\ used[p][n] \in Nat
    BY DEF IInv, TypeOK
  <2>2. /\ iat[p] \in Nat /\ Second * iat[p] \in Nat
        /\ Ttl \in Nat /\ Skew \in Nat /\ many \in Int
    BY <2>1, Numbers, TimeAssumption DEF IInv, TypeOK, Skew
  <2>3. Second * many = (n - 1) * Ttl /\ (n - 1) * Ttl \in Int
    <3>1. n - 1 \in Int /\ Second \in Nat /\ DPoPProofTtlSeconds \in Nat
      BY <2>1, TimeAssumption
    <3> QED  BY <3>1, FactorsCommute DEF Ttl
  <2>4. /\ Second * iat[p] <= used[p][1] + Skew
        /\ used[p][n] <= Second * iat[p] + Ttl
        /\ used[p][1] + (n - 1) * Ttl <= used[p][n]
    BY <2>1 DEF WindowInv, SpacedInWindow
  <2>5. (n - 1) * Ttl <= Ttl + Skew
    <3> DEFINE first == used[p][1]
               latest == used[p][n]
               between == (n - 1) * Ttl
               made == Second * iat[p]
    <3>1. first \in Nat /\ latest \in Nat /\ between \in Int /\ made \in Nat /\ Ttl \in Nat /\ Skew \in Nat
      BY <2>1, <2>2, <2>3
    <3>2. made <= first + Skew /\ latest <= made + Ttl /\ first + between <= latest
      BY <2>4
    <3> HIDE DEF first, latest, between, made
    <3>3. between <= Ttl + Skew
      BY <3>1, <3>2
    <3> QED  BY <3>3 DEF between
  <2>6. Ttl + Skew = Second * (DPoPProofTtlSeconds + DPoPClockSkewSeconds)
    BY TimeAssumption DEF Ttl, Skew
  <2>7. Second * many <= Second * (DPoPProofTtlSeconds + DPoPClockSkewSeconds)
    BY <2>3, <2>5, <2>6
  <2>8. Second \in Nat \ {0} /\ DPoPProofTtlSeconds + DPoPClockSkewSeconds \in Int
    BY TimeAssumption
  <2> HIDE DEF many
  <2>9. many <= DPoPProofTtlSeconds + DPoPClockSkewSeconds
    BY <2>2, <2>7, <2>8, FactorCancels
  <2> QED  BY <2>9 DEF many
<1> QED  BY <1>1, <1>2, WindowStep, Invariance, PTL DEF Spec
=============================================================================
