--------------------------- MODULE PlatformProofs ---------------------------
(***************************************************************************)
(* The cached answers, the connection pool, the comments, the curated      *)
(* lists, the alerts, the notices, the NBC checks and the uploads, proved  *)
(* for any value of their constants; then the theorems about these, titles *)
(* and elected loops for the composition of them.                          *)
(***************************************************************************)
EXTENDS MCPlatform, FiniteSetTheorems, Integers, Sequences, TLAPS

-----------------------------------------------------------------------------
(* Cached answers. Here s1 to s6 are now, version, replaced, local, shared *)
(* and req.                                                                *)
LEMMA CachedInit == ASSUME Cached!CacheConstants, Cached!Init PROVE Cached!IInv
<1>1. 0 \in Cached!Versions /\ None \notin Cached!Versions
  BY DEF Cached!CacheConstants, Cached!Versions
<1>2. Cached!TypeOK
  BY <1>1 DEF Cached!Init, Cached!TypeOK, Cached!ReqType, Cached!EntryType,
     Cached!Versions, Cached!Nothing, Cached!Idle, Cached!Steps
<1>3. Cached!History
  BY DEF Cached!Init, Cached!History, Cached!Versions, Cached!CacheConstants
<1> QED BY <1>2, <1>3 DEF Cached!Init, Cached!IInv, Cached!Fresh, Cached!Prompt, Cached!Idle

LEMMA CachedSizes ==
  ASSUME Cached!CacheConstants
  PROVE  /\ CachedTtl \in Nat /\ CachedTtl > 0 /\ CachedLag \in Nat /\ None \notin Nat
                /\ None \notin CachedWorkers
         /\ Cached!Versions \subseteq Nat /\ None \notin Cached!Versions
  BY DEF Cached!CacheConstants, Cached!Versions

(* A value enters a cache or a request with its deadline. *)
LEMMA EntryFresh ==
  ASSUME Cached!CacheConstants, Cached!TypeOK, NEW v \in Cached!Versions, v <= s2,
             NEW late \in Nat,
         NEW t \in Nat, Cached!By(v, t, late), s1 <= t + CachedLag
  PROVE  /\ Cached!Entry(v) \in Cached!EntryType
         /\ Cached!Fresh(Cached!Entry(v), late + CachedLag + CachedTtl)
<1>1. s1 \in Nat /\ s3[v] \in Nat \cup {None}
  BY DEF Cached!TypeOK, Cached!ReqType, Cached!EntryType
<1>2. /\ Cached!Entry(v).value = v /\ Cached!Entry(v).till = s1 + CachedTtl
  BY DEF Cached!Entry
<1>3. Cached!Entry(v) \in Cached!EntryType
  BY <1>1, CachedSizes DEF Cached!Entry, Cached!EntryType
<1>4. s3[v] # None => s1 + CachedTtl <= s3[v] + (late + CachedLag + CachedTtl)
  BY <1>1, CachedSizes DEF Cached!By
<1>5. Cached!By(v, s1 + CachedTtl, late + CachedLag + CachedTtl) BY <1>4 DEF Cached!By
<1> QED BY <1>1, <1>2, <1>3, <1>5, CachedSizes DEF Cached!Fresh

(* Nothing is always fresh. *)
LEMMA NothingFresh ==
  Cached!Nothing \in Cached!EntryType /\ \A late : Cached!Fresh(Cached!Nothing, late)
  BY DEF Cached!Nothing, Cached!Fresh, Cached!ReqType, Cached!EntryType

(* A step of one request, at one time and version. *)
LEMMA Steady ==
  ASSUME Cached!CacheConstants, Cached!IInv, NEW r \in CachedReaders \cup CachedEditors,
         UNCHANGED <<s1, s2, s3>>, Cached!TypeOK',
         \A w \in CachedWorkers : s4'[w] = s4[w] \/ Cached!Fresh(s4'[w],
             2 * CachedTtl + 2 * CachedLag),
         s5' = s5 \/ Cached!Fresh(s5', CachedTtl + CachedLag),
         \A q \in (CachedReaders \cup CachedEditors) \ {r} : s6'[q] = s6[q],
         Cached!Prompt(r)'
  PROVE  Cached!IInv'
<1>1. Cached!History' BY DEF Cached!IInv, Cached!History
<1>3. \A w \in CachedWorkers : Cached!Fresh(s4[w], 2 * CachedTtl + 2 * CachedLag)'
  BY DEF Cached!IInv, Cached!Fresh, Cached!By, Cached!Nothing
<1>4. Cached!Fresh(s5, CachedTtl + CachedLag)'
  BY DEF Cached!IInv, Cached!Fresh, Cached!By, Cached!Nothing
<1>5. \A q \in (CachedReaders \cup CachedEditors) \ {r} : Cached!Prompt(q)'
  BY DEF Cached!IInv, Cached!Prompt, Cached!By
<1> QED BY <1>1, <1>3, <1>4, <1>5 DEF Cached!IInv

LEMMA Asked ==
  ASSUME Cached!CacheConstants, Cached!IInv, NEW r \in CachedReaders,
             NEW w \in CachedWorkers, Cached!Ask(r, w)
  PROVE  Cached!IInv'
<1>t. Cached!TypeOK BY DEF Cached!IInv
<1> DEFINE x == [at |-> "get", on |-> w, value |-> None, since |-> s1]
<1>1. s6' = [s6 EXCEPT ![r] = x] /\ UNCHANGED <<s1, s2, s3, s4, s5>>
  BY DEF Cached!Ask
<1>2. x \in Cached!ReqType
  BY <1>t DEF Cached!TypeOK, Cached!ReqType, Cached!EntryType, Cached!Steps
<1>3. x.at = "get" /\ x.on \in CachedWorkers /\ x.since = s1 OBVIOUS
<1> HIDE DEF x
<1>4. Cached!TypeOK' BY <1>t, <1>1, <1>2 DEF Cached!TypeOK, Cached!ReqType, Cached!EntryType
<1>5. s6'[r] = x /\ \A q \in (CachedReaders \cup CachedEditors) \ {r} : s6'[q] = s6[q]
  BY <1>t, <1>1 DEF Cached!TypeOK, Cached!ReqType, Cached!EntryType
<1>6. Cached!Prompt(r)'
  BY <1>t, <1>1, <1>3, <1>5, CachedSizes DEF Cached!Prompt, Cached!TypeOK, Cached!ReqType,
     Cached!EntryType
<1> QED BY <1>1, <1>4, <1>5, <1>6, Steady

LEMMA ReaderSteps ==
  ASSUME Cached!CacheConstants, Cached!IInv, NEW r \in CachedReaders,
         \/ Cached!GetShared(r) \/ Cached!Load(r) \/ Cached!Refill(r)
         \/ Cached!KeepLocal(r) \/ Cached!StoreShared(r)
  PROVE  Cached!IInv'
<1>t. /\ Cached!TypeOK /\ Cached!Prompt(r) /\ Cached!Fresh(s5, CachedTtl + CachedLag)
             /\ s1 \in Nat /\ s2 \in Cached!Versions
      /\ \A v \in Cached!Versions : s3[v] \in Nat \cup {None}
      /\ s5 \in Cached!EntryType
      /\ s3[s2] = None
  BY DEF Cached!IInv, Cached!TypeOK, Cached!ReqType, Cached!EntryType, Cached!History,
     Cached!Versions
<1>r. /\ s6[r] \in Cached!ReqType
      /\ s6 \in [CachedReaders \cup CachedEditors -> Cached!ReqType]
  BY <1>t DEF Cached!TypeOK, Cached!ReqType, Cached!EntryType
<1>i. /\ Cached!Idle \in Cached!ReqType
      /\ Cached!Idle.at = "idle"
  BY DEF Cached!Idle, Cached!Steps, Cached!ReqType, Cached!EntryType
<1>1. CASE s6[r].at = "get" /\ s6' = [s6 EXCEPT ![r].at = "load"] /\ UNCHANGED <<s1, s2,
               s3, s4, s5>>
  <2>1. /\ s6' \in [CachedReaders \cup CachedEditors -> Cached!ReqType]
        /\ s6'[r].at = "load" /\ s6'[r].on = s6[r].on /\ s6'[r].since = s6[r].since
        /\ \A q \in (CachedReaders \cup CachedEditors) \ {r} : s6'[q] = s6[q]
    BY <1>r, <1>1 DEF Cached!Steps, Cached!ReqType, Cached!EntryType
  <2>2. Cached!TypeOK'
    BY <1>t, <1>1, <2>1 DEF Cached!TypeOK, Cached!ReqType, Cached!EntryType
  <2>3. Cached!Prompt(r)' BY <1>t, <1>1, <2>1 DEF Cached!Prompt
  <2> QED BY <1>1, <2>1, <2>2, <2>3, Steady
<1>2. CASE /\ s6[r].at = "get" /\ s5 # Cached!Nothing
                  /\ s6' = [s6 EXCEPT ![r].at = "found", ![r].value = s5.value]
           /\ UNCHANGED <<s1, s2, s3, s4, s5>>
  <2>0. s5.value \in Cached!Versions /\ s5.value <= s2 /\ Cached!By(s5.value, s5.till,
            CachedTtl + CachedLag) /\ s1 < s5.till
    BY <1>t, <1>2 DEF Cached!Fresh, Cached!By
  <2>1. /\ s6' \in [CachedReaders \cup CachedEditors -> Cached!ReqType]
        /\ s6'[r].at = "found" /\ s6'[r].on = s6[r].on /\ s6'[r].since = s6[r].since
        /\ s6'[r].value = s5.value
        /\ \A q \in (CachedReaders \cup CachedEditors) \ {r} : s6'[q] = s6[q]
    BY <1>r, <1>2, <2>0 DEF Cached!Steps, Cached!ReqType, Cached!EntryType
  <2>2. Cached!TypeOK'
    BY <1>t, <1>2, <2>1 DEF Cached!TypeOK, Cached!ReqType, Cached!EntryType
  <2>3. s6[r].since <= s1 /\ s1 <= s6[r].since + CachedLag /\ s6[r].on \in CachedWorkers
    BY <1>t, <1>2 DEF Cached!Prompt
  <2>4. Cached!By(s5.value, s6[r].since, CachedTtl + CachedLag)
    <3>1. s5.till \in Nat /\ s3[s5.value] \in Nat \cup {None}
      BY <1>t, <2>0 DEF Cached!ReqType, Cached!EntryType
    <3> QED BY <1>t, <1>r, <2>0, <2>3, <3>1, CachedSizes DEF Cached!By, Cached!ReqType,
      Cached!EntryType
  <2>5. Cached!Prompt(r)' BY <1>2, <2>0, <2>1, <2>3, <2>4 DEF Cached!Prompt, Cached!By
  <2> QED BY <1>2, <2>1, <2>2, <2>5, Steady
<1>3. CASE Cached!Load(r)
  <2>0. s6[r].at = "load" /\ s6' = [s6 EXCEPT ![r].at = "loaded", ![r].value = s2]
            /\ UNCHANGED <<s1, s2, s3, s4, s5>>
    BY <1>3 DEF Cached!Load
  <2>1. /\ s6' \in [CachedReaders \cup CachedEditors -> Cached!ReqType]
        /\ s6'[r].at = "loaded" /\ s6'[r].on = s6[r].on /\ s6'[r].since = s6[r].since
        /\ s6'[r].value = s2
        /\ \A q \in (CachedReaders \cup CachedEditors) \ {r} : s6'[q] = s6[q]
    BY <1>t, <1>r, <2>0 DEF Cached!Steps, Cached!ReqType, Cached!EntryType
  <2>2. Cached!TypeOK'
    BY <1>t, <2>0, <2>1 DEF Cached!TypeOK, Cached!ReqType, Cached!EntryType
  <2>3. s6[r].since <= s1 /\ s1 <= s6[r].since + CachedLag /\ s6[r].on \in CachedWorkers
    BY <1>t, <2>0 DEF Cached!Prompt
  <2>4. s2 <= s2 BY <1>t, CachedSizes
  <2>5. Cached!Prompt(r)' BY <1>t, <2>0, <2>1, <2>3, <2>4 DEF Cached!Prompt, Cached!By
  <2> QED BY <2>0, <2>1, <2>2, <2>5, Steady
<1>4. CASE Cached!Refill(r)
  <2>0. /\ s6[r].at = "found" /\ s4' = [s4 EXCEPT ![s6[r].on] = Cached!Entry(s6[r].value)]
        /\ s6' = [s6 EXCEPT ![r] = Cached!Idle] /\ UNCHANGED <<s1, s2, s3, s5>>
    BY <1>4 DEF Cached!Refill, Cached!AfterRefill, Cached!Answer
  <2>1. s6[r].value \in Cached!Versions /\ s6[r].value <= s2 /\ Cached!By(s6[r].value,
            s6[r].since, CachedTtl + CachedLag) /\ s1 <= s6[r].since + CachedLag
                /\ s6[r].on \in CachedWorkers
    BY <1>t, <2>0 DEF Cached!Prompt, Cached!By
  <2>2. /\ Cached!Entry(s6[r].value) \in Cached!EntryType
        /\ Cached!Fresh(Cached!Entry(s6[r].value),
               (CachedTtl + CachedLag) + CachedLag + CachedTtl)
    BY <1>t, <1>r, <2>1, EntryFresh, CachedSizes DEF Cached!ReqType, Cached!EntryType
  <2>3. (CachedTtl + CachedLag) + CachedLag + CachedTtl = 2 * CachedTtl + 2 * CachedLag
    BY CachedSizes
  <2>4. Cached!TypeOK'
    BY <1>t, <1>i, <2>0, <2>2 DEF Cached!TypeOK, Cached!ReqType, Cached!EntryType
  <2>5. Cached!Prompt(r)'
            /\ \A q \in (CachedReaders \cup CachedEditors) \ {r} : s6'[q] = s6[q]
    BY <1>r, <1>i, <2>0 DEF Cached!Prompt
  <2>6. \A w \in CachedWorkers : s4'[w] = s4[w] \/ Cached!Fresh(s4'[w],
            2 * CachedTtl + 2 * CachedLag)
    BY <1>t, <2>0, <2>1, <2>2, <2>3 DEF Cached!TypeOK, Cached!ReqType, Cached!EntryType
  <2> QED BY <2>0, <2>4, <2>5, <2>6, Steady
<1>5. CASE Cached!KeepLocal(r)
  <2>0. /\ s6[r].at = "loaded" /\ s4' = [s4 EXCEPT ![s6[r].on] = Cached!Entry(s6[r].value)]
        /\ s6' = [s6 EXCEPT ![r].at = "store"] /\ UNCHANGED <<s1, s2, s3, s5>>
    BY <1>5 DEF Cached!KeepLocal
  <2>1. /\ s6[r].value \in Cached!Versions /\ s6[r].value <= s2 /\ Cached!By(s6[r].value,
               s6[r].since, 0)
        /\ s6[r].since <= s1 /\ s1 <= s6[r].since + CachedLag /\ s6[r].on \in CachedWorkers
    BY <1>t, <2>0 DEF Cached!Prompt, Cached!By
  <2>2. /\ Cached!By(s6[r].value, s6[r].since, CachedTtl + CachedLag)
    BY <1>t, <1>r, <2>1, CachedSizes DEF Cached!By, Cached!ReqType, Cached!EntryType
  <2>3. /\ Cached!Entry(s6[r].value) \in Cached!EntryType
        /\ Cached!Fresh(Cached!Entry(s6[r].value),
               (CachedTtl + CachedLag) + CachedLag + CachedTtl)
    BY <1>t, <1>r, <2>1, <2>2, EntryFresh, CachedSizes DEF Cached!ReqType, Cached!EntryType
  <2>4. (CachedTtl + CachedLag) + CachedLag + CachedTtl = 2 * CachedTtl + 2 * CachedLag
    BY CachedSizes
  <2>5. /\ s6' \in [CachedReaders \cup CachedEditors -> Cached!ReqType]
        /\ s6'[r].at = "store" /\ s6'[r].on = s6[r].on /\ s6'[r].since = s6[r].since
        /\ s6'[r].value = s6[r].value
        /\ \A q \in (CachedReaders \cup CachedEditors) \ {r} : s6'[q] = s6[q]
    BY <1>r, <2>0 DEF Cached!Steps, Cached!ReqType, Cached!EntryType
  <2>6. Cached!TypeOK'
    BY <1>t, <2>0, <2>3, <2>5 DEF Cached!TypeOK, Cached!ReqType, Cached!EntryType
  <2>7. Cached!Prompt(r)' BY <2>0, <2>1, <2>5 DEF Cached!Prompt, Cached!By
  <2>8. \A w \in CachedWorkers : s4'[w] = s4[w] \/ Cached!Fresh(s4'[w],
            2 * CachedTtl + 2 * CachedLag)
    BY <1>t, <2>0, <2>1, <2>3, <2>4 DEF Cached!TypeOK, Cached!ReqType, Cached!EntryType
  <2> QED BY <2>0, <2>5, <2>6, <2>7, <2>8, Steady
<1>6. CASE Cached!StoreShared(r)
  <2>0. /\ s6[r].at = "store" /\ s5' \in {s5, Cached!Entry(s6[r].value)}
        /\ s6' = [s6 EXCEPT ![r] = Cached!Idle] /\ UNCHANGED <<s1, s2, s3, s4>>
    BY <1>6 DEF Cached!StoreShared, Cached!Answer
  <2>1. s6[r].value \in Cached!Versions /\ s6[r].value <= s2 /\ Cached!By(s6[r].value,
            s6[r].since, 0) /\ s1 <= s6[r].since + CachedLag
    BY <1>t, <2>0 DEF Cached!Prompt, Cached!By
  <2>2. /\ Cached!Entry(s6[r].value) \in Cached!EntryType
        /\ Cached!Fresh(Cached!Entry(s6[r].value), 0 + CachedLag + CachedTtl)
    BY <1>t, <1>r, <2>1, EntryFresh, CachedSizes DEF Cached!ReqType, Cached!EntryType
  <2>3. 0 + CachedLag + CachedTtl = CachedTtl + CachedLag BY CachedSizes
  <2>4. Cached!TypeOK'
    BY <1>t, <1>i, <2>0, <2>2 DEF Cached!TypeOK, Cached!ReqType, Cached!EntryType
  <2>5. Cached!Prompt(r)'
            /\ \A q \in (CachedReaders \cup CachedEditors) \ {r} : s6'[q] = s6[q]
    BY <1>r, <1>i, <2>0 DEF Cached!Prompt
  <2> QED BY <2>0, <2>2, <2>3, <2>4, <2>5, Steady
<1> QED BY <1>1, <1>2, <1>3, <1>4, <1>5, <1>6 DEF Cached!GetShared

LEMMA Dropped ==
  ASSUME Cached!CacheConstants, Cached!IInv, NEW ed \in CachedEditors,
             Cached!DropLocal(ed) \/ Cached!DropShared(ed)
  PROVE  Cached!IInv'
<1>t. Cached!TypeOK /\ Cached!Prompt(ed) BY DEF Cached!IInv
<1>i. /\ Cached!Idle \in Cached!ReqType
      /\ Cached!Idle.at = "idle"
  BY DEF Cached!Idle, Cached!Steps, Cached!ReqType, Cached!EntryType
<1>1. CASE Cached!DropLocal(ed)
  <2>0. /\ s6[ed].at = "drop" /\ s4' = [s4 EXCEPT ![s6[ed].on] = Cached!Nothing]
        /\ s6' = [s6 EXCEPT ![ed].at = "drop shared"] /\ UNCHANGED <<s1, s2, s3, s5>>
    BY <1>1 DEF Cached!DropLocal
  <2>1. /\ s6' \in [CachedReaders \cup CachedEditors -> Cached!ReqType]
        /\ s6'[ed].at = "drop shared" /\ s6'[ed].since = s6[ed].since
        /\ \A q \in (CachedReaders \cup CachedEditors) \ {ed} : s6'[q] = s6[q]
    BY <1>t, <2>0 DEF Cached!Steps, Cached!TypeOK, Cached!ReqType, Cached!EntryType
  <2>2. Cached!TypeOK'
    BY <1>t, <2>0, <2>1, NothingFresh DEF Cached!TypeOK, Cached!ReqType, Cached!EntryType
  <2>3. Cached!Prompt(ed)' BY <1>t, <2>0, <2>1 DEF Cached!Prompt
  <2>4. \A w \in CachedWorkers : s4'[w] = s4[w] \/ Cached!Fresh(s4'[w],
            2 * CachedTtl + 2 * CachedLag)
    BY <1>t, <2>0, NothingFresh DEF Cached!TypeOK, Cached!ReqType, Cached!EntryType
  <2> QED BY <2>0, <2>1, <2>2, <2>3, <2>4, Steady
<1>2. CASE Cached!DropShared(ed)
  <2>0. /\ s5' \in {s5, Cached!Nothing}
        /\ s6' = [s6 EXCEPT ![ed] = Cached!Idle] /\ UNCHANGED <<s1, s2, s3, s4>>
    BY <1>2 DEF Cached!DropShared
  <2>1. Cached!TypeOK'
    BY <1>t, <1>i, <2>0, NothingFresh DEF Cached!TypeOK, Cached!ReqType, Cached!EntryType
  <2>2. Cached!Prompt(ed)'
            /\ \A q \in (CachedReaders \cup CachedEditors) \ {ed} : s6'[q] = s6[q]
    BY <1>t, <1>i, <2>0 DEF Cached!Prompt, Cached!TypeOK, Cached!ReqType, Cached!EntryType
  <2> QED BY <2>0, <2>1, <2>2, NothingFresh, Steady
<1> QED BY <1>1, <1>2

(* The version in force is replaced now, so whatever holds it is early. *)
LEMMA Committed ==
  ASSUME Cached!CacheConstants, Cached!IInv, NEW ed \in CachedEditors,
             NEW w \in CachedWorkers, Cached!Commit(ed, w)
  PROVE  Cached!IInv'
<1>t. Cached!TypeOK /\ Cached!History /\ s1 \in Nat /\ s2 \in Cached!Versions /\ s2 \in Nat
  BY CachedSizes DEF Cached!IInv, Cached!TypeOK, Cached!ReqType, Cached!EntryType
<1>1. /\ s6[ed] = Cached!Idle /\ s2 < CachedVersions /\ s2' = s2 + 1
      /\ s3' = [s3 EXCEPT ![s2] = s1] /\ UNCHANGED <<s1, s4, s5>>
  BY DEF Cached!Commit
<1>2. s2' \in Cached!Versions BY <1>t, <1>1 DEF Cached!Versions, Cached!CacheConstants
<1> DEFINE x == [at |-> "drop", on |-> w, value |-> None, since |-> s1]
<1>3. s6' = s6 \/ s6' = [s6 EXCEPT ![ed] = x] BY DEF Cached!Commit
<1>4. x \in Cached!ReqType
  BY <1>t DEF Cached!Steps, Cached!ReqType, Cached!EntryType
<1>5. x.at = "drop" /\ x.on \in CachedWorkers /\ x.since = s1 OBVIOUS
<1> HIDE DEF x
<1>6. /\ s6' \in [CachedReaders \cup CachedEditors -> Cached!ReqType]
      /\ \A q \in (CachedReaders \cup CachedEditors) : s6'[q] = s6[q] \/ (q = ed
             /\ s6'[q] = x)
  BY <1>t, <1>3, <1>4 DEF Cached!TypeOK, Cached!ReqType, Cached!EntryType
<1>7. /\ s3' \in [Cached!Versions -> Nat \cup {None}] /\ s3'[s2] = s1
      /\ \A v \in Cached!Versions : v # s2 => s3'[v] = s3[v]
  BY <1>t, <1>1 DEF Cached!TypeOK, Cached!ReqType, Cached!EntryType
<1>8. Cached!TypeOK'
  BY <1>t, <1>1, <1>2, <1>6, <1>7 DEF Cached!TypeOK, Cached!ReqType, Cached!EntryType
<1>9. Cached!History' BY <1>t, <1>1, <1>7, CachedSizes DEF Cached!History
<1>10. ASSUME NEW v \in Cached!Versions, NEW t \in Nat, NEW late \in Nat, Cached!By(v, t,
                  late), t <= s1 + late
       PROVE Cached!By(v, t, late)'
  BY <1>t, <1>7, <1>10 DEF Cached!By
<1>11. ASSUME NEW c \in Cached!EntryType, NEW late \in Nat, Cached!Fresh(c, late),
                  late >= CachedTtl
       PROVE  Cached!Fresh(c, late)'
  <2>1. CASE c = Cached!Nothing BY <2>1 DEF Cached!Fresh
  <2>2. CASE c # Cached!Nothing
    <3>1. s1 < c.till /\ c.till <= s1 + CachedTtl /\ c.value <= s2 /\ Cached!By(c.value,
              c.till, late)
      BY <1>11, <2>2 DEF Cached!Fresh
    <3>2. c.value \in Cached!Versions /\ c.value \in Nat /\ c.till \in Nat
      BY <3>1, CachedSizes DEF Cached!By, Cached!ReqType, Cached!EntryType
    <3>3. c.till <= s1 + late BY <1>t, <1>11, <3>1, <3>2, CachedSizes
    <3>4. Cached!By(c.value, c.till, late)' BY <1>10, <3>1, <3>2, <3>3
    <3> QED BY <1>t, <1>1, <3>1, <3>2, <3>4 DEF Cached!Fresh
  <2> QED BY <2>1, <2>2
<1>12. CachedTtl + CachedLag \in Nat /\ CachedTtl + CachedLag >= CachedTtl
           /\ 2 * CachedTtl + 2 * CachedLag \in Nat
                  /\ 2 * CachedTtl + 2 * CachedLag >= CachedTtl
  BY CachedSizes
<1>13. Cached!Fresh(s5, CachedTtl + CachedLag)'
  <2>1. s5 \in Cached!EntryType BY <1>t DEF Cached!TypeOK, Cached!ReqType, Cached!EntryType
  <2>2. Cached!Fresh(s5, CachedTtl + CachedLag) BY DEF Cached!IInv
  <2> QED BY <1>1, <1>11, <1>12, <2>1, <2>2 DEF Cached!Fresh
<1>14. ASSUME NEW u \in CachedWorkers PROVE Cached!Fresh(s4[u],
                  2 * CachedTtl + 2 * CachedLag)'
  <2>1. s4[u] \in Cached!EntryType
    BY <1>t DEF Cached!TypeOK, Cached!ReqType, Cached!EntryType
  <2>2. Cached!Fresh(s4[u], 2 * CachedTtl + 2 * CachedLag) BY DEF Cached!IInv
  <2> QED BY <1>1, <1>11, <1>12, <2>1, <2>2 DEF Cached!Fresh
<1>15. ASSUME NEW q \in CachedReaders \cup CachedEditors PROVE Cached!Prompt(q)'
  <2>1. CASE q = ed /\ s6'[q] = x BY <1>t, <1>1, <1>5, <2>1, CachedSizes DEF Cached!Prompt
  <2>2. CASE s6'[q] = s6[q]
    <3>1. s6[q] \in Cached!ReqType
      BY <1>t DEF Cached!TypeOK, Cached!ReqType, Cached!EntryType
    <3>2. Cached!Prompt(q) BY DEF Cached!IInv
    <3>3. CASE s6[q].at = "found"
      <4>1. s6[q].value \in Cached!Versions /\ s6[q].value \in Nat /\ s6[q].since <= s1
                /\ Cached!By(s6[q].value, s6[q].since, CachedTtl + CachedLag)
        BY <3>2, <3>3, CachedSizes DEF Cached!Prompt, Cached!By
      <4>2. Cached!By(s6[q].value, s6[q].since, CachedTtl + CachedLag)'
        BY <1>t, <1>10, <1>12, <2>2, <3>1, <4>1 DEF Cached!ReqType, Cached!EntryType
      <4> QED BY <1>t, <1>1, <2>2, <3>2, <3>3, <4>1, <4>2 DEF Cached!Prompt
    <3>4. CASE s6[q].at \in {"loaded", "store"}
      <4>1. s6[q].value \in Cached!Versions /\ s6[q].value \in Nat /\ s6[q].since <= s1
                /\ Cached!By(s6[q].value, s6[q].since, 0)
        BY <3>2, <3>4, CachedSizes DEF Cached!Prompt, Cached!By
      <4>2. Cached!By(s6[q].value, s6[q].since, 0)'
        BY <1>t, <1>10, <2>2, <3>1, <4>1 DEF Cached!ReqType, Cached!EntryType
      <4> QED BY <1>t, <1>1, <2>2, <3>2, <3>4, <4>1, <4>2 DEF Cached!Prompt
    <3>5. CASE s6[q].at \notin {"found", "loaded", "store"}
      BY <1>1, <2>2, <3>2, <3>5 DEF Cached!Prompt
    <3> QED BY <3>3, <3>4, <3>5
  <2> QED BY <1>6, <2>1, <2>2
<1> QED BY <1>8, <1>9, <1>13, <1>14, <1>15 DEF Cached!IInv

LEMMA Evicted ==
  ASSUME Cached!CacheConstants, Cached!IInv, NEW w \in CachedWorkers, Cached!Evict(w)
  PROVE  Cached!IInv'
<1>t. Cached!TypeOK BY DEF Cached!IInv
<1>1. s4' = [s4 EXCEPT ![w] = Cached!Nothing] /\ UNCHANGED <<s1, s2, s3, s5, s6>>
  BY DEF Cached!Evict
<1>2. Cached!TypeOK'
  BY <1>t, <1>1, NothingFresh DEF Cached!TypeOK, Cached!ReqType, Cached!EntryType
<1>3. ASSUME NEW u \in CachedWorkers PROVE Cached!Fresh(s4[u],
                 2 * CachedTtl + 2 * CachedLag)'
  <2>1. s4'[u] = s4[u] \/ s4'[u] = Cached!Nothing
    BY <1>t, <1>1 DEF Cached!TypeOK, Cached!ReqType, Cached!EntryType
  <2>2. Cached!Fresh(s4[u], 2 * CachedTtl + 2 * CachedLag) BY DEF Cached!IInv
  <2> QED BY <1>1, <2>1, <2>2 DEF Cached!Fresh, Cached!By, Cached!Nothing
<1> QED BY <1>1, <1>2, <1>3 DEF Cached!IInv, Cached!History, Cached!Fresh, Cached!By,
  Cached!Prompt, Cached!Nothing

LEMMA Ticked ==
  ASSUME Cached!CacheConstants, Cached!IInv, Cached!Tick
  PROVE  Cached!IInv'
<1>t. Cached!TypeOK /\ s1 \in Nat
  BY DEF Cached!IInv, Cached!TypeOK, Cached!ReqType, Cached!EntryType
<1>1. /\ s1' = s1 + 1 /\ UNCHANGED <<s2, s3, s6>>
      /\ s4' = [w \in CachedWorkers |-> Cached!Lives(s4[w])] /\ s5' = Cached!Lives(s5)
      /\ \A r \in CachedReaders \cup CachedEditors : s6[r] # Cached!Idle
             => s1 < s6[r].since + CachedLag
  BY DEF Cached!Tick
<1>2. ASSUME NEW c \in Cached!EntryType, NEW late, Cached!Fresh(c, late)
      PROVE  /\ Cached!Lives(c) \in Cached!EntryType
             /\ Cached!Lives(c) = Cached!Nothing \/ (Cached!Lives(c) = c /\ s1 + 1 < c.till)
  BY <1>t, <1>2, NothingFresh DEF Cached!Lives, Cached!ReqType, Cached!EntryType
<1>3. ASSUME NEW c \in Cached!EntryType, NEW d, NEW late, Cached!Fresh(c, late),
             d = Cached!Nothing \/ (d = c /\ s1 + 1 < c.till)
      PROVE  d # Cached!Nothing => /\ s1' < d.till /\ d.till <= s1' + CachedTtl
                            /\ d.value <= s2' /\ d.value \in Cached!Versions
                            /\ (s3'[d.value] # None => d.till <= s3'[d.value] + late)
  <2>1. CASE d = Cached!Nothing BY <2>1
  <2>2. CASE d # Cached!Nothing
    <3>1. d = c /\ s1 + 1 < c.till /\ c.till <= s1 + CachedTtl /\ c.value <= s2
              /\ Cached!By(c.value, c.till, late)
      BY <1>3, <2>2 DEF Cached!Fresh
    <3>2. c.till \in Nat /\ c.till <= (s1 + 1) + CachedTtl
      BY <1>t, <3>1, CachedSizes DEF Cached!ReqType, Cached!EntryType
    <3> QED BY <1>1, <3>1, <3>2 DEF Cached!By
  <2> QED BY <2>1, <2>2
<1>4. /\ s4 \in [CachedWorkers -> Cached!EntryType]
      /\ s5 \in Cached!EntryType
      /\ \A w \in CachedWorkers : Cached!Fresh(s4[w], 2 * CachedTtl + 2 * CachedLag)
      /\ Cached!Fresh(s5, CachedTtl + CachedLag)
  BY <1>t DEF Cached!IInv, Cached!TypeOK, Cached!ReqType, Cached!EntryType
<1>5. /\ s4' \in [CachedWorkers -> Cached!EntryType]
      /\ s5' \in Cached!EntryType
      /\ \A w \in CachedWorkers : s4'[w] = Cached!Nothing \/ (s4'[w] = s4[w]
             /\ s1 + 1 < s4[w].till)
      /\ s5' = Cached!Nothing \/ (s5' = s5 /\ s1 + 1 < s5.till)
  BY <1>1, <1>2, <1>4
<1>6. Cached!TypeOK' BY <1>t, <1>1, <1>5 DEF Cached!TypeOK, Cached!ReqType, Cached!EntryType
<1>7. ASSUME NEW w \in CachedWorkers PROVE Cached!Fresh(s4[w],
                 2 * CachedTtl + 2 * CachedLag)'
  <2>1. s4[w] \in Cached!EntryType BY <1>4
  <2> QED BY <1>3, <1>4, <1>5, <2>1 DEF Cached!Fresh, Cached!By, Cached!Nothing
<1>8. Cached!Fresh(s5, CachedTtl + CachedLag)'
  BY <1>3, <1>4, <1>5 DEF Cached!Fresh, Cached!By, Cached!Nothing
<1>9. ASSUME NEW r \in CachedReaders \cup CachedEditors PROVE Cached!Prompt(r)'
  <2>1. s6[r].at # "idle" => s1 < s6[r].since + CachedLag BY <1>1 DEF Cached!Idle
  <2>2. s6[r].since \in Nat BY <1>t DEF Cached!TypeOK, Cached!ReqType, Cached!EntryType
  <2>3. Cached!Prompt(r) BY DEF Cached!IInv
  <2> QED BY <1>t, <1>1, <2>1, <2>2, <2>3, CachedSizes DEF Cached!Prompt, Cached!By
<1>10. Cached!History' BY <1>1 DEF Cached!IInv, Cached!History
<1> QED BY <1>6, <1>7, <1>8, <1>9, <1>10 DEF Cached!IInv

LEMMA CachedNext == ASSUME Cached!CacheConstants, Cached!IInv,
    [Cached!Next]_(Cached!vars) PROVE Cached!IInv'
<1>1. CASE UNCHANGED Cached!vars
  BY <1>1 DEF Cached!vars, Cached!IInv, Cached!TypeOK, Cached!ReqType, Cached!EntryType,
     Cached!History, Cached!Fresh, Cached!By, Cached!Prompt, Cached!Nothing
<1>2. CASE Cached!Next
  BY <1>2, Ticked, Evicted, Asked, ReaderSteps, Committed, Dropped DEF Cached!Next
<1> QED BY <1>1, <1>2

LEMMA CachedStaleness == ASSUME Cached!CacheConstants,
    Cached!IInv PROVE Cached!StalenessBounded
<1>t. Cached!TypeOK /\ s1 \in Nat
  BY DEF Cached!IInv, Cached!TypeOK, Cached!ReqType, Cached!EntryType
<1> SUFFICES ASSUME NEW v \in Cached!Offered, s3[v] # None
             PROVE  s1 < s3[v] + 2 * CachedTtl + 2 * CachedLag
  BY DEF Cached!StalenessBounded
<1>1. CASE \E w \in CachedWorkers : s4[w] # Cached!Nothing /\ v = s4[w].value
  <2>1. PICK w \in CachedWorkers : s4[w] # Cached!Nothing /\ v = s4[w].value BY <1>1
  <2>2. s1 < s4[w].till /\ v \in Cached!Versions
            /\ s4[w].till <= s3[v] + (2 * CachedTtl + 2 * CachedLag)
    BY <2>1 DEF Cached!IInv, Cached!Fresh, Cached!By
  <2>3. s4[w].till \in Nat /\ s3[v] \in Nat
    BY <1>t, <2>1, <2>2 DEF Cached!TypeOK, Cached!ReqType, Cached!EntryType
  <2> QED BY <1>t, <2>2, <2>3, CachedSizes
<1>2. CASE \E r \in CachedReaders : s6[r].at \in {"found", "store"} /\ v = s6[r].value
  <2>1. PICK r \in CachedReaders : s6[r].at \in {"found", "store"} /\ v = s6[r].value
    BY <1>2
  <2>2. /\ s1 <= s6[r].since + CachedLag /\ v \in Cached!Versions
        /\ s6[r].since <= s3[v] + (CachedTtl + CachedLag) \/ s6[r].since <= s3[v] + 0
    BY <2>1 DEF Cached!IInv, Cached!Prompt, Cached!By
  <2>3. s6[r].since \in Nat /\ s3[v] \in Nat
    BY <1>t, <2>1, <2>2 DEF Cached!TypeOK, Cached!ReqType, Cached!EntryType
  <2> QED BY <1>t, <2>2, <2>3, CachedSizes
<1> QED BY <1>1, <1>2 DEF Cached!Offered

-----------------------------------------------------------------------------
(* Connection pool. Here s1 to s9 are now, up, ready, probe, nextAt,      *)
(* failed, req, data and count.                                            *)
(* Nothing waits and nothing was probed yet.                               *)
LEMMA PoolInit == ASSUME Pool!DatabaseConstants, Pool!Init PROVE Pool!IInv
BY DEF Pool!DatabaseConstants, Pool!Init, Pool!IInv, Pool!TypeOK, Pool!ProbesSpaced,
   Pool!Waits, Pool!Idle, Pool!NoProbe, Pool!None0, Pool!Tries

(* What is left of an attempt's budget, for an attempt that is one of the  *)
(* Attempts.                                                               *)
LEMMA AttemptBudget ==
  ASSUME Pool!DatabaseConstants, NEW k \in Pool!Tries, NEW n \in Nat
  PROVE  /\ n + (k - 1) * (PoolWait + PoolCommand) \in Nat
         /\ n + (1 - 1) * (PoolWait + PoolCommand) = n
         /\ n + (k - 1) * (PoolWait + PoolCommand) + (PoolWait + PoolCommand)
              = n + k * (PoolWait + PoolCommand)
         /\ n + k * (PoolWait + PoolCommand) <= n + PoolAttempts * (PoolWait + PoolCommand)
<1>1. PICK l \in Nat : l = PoolWait + PoolCommand BY DEF Pool!DatabaseConstants
<1>2. k \in Nat /\ k - 1 \in Nat /\ k <= PoolAttempts /\ PoolAttempts - k \in Nat
        /\ PoolAttempts \in Nat
  BY DEF Pool!Tries, Pool!DatabaseConstants
<1>3. (k - 1) * l \in Nat /\ (k - 1) * l + l = k * l /\ (1 - 1) * l = 0 BY <1>1, <1>2
<1>4. (PoolAttempts - k) * l \in Nat /\ (PoolAttempts - k) * l = PoolAttempts * l - k * l
        /\ k * l \in Nat /\ PoolAttempts * l \in Nat
  BY <1>1, <1>2
<1> QED BY <1>1, <1>3, <1>4

(* An attempt begins, in time for its budget. *)
LEMMA AttemptBegins ==
  ASSUME Pool!DatabaseConstants, Pool!IInv, NEW r \in PoolRequests, NEW k \in Pool!Tries,
         Pool!Attempt(r, k),
         s1' = s1,
         k = 1 \/ s1 <= s7[r].since + (k - 1) * (PoolWait + PoolCommand)
  PROVE  /\ s7' \in [PoolRequests -> [at : {"idle", "probe", "data", "count"},
                                      attempt : 0..PoolAttempts,
                           since : Nat]]
         /\ s8' \in [PoolRequests -> Pool!Waits]
         /\ s9' \in [PoolRequests -> [Pool!Tries -> Pool!Waits]]
         /\ \A q \in PoolRequests : s7'[q].at \in {"data", "count"} => Pool!Timely(q)'
<1> DEFINE x == [at |-> "data", attempt |-> k, since |-> IF k = 1 THEN s1 ELSE s7[r].since]
           w == [st |-> "wait", since |-> s1]
           c == [Pool!Orphans(r) EXCEPT ![k] = w]
<1>t. /\ s1 \in Nat /\ s7[r].since \in Nat /\ PoolWait \in Nat /\ PoolCommand \in Nat
      /\ Pool!TypeOK
  BY DEF Pool!IInv, Pool!TypeOK, Pool!DatabaseConstants
<1>1. x \in [at : {"idle", "probe", "data", "count"}, attempt : 0..PoolAttempts,
             since : Nat]
  BY <1>t DEF Pool!Tries, Pool!DatabaseConstants
<1>2. w \in Pool!Waits /\ w.st = "wait" /\ w.since = s1 BY <1>t DEF Pool!Waits
<1>3. c \in [Pool!Tries -> Pool!Waits] /\ c[k] = w
  <2>1. \A j \in Pool!Tries : Pool!Orphans(r)[j] \in Pool!Waits
    BY <1>t DEF Pool!Orphans, Pool!TypeOK, Pool!Waits, Pool!None0
  <2>2. Pool!Orphans(r) \in [Pool!Tries -> Pool!Waits] BY <2>1 DEF Pool!Orphans
  <2> QED BY <1>2, <2>2
<1>4. x.at = "data" /\ x.attempt = k /\ x.since = IF k = 1 THEN s1 ELSE s7[r].since
  OBVIOUS
<1>6. /\ s7' = [s7 EXCEPT ![r] = x] /\ s8' = [s8 EXCEPT ![r] = w]
      /\ s9' = [s9 EXCEPT ![r] = c]
  BY DEF Pool!Attempt
<1> HIDE DEF x, w, c
<1>7. /\ s7' \in [PoolRequests -> [at : {"idle", "probe", "data", "count"},
                                   attempt : 0..PoolAttempts,
                           since : Nat]]
      /\ s8' \in [PoolRequests -> Pool!Waits]
           /\ s9' \in [PoolRequests -> [Pool!Tries -> Pool!Waits]]
  BY <1>t, <1>1, <1>2, <1>3, <1>6 DEF Pool!TypeOK
<1>8. ASSUME NEW q \in PoolRequests, s7'[q].at \in {"data", "count"} PROVE Pool!Timely(q)'
  <2>1. CASE q # r
    <3>1. s7'[q] = s7[q] /\ s8'[q] = s8[q] /\ s9'[q] = s9[q]
      BY <1>t, <1>6, <2>1 DEF Pool!TypeOK
    <3> QED BY <1>8, <3>1 DEF Pool!IInv, Pool!Timely, Pool!Begun, Pool!OnTime
  <2>2. CASE q = r
    <3>1. s7'[q] = x /\ s8'[q] = w /\ s9'[q] = c BY <1>t, <1>6, <2>2 DEF Pool!TypeOK
    <3>2. PICK b \in Nat : b = x.since + (k - 1) * (PoolWait + PoolCommand)
      BY <1>t, <1>4, AttemptBudget
    <3>3. s1 <= b
      <4>1. CASE k = 1 BY <1>t, <1>4, <3>2, <4>1, AttemptBudget
      <4>2. CASE k # 1 BY <1>t, <1>4, <3>2, <4>2
      <4> QED BY <4>1, <4>2
    <3>4. Pool!Begun(q)' = b BY <1>4, <3>1, <3>2 DEF Pool!Begun
    <3>5. Pool!OnTime(w, b) BY <1>t, <1>2, <3>3 DEF Pool!OnTime
    <3>6. s1 <= b + (PoolWait + PoolCommand) BY <1>t, <3>3
    <3> QED BY <1>2, <1>3, <1>4, <3>1, <3>4, <3>5, <3>6 DEF Pool!Timely, Pool!OnTime
  <2> QED BY <2>1, <2>2
<1> QED BY <1>7, <1>8

(* A step of the request r, or of its tasks, that begins no attempt: the   *)
(* others are as they were.                                                *)
LEMMA PoolWaits ==
  ASSUME Pool!DatabaseConstants, Pool!IInv, NEW r \in PoolRequests,
         UNCHANGED <<s1, Pool!warm>>,
         s7' \in [PoolRequests -> [at : {"idle", "probe", "data", "count"},
                                   attempt : 0..PoolAttempts,
                           since : Nat]],
         s8' \in [PoolRequests -> Pool!Waits],
         s9' \in [PoolRequests -> [Pool!Tries -> Pool!Waits]],
         \A q \in PoolRequests \ {r} : s7'[q] = s7[q] /\ s8'[q] = s8[q] /\ s9'[q] = s9[q],
         s7'[r].at \in {"data", "count"} => Pool!Timely(r)'
  PROVE  Pool!IInv'
<1>1. Pool!TypeOK' BY DEF Pool!IInv, Pool!TypeOK, Pool!warm
<1>2. ASSUME NEW q \in PoolRequests, s7'[q].at \in {"data", "count"} PROVE Pool!Timely(q)'
  <2>1. CASE q # r BY <1>2, <2>1 DEF Pool!IInv, Pool!Timely, Pool!Begun, Pool!OnTime
  <2>2. CASE q = r BY <1>2, <2>2
  <2> QED BY <2>1, <2>2
<1> QED BY <1>1, <1>2 DEF Pool!IInv, Pool!ProbesSpaced, Pool!warm

(* A request whose probe is over, or that goes on without one, comes in. *)
LEMMA ProbePasses ==
  ASSUME Pool!DatabaseConstants, Pool!IInv,
         Pool!ProbeAnswers \/ Pool!ProbeFails \/ \E r \in PoolRequests : Pool!Pass(r)
           \/ Pool!StartProbe(r)
  PROVE  Pool!IInv'
<1>t. /\ s1 \in Nat /\ s4 \in [by : PoolRequests \cup {None}, since : Nat, held : BOOLEAN]
      /\ 1 \in Pool!Tries /\ None \notin PoolRequests /\ PoolCooldown \in Nat
  BY DEF Pool!IInv, Pool!TypeOK, Pool!Tries, Pool!DatabaseConstants
<1>1. ASSUME NEW r \in PoolRequests, Pool!Attempt(r, 1), s1' = s1, s5' \in Nat,
             s6' \in Nat \cup {None},
             s4' \in [by : PoolRequests \cup {None}, since : Nat, held : BOOLEAN],
             Pool!ProbesSpaced',
             s4'.held => s4'.by # None,
             s6' # None => s5' = s6' + PoolCooldown
      PROVE  Pool!IInv'
  <2>1. /\ s7' \in [PoolRequests -> [at : {"idle", "probe", "data", "count"},
                                     attempt : 0..PoolAttempts,
                           since : Nat]]
        /\ s8' \in [PoolRequests -> Pool!Waits]
             /\ s9' \in [PoolRequests -> [Pool!Tries -> Pool!Waits]]
        /\ \A q \in PoolRequests : s7'[q].at \in {"data", "count"} => Pool!Timely(q)'
    BY <1>1, <1>t, AttemptBegins
  <2> QED BY <1>1, <1>t, <2>1 DEF Pool!IInv, Pool!TypeOK
<1>2. ASSUME NEW r \in PoolRequests, Pool!Pass(r) PROVE Pool!IInv'
  <2>1. UNCHANGED <<s1, Pool!warm>> /\ Pool!Attempt(r, 1) BY <1>2 DEF Pool!Pass
  <2> QED BY <1>1, <2>1 DEF Pool!IInv, Pool!TypeOK, Pool!ProbesSpaced, Pool!warm
<1>3. ASSUME NEW r \in PoolRequests, Pool!StartProbe(r) PROVE Pool!IInv'
  <2> DEFINE x == [at |-> "probe", attempt |-> 0, since |-> s1]
  <2>1. /\ s1 >= s5 /\ s4' = [by |-> r, since |-> s1, held |-> FALSE]
        /\ s7' = [s7 EXCEPT ![r] = x]
        /\ UNCHANGED <<s1, s5, s6, s8, s9>>
    BY <1>3 DEF Pool!StartProbe
  <2>2. x \in [at : {"idle", "probe", "data", "count"}, attempt : 0..PoolAttempts,
               since : Nat]
    BY <1>t DEF Pool!DatabaseConstants
  <2>3. x.at = "probe" OBVIOUS
  <2> HIDE DEF x
  <2>4. Pool!TypeOK' BY <1>t, <2>1, <2>2 DEF Pool!IInv, Pool!TypeOK
  <2>5. Pool!ProbesSpaced' /\ (s6' # None => s5' = s6' + PoolCooldown) /\ ~s4'.held
    BY <1>t, <2>1 DEF Pool!IInv, Pool!ProbesSpaced
  <2>6. \A q \in PoolRequests : s7'[q] = IF q = r THEN x ELSE s7[q]
    BY <2>1 DEF Pool!IInv, Pool!TypeOK
  <2>7. \A q \in PoolRequests : s7'[q].at \in {"data", "count"} => Pool!Timely(q)'
    BY <2>1, <2>3, <2>6 DEF Pool!IInv, Pool!Timely, Pool!Begun, Pool!OnTime
  <2> QED BY <2>4, <2>5, <2>7 DEF Pool!IInv
<1>4. CASE Pool!ProbeAnswers
  <2>1. /\ s4.by \in PoolRequests /\ Pool!Attempt(s4.by, 1) /\ s4' = Pool!NoProbe
        /\ UNCHANGED <<s1, s5, s6>>
    BY <1>4, <1>t DEF Pool!ProbeAnswers, Pool!IInv
  <2> QED BY <1>1, <1>t, <2>1 DEF Pool!IInv, Pool!TypeOK, Pool!ProbesSpaced, Pool!NoProbe
<1>5. CASE Pool!ProbeFails
  <2>1. /\ s4.by \in PoolRequests /\ Pool!Attempt(s4.by, 1) /\ s4' = Pool!NoProbe
        /\ s1' = s1 /\ s5' = s1 + PoolCooldown /\ s6' = s1
    BY <1>5, <1>t DEF Pool!ProbeFails, Pool!PauseOver
  <2> QED BY <1>1, <1>t, <2>1 DEF Pool!ProbesSpaced, Pool!NoProbe
<1> QED BY <1>2, <1>3, <1>4, <1>5

(* A request that gives up an attempt begins the next, or none. *)
LEMMA AttemptRetried ==
  ASSUME Pool!DatabaseConstants, Pool!IInv, NEW r \in PoolRequests,
         Pool!DataFails(r) \/ Pool!CountRaised(r) \/ Pool!Respond(r)
  PROVE  Pool!IInv'
<1> DEFINE k == s7[r].attempt
<1>t. /\ Pool!TypeOK /\ Pool!Timely(r) /\ UNCHANGED <<s1, Pool!warm>> /\ k \in Pool!Tries
           /\ (Pool!Retry(r) \/ Pool!End(r))
  BY DEF Pool!IInv, Pool!DataFails, Pool!CountRaised, Pool!Respond, Pool!Timely
<1>1. ASSUME Pool!Attempt(r, k + 1), k + 1 \in Pool!Tries PROVE Pool!IInv'
  <2>1. /\ s1 <= Pool!Begun(r) + (PoolWait + PoolCommand)
        /\ Pool!Begun(r) + (PoolWait + PoolCommand)
             = s7[r].since + k * (PoolWait + PoolCommand)
    BY <1>t, AttemptBudget DEF Pool!TypeOK, Pool!Timely, Pool!Begun
  <2>2. (k + 1) - 1 = k BY <1>t DEF Pool!Tries
  <2>3. s1 <= s7[r].since + ((k + 1) - 1) * (PoolWait + PoolCommand) BY <2>1, <2>2
  <2>4. /\ s7' \in [PoolRequests -> [at : {"idle", "probe", "data", "count"},
                                     attempt : 0..PoolAttempts,
                           since : Nat]]
        /\ s8' \in [PoolRequests -> Pool!Waits]
             /\ s9' \in [PoolRequests -> [Pool!Tries -> Pool!Waits]]
        /\ \A q \in PoolRequests : s7'[q].at \in {"data", "count"} => Pool!Timely(q)'
    BY <1>1, <1>t, <2>3, AttemptBegins
  <2> QED BY <1>t, <2>4 DEF Pool!IInv, Pool!TypeOK, Pool!ProbesSpaced, Pool!warm
<1>2. ASSUME Pool!End(r) PROVE Pool!IInv'
  <2>1. /\ s7' = [s7 EXCEPT ![r] = Pool!Idle] /\ s8' = [s8 EXCEPT ![r] = Pool!None0]
        /\ s9' = [s9 EXCEPT ![r] = Pool!Orphans(r)]
    BY <1>2 DEF Pool!End
  <2>2. Pool!Orphans(r) \in [Pool!Tries -> Pool!Waits]
    <3>1. \A j \in Pool!Tries : Pool!Orphans(r)[j] \in Pool!Waits
      BY <1>t DEF Pool!Orphans, Pool!TypeOK, Pool!Waits, Pool!None0
    <3> QED BY <3>1 DEF Pool!Orphans
  <2>3. /\ Pool!Idle
             \in [at : {"idle", "probe", "data", "count"}, attempt : 0..PoolAttempts,
                  since : Nat]
        /\ Pool!Idle.at = "idle" /\ Pool!None0 \in Pool!Waits
    BY DEF Pool!Idle, Pool!None0, Pool!Waits, Pool!DatabaseConstants
  <2>4. /\ s7' \in [PoolRequests -> [at : {"idle", "probe", "data", "count"},
                                     attempt : 0..PoolAttempts,
                           since : Nat]]
        /\ s8' \in [PoolRequests -> Pool!Waits]
             /\ s9' \in [PoolRequests -> [Pool!Tries -> Pool!Waits]]
    BY <1>t, <2>1, <2>2, <2>3 DEF Pool!TypeOK
  <2>5. /\ s7'[r].at = "idle"
        /\ \A q \in PoolRequests \ {r} : s7'[q] = s7[q] /\ s8'[q] = s8[q] /\ s9'[q] = s9[q]
    BY <1>t, <2>1, <2>3 DEF Pool!TypeOK
  <2> QED BY <1>t, <2>4, <2>5, PoolWaits
<1>3. k \in Nat /\ (k < PoolAttempts => k + 1 \in Pool!Tries)
  BY <1>t DEF Pool!Tries, Pool!DatabaseConstants
<1> HIDE DEF k
<1>4. Pool!Retry(r) => (Pool!Attempt(r, k + 1) /\ k < PoolAttempts) \/ Pool!End(r)
  BY DEF Pool!Retry, k
<1> QED BY <1>t, <1>1, <1>2, <1>3, <1>4

(* Connections that are taken and answers that arrive. *)
LEMMA ProbeConnected ==
  ASSUME Pool!DatabaseConstants, Pool!IInv, NEW r \in PoolRequests,
         \/ Pool!TakeData(r) \/ Pool!DataAnswers(r)
         \/ \E k \in Pool!Tries : Pool!TakeCount(r, k) \/ Pool!CountAnswers(r, k)
              \/ Pool!CountFails(r, k)
  PROVE  Pool!IInv'
<1>t. /\ Pool!TypeOK /\ s1 \in Nat /\ s8[r] \in Pool!Waits /\ \A k \in Pool!Tries :
           s9[r][k] \in Pool!Waits
      /\ PoolWait \in Nat /\ PoolCommand \in Nat
      /\ s7[r] \in [at : {"idle", "probe", "data", "count"}, attempt : 0..PoolAttempts,
                    since : Nat]
  BY DEF Pool!IInv, Pool!TypeOK, Pool!DatabaseConstants
<1>b. ASSUME s7[r].at \in {"data", "count"} PROVE Pool!Begun(r) \in Nat
  BY <1>t, <1>b, AttemptBudget DEF Pool!IInv, Pool!Timely, Pool!Begun
<1>1. ASSUME NEW w \in Pool!Waits, s8' = [s8 EXCEPT ![r] = w],
             UNCHANGED <<s1, Pool!warm, s7, s9>>,
             s7[r].at = "data" => w.st \in {"wait", "held"} /\ Pool!OnTime(w, Pool!Begun(r))
      PROVE  Pool!IInv'
  <2>1. s8' \in [PoolRequests -> Pool!Waits] /\ s8'[r] = w /\ \A q \in PoolRequests \ {r} :
          s8'[q] = s8[q]
    BY <1>t, <1>1 DEF Pool!TypeOK
  <2>2. s7[r].at \in {"data", "count"} => Pool!Timely(r)'
    BY <1>1, <2>1 DEF Pool!IInv, Pool!Timely, Pool!Begun, Pool!OnTime
  <2> QED BY <1>t, <1>1, <2>1, <2>2, PoolWaits DEF Pool!TypeOK
<1>2. ASSUME NEW k \in Pool!Tries, NEW w \in Pool!Waits, s9' = [s9 EXCEPT ![r][k] = w],
             UNCHANGED <<s1, Pool!warm, s7, s8>>,
             s7[r].at \in {"data", "count"} /\ s7[r].attempt = k
               => w.st # "none" /\ Pool!OnTime(w, Pool!Begun(r))
      PROVE  Pool!IInv'
  <2>1. /\ s9' \in [PoolRequests -> [Pool!Tries -> Pool!Waits]]
        /\ \A q \in PoolRequests \ {r} : s9'[q] = s9[q]
        /\ \A j \in Pool!Tries : s9'[r][j] = IF j = k THEN w ELSE s9[r][j]
    BY <1>t, <1>2 DEF Pool!TypeOK
  <2>2. s7[r].at \in {"data", "count"} => Pool!Timely(r)'
    BY <1>2, <2>1 DEF Pool!IInv, Pool!Timely, Pool!Begun, Pool!OnTime
  <2> QED BY <1>t, <1>2, <2>1, <2>2, PoolWaits DEF Pool!TypeOK
<1>3. CASE Pool!TakeData(r)
  <2> DEFINE w == [st |-> "held", since |-> s1]
  <2>1. w \in Pool!Waits /\ w.st = "held" /\ w.since = s1 BY <1>t DEF Pool!Waits
  <2>2. /\ s8[r].st = "wait" /\ s8' = [s8 EXCEPT ![r] = w]
        /\ UNCHANGED <<s1, Pool!warm, s7, s9>>
    BY <1>3 DEF Pool!TakeData
  <2> HIDE DEF w
  <2>3. s7[r].at = "data" => Pool!OnTime(w, Pool!Begun(r))
    <3>1. SUFFICES ASSUME s7[r].at = "data" PROVE Pool!OnTime(w, Pool!Begun(r)) OBVIOUS
    <3>2. Pool!Begun(r) \in Nat /\ Pool!OnTime(s8[r], Pool!Begun(r))
      BY <3>1, <1>b DEF Pool!IInv, Pool!Timely
    <3> QED BY <1>t, <2>1, <2>2, <3>2 DEF Pool!OnTime, Pool!Waits
  <2> QED BY <1>1, <2>1, <2>2, <2>3
<1>4. CASE Pool!DataAnswers(r)
  <2> DEFINE x == [s7[r] EXCEPT !.at = "count"]
             w == [s8[r] EXCEPT !.since = 0]
  <2>1. /\ s7[r].at = "data" /\ s7' = [s7 EXCEPT ![r] = x] /\ s8' = [s8 EXCEPT ![r] = w]
        /\ UNCHANGED <<s1, Pool!warm, s9>>
    BY <1>t, <1>4 DEF Pool!DataAnswers, Pool!TypeOK
  <2>2. /\ w \in Pool!Waits /\ x.at = "count" /\ x.attempt = s7[r].attempt
             /\ x.since = s7[r].since
        /\ x \in [at : {"idle", "probe", "data", "count"}, attempt : 0..PoolAttempts,
                  since : Nat]
    BY <1>t DEF Pool!Waits
  <2> HIDE DEF x, w
  <2>3. /\ s7' \in [PoolRequests -> [at : {"idle", "probe", "data", "count"},
                                     attempt : 0..PoolAttempts,
                           since : Nat]]
        /\ s8' \in [PoolRequests -> Pool!Waits] /\ s7'[r] = x
        /\ \A q \in PoolRequests \ {r} : s7'[q] = s7[q] /\ s8'[q] = s8[q]
    BY <1>t, <2>1, <2>2 DEF Pool!TypeOK
  <2>4. Pool!Timely(r)'
    BY <2>1, <2>2, <2>3 DEF Pool!IInv, Pool!Timely, Pool!Begun, Pool!OnTime
  <2> QED BY <1>t, <2>1, <2>3, <2>4, PoolWaits DEF Pool!TypeOK
<1>5. ASSUME NEW k \in Pool!Tries, Pool!TakeCount(r, k) PROVE Pool!IInv'
  <2> DEFINE w == [st |-> "held", since |-> s1]
  <2>1. w \in Pool!Waits /\ w.st = "held" /\ w.since = s1 BY <1>t DEF Pool!Waits
  <2>2. /\ s9[r][k].st = "wait" /\ s9' = [s9 EXCEPT ![r][k] = w]
        /\ UNCHANGED <<s1, Pool!warm, s7, s8>>
    BY <1>5 DEF Pool!TakeCount
  <2> HIDE DEF w
  <2>3. ASSUME s7[r].at \in {"data", "count"}, s7[r].attempt = k
        PROVE  Pool!OnTime(w, Pool!Begun(r))
    <3>2. Pool!Begun(r) \in Nat /\ Pool!OnTime(s9[r][k], Pool!Begun(r))
      BY <2>3, <1>b DEF Pool!IInv, Pool!Timely
    <3> QED BY <1>t, <2>1, <2>2, <3>2 DEF Pool!OnTime, Pool!Waits
  <2> QED BY <1>2, <2>1, <2>2, <2>3
<1>6. ASSUME NEW k \in Pool!Tries, Pool!CountAnswers(r, k) \/ Pool!CountFails(r, k)
      PROVE  Pool!IInv'
  <2>1. PICK st \in {"done", "failed"} :
          s9' = [s9 EXCEPT ![r][k] = Pool!Outcome(r, k, st)]
            /\ UNCHANGED <<s1, Pool!warm, s7, s8>>
    BY <1>6 DEF Pool!CountAnswers, Pool!CountFails
  <2>2. Pool!Outcome(r, k, st) \in Pool!Waits BY DEF Pool!Outcome, Pool!Waits, Pool!None0
  <2>3. s7[r].at \in {"data", "count"} /\ s7[r].attempt = k
          => Pool!Outcome(r, k, st).st # "none"
            /\ Pool!OnTime(Pool!Outcome(r, k, st), Pool!Begun(r))
    BY DEF Pool!Outcome, Pool!Awaited, Pool!OnTime
  <2> QED BY <1>2, <2>1, <2>2, <2>3
<1> QED BY <1>3, <1>4, <1>5, <1>6

(* Time goes on only while no wait is over. *)
LEMMA PoolTicks == ASSUME Pool!DatabaseConstants, Pool!IInv, Pool!Tick PROVE Pool!IInv'
<1>1. s1' = s1 + 1 /\ UNCHANGED <<s2, Pool!warm, s7, s8, s9>> BY DEF Pool!Tick
<1>2. Pool!TypeOK' BY <1>1 DEF Pool!IInv, Pool!TypeOK, Pool!warm
<1>3. ASSUME NEW r \in PoolRequests, s7[r].at \in {"data", "count"} PROVE Pool!Timely(r)'
  <2> DEFINE k == s7[r].attempt
  <2>t. /\ s1 \in Nat /\ s8[r] \in Pool!Waits /\ s9[r][k] \in Pool!Waits
             /\ k \in Pool!Tries /\ Pool!Timely(r)
        /\ PoolWait \in Nat /\ PoolCommand \in Nat /\ Pool!Begun(r) \in Nat
    <3>1. k \in Pool!Tries /\ Pool!Timely(r) /\ Pool!TypeOK /\ s7[r].since \in Nat
      BY <1>3 DEF Pool!IInv, Pool!Timely, Pool!TypeOK
    <3>2. Pool!Begun(r) \in Nat BY <3>1, AttemptBudget DEF Pool!Begun
    <3> QED BY <3>1, <3>2 DEF Pool!TypeOK, Pool!DatabaseConstants
  <2>1. /\ ~Pool!Due(s9[r][k]) /\ (s7[r].at = "data" => ~Pool!Due(s8[r]))
        /\ s7[r].at = "count" => s9[r][k].st \in {"wait", "held"}
    BY <2>t DEF Pool!Tick, Pool!Result, Pool!Waits, Pool!Timely
  <2> HIDE DEF k
  <2>2. ASSUME NEW w \in Pool!Waits, ~Pool!Due(w), Pool!OnTime(w, Pool!Begun(r))
        PROVE  /\ w.st = "wait" => w.since <= Pool!Begun(r) /\ s1 + 1 <= w.since + PoolWait
               /\ w.st = "held"
                    => w.since <= Pool!Begun(r) + PoolWait
                      /\ s1 + 1 <= w.since + PoolCommand
               /\ w.st \in {"wait", "held"}
                    => s1 + 1 <= Pool!Begun(r) + (PoolWait + PoolCommand)
    BY <2>t, <2>2 DEF Pool!Due, Pool!WaitOver, Pool!QueryOver, Pool!OnTime, Pool!Waits
  <2>3. UNCHANGED <<s8[r], s9[r][k], s7[r]>> /\ Pool!Begun(r)' = Pool!Begun(r) /\ k' = k
    BY <1>1 DEF Pool!Begun, k
  <2>4. s1 + 1 <= Pool!Begun(r) + (PoolWait + PoolCommand)
    BY <1>3, <2>t, <2>1, <2>2 DEF Pool!Timely, k
  <2>5. Pool!OnTime(s9[r][k], Pool!Begun(r))'
    BY <1>1, <2>t, <2>1, <2>2, <2>3 DEF Pool!Timely, Pool!OnTime, k
  <2>6. s7[r].at = "data" => Pool!OnTime(s8[r], Pool!Begun(r))'
    BY <1>1, <2>t, <2>1, <2>2, <2>3 DEF Pool!Timely, Pool!OnTime, k
  <2> QED BY <1>1, <2>t, <2>3, <2>4, <2>5, <2>6 DEF Pool!Timely, k
<1> QED BY <1>1, <1>2, <1>3 DEF Pool!IInv, Pool!ProbesSpaced, Pool!warm

LEMMA PoolNext ==
  ASSUME Pool!DatabaseConstants, Pool!IInv, [Pool!Next]_(Pool!vars)
  PROVE  Pool!IInv'
<1>1. CASE UNCHANGED Pool!vars \/ Pool!Outage \/ Pool!ProbeConnects
  <2>1. /\ UNCHANGED <<s1, s5, s6, s7, s8, s9>>
        /\ s4' = s4 \/ (s4.by # None /\ s4' = [s4 EXCEPT !.held = TRUE])
    BY <1>1 DEF Pool!vars, Pool!warm, Pool!Outage, Pool!ProbeConnects
  <2>2. Pool!TypeOK' BY <2>1 DEF Pool!IInv, Pool!TypeOK
  <2>3. Pool!ProbesSpaced' /\ (s4'.held => s4'.by # None)
    BY <2>1 DEF Pool!IInv, Pool!TypeOK, Pool!ProbesSpaced
  <2>4. \A r \in PoolRequests : s7'[r].at \in {"data", "count"} => Pool!Timely(r)'
    BY <2>1 DEF Pool!IInv, Pool!Timely, Pool!Begun, Pool!OnTime
  <2> QED BY <2>1, <2>2, <2>3, <2>4 DEF Pool!IInv
<1> QED BY <1>1, ProbePasses, AttemptRetried, ProbeConnected, PoolTicks DEF Pool!Next

LEMMA PoolInTime ==
  ASSUME Pool!DatabaseConstants, Pool!IInv
  PROVE  Pool!ProbesSpaced /\ Pool!AnsweredInTime
<1>1. ASSUME NEW r \in PoolRequests, s7[r].at \in {"data", "count"}
      PROVE  s1 <= s7[r].since + PoolAttempts * (PoolWait + PoolCommand)
  <2>1. Pool!Timely(r) /\ Pool!TypeOK BY <1>1 DEF Pool!IInv
  <2> DEFINE k == s7[r].attempt
             n == s7[r].since
  <2>2. k \in Pool!Tries /\ n \in Nat /\ s1 \in Nat
          /\ s1 <= n + (k - 1) * (PoolWait + PoolCommand) + (PoolWait + PoolCommand)
    BY <2>1 DEF Pool!Timely, Pool!TypeOK, Pool!Begun
  <2>3. PICK a \in Nat : a = n + PoolAttempts * (PoolWait + PoolCommand)
    BY <2>2 DEF Pool!DatabaseConstants
  <2> HIDE DEF k, n
  <2>4. PICK b \in Nat : b = n + k * (PoolWait + PoolCommand)
    BY <2>2 DEF Pool!DatabaseConstants, Pool!Tries
  <2>5. s1 <= b /\ b <= a BY <2>2, <2>3, <2>4, AttemptBudget
  <2> QED BY <2>2, <2>3, <2>5 DEF n
<1> QED BY <1>1 DEF Pool!IInv, Pool!AnsweredInTime

-----------------------------------------------------------------------------
(* Comments. Here s1 to s9 are active, comment, blocks, kept, stars,      *)
(* shown, req, loose and right.                                            *)
ForumNames == {"talk", "stars", "thread"}

LEMMA ForumInit ==
  ASSUME NEW name \in ForumNames, Forum(name)!CommentsConstants, Forum(name)!Init
  PROVE  Forum(name)!IInv
<1>1. Forum(name)!Idle \in Forum(name)!ReqType({None, {}})
  BY DEF Forum!Idle, Forum!ReqType, Forum!Steps
<1>2. s7 \in [ForumRequests -> Forum(name)!ReqType({None, {}})] BY <1>1 DEF Forum!Init
<1>3. Forum(name)!TypeOK
  BY <1>2 DEF Forum!Init, Forum!TypeOK, Forum!CommentType, Forum!Texts, Forum!Absent
<1>4. \A r \in ForumRequests : Forum(name)!Draft(s7[r])
  BY DEF Forum!Init, Forum!Draft, Forum!Idle, Forum!Reading, Forum!Steps,
     Forum!CommentsConstants
<1> QED
  BY <1>3, <1>4 DEF Forum!IInv, Forum!Init, Forum!DeletionErases, Forum!Absent,
     Forum!CommentsConstants

(* A step of one request after which comments are by whom they were and    *)
(* stay deleted or late, and nothing of a deleted account is left.         *)
LEMMA DraftsKept ==
  ASSUME NEW name \in ForumNames, Forum(name)!CommentsConstants,
         Forum(name)!IInv, NEW r \in ForumRequests,
         NEW x, NEW A, x \in Forum(name)!ReqType(A),
         s7' = [s7 EXCEPT ![r] = x],
         s1' \in [ForumPeople[name] -> BOOLEAN],
         s2' \in [ForumComments[name] -> Forum(name)!CommentType],
         s5' \in [ForumPeople[name] -> ForumValues[name] \cup {None}],
         \A c \in ForumComments[name] :
           /\ Forum(name)!Exists(c) => /\ s2'[c].by = s2[c].by
                                       /\ s2[c].deleted => s2'[c].deleted
                                       /\ s2[c].loose => s2'[c].loose
           /\ s2'[c].text = "blank" => s2'[c].deleted,
         Forum(name)!Draft(x)', Forum(name)!DeletionErases'
  PROVE  Forum(name)!IInv'
<1>1. PICK B : s7 \in [ForumRequests -> Forum(name)!ReqType(B)]
  BY DEF Forum!IInv, Forum!TypeOK
<1>3. \A q \in ForumRequests : s7[q] \in Forum(name)!ReqType(A \cup B)
  BY <1>1 DEF Forum!ReqType
<1>4. x \in Forum(name)!ReqType(A \cup B) BY DEF Forum!ReqType
<1>5. s7' \in [ForumRequests -> Forum(name)!ReqType(A \cup B)] BY <1>1, <1>3, <1>4
<1>6. \A q \in ForumRequests : s7'[q] = IF q = r THEN x ELSE s7[q] BY <1>1
<1>7. ASSUME NEW q, Forum(name)!Draft(q) PROVE Forum(name)!Draft(q)'
  <2>1. /\ q.op \in {"edit", "hide"}
             => q.c \in ForumComments[name] /\ Forum(name)!Exists(q.c)'
        /\ q.op = "edit" /\ q.sole => s2'[q.c].loose
    BY <1>7 DEF Forum!Draft, Forum!Exists, Forum!CommentsConstants
  <2>2. \A c \in ForumComments[name] : Forum(name)!Exists(c)
          => Forum(name)!Exists(c)' /\ s2'[c].by = s2[c].by
    BY DEF Forum!Exists
  <2>3. q.op \in Forum(name)!Reading
          => \A c \in q.barred : Forum(name)!Exists(c)'
            /\ (s2'[c].deleted \/ s2'[c].by \in q.value)
    BY <1>7, <2>2 DEF Forum!Draft
  <2> QED BY <1>7, <2>1, <2>3 DEF Forum!Draft
<1>8. \A q \in ForumRequests : Forum(name)!Draft(s7[q])'
  <2>1. ASSUME NEW q \in ForumRequests PROVE Forum(name)!Draft(s7[q])'
    <3>1. CASE q = r
      <4>1. s7'[q] = x BY <1>6, <3>1
      <4> QED BY <4>1 DEF Forum!Draft
    <3>2. CASE q # r
      <4>1. s7'[q] = s7[q] /\ Forum(name)!Draft(s7[q])
        BY <1>6, <3>2 DEF Forum!IInv
      <4>2. PICK y : y = s7[q] OBVIOUS
      <4>3. Forum(name)!Draft(y)' BY <1>7, <4>1, <4>2
      <4> QED BY <4>1, <4>2, <4>3 DEF Forum!Draft
    <3> QED BY <3>1, <3>2
  <2> QED BY <2>1
<1>9. Forum(name)!TypeOK' BY <1>5 DEF Forum!TypeOK
<1> QED BY <1>8, <1>9 DEF Forum!IInv

(* A request that only reads, or writes what is not personal. *)
LEMMA DraftRead ==
  ASSUME NEW name \in ForumNames, Forum(name)!CommentsConstants,
         Forum(name)!IInv, NEW r \in ForumRequests,
         NEW x, NEW A, x \in Forum(name)!ReqType(A),
         s7' = [s7 EXCEPT ![r] = x],
         UNCHANGED <<s1, s2, s4, s5, s8>>, Forum(name)!Draft(x)
  PROVE  Forum(name)!IInv'
<1>1. /\ s1 \in [ForumPeople[name] -> BOOLEAN]
           /\ s2 \in [ForumComments[name] -> Forum(name)!CommentType]
      /\ s5 \in [ForumPeople[name] -> ForumValues[name] \cup {None}]
      /\ Forum(name)!DeletionErases /\ \A c \in ForumComments[name] : s2[c].text = "blank"
           => s2[c].deleted
  BY DEF Forum!IInv, Forum!TypeOK
<1>2. Forum(name)!DeletionErases' BY <1>1 DEF Forum!DeletionErases
<1>3. Forum(name)!Draft(x)' BY DEF Forum!Draft, Forum!Exists
<1> QED BY <1>1, <1>2, <1>3, DraftsKept

(* Requests that start, and do no more yet than to remember what they saw. *)
LEMMA DraftStarts ==
  ASSUME NEW name \in ForumNames, Forum(name)!CommentsConstants,
         Forum(name)!IInv, NEW r \in ForumRequests,
         \/ \E p \in ForumPeople[name] :
              \/ \E parent \in ForumComments[name] \cup {None} :
                   Forum(name)!StartComment(r, p, parent)
              \/ \E v \in ForumValues[name] : Forum(name)!StartRate(r, p, v)
              \/ \E kind \in ForumKinds[name] : Forum(name)!StartRow(r, p, kind)
              \/ Forum(name)!StartList(r, p) \/ Forum(name)!StartErase(r, p)
         \/ \E c \in ForumComments[name], op \in {"edit", "hide"} :
              Forum(name)!StartAdmin(r, c, op)
         \/ \E v \in ForumEdits[name] : Forum(name)!StartPatch(r, v)
  PROVE  Forum(name)!IInv'
<1>t. Forum(name)!TypeOK /\ None \notin ForumPeople[name]
  BY DEF Forum!IInv, Forum!CommentsConstants
<1>1. ASSUME NEW p \in ForumPeople[name], NEW parent \in ForumComments[name] \cup {None},
             Forum(name)!StartComment(r, p, parent)
      PROVE  Forum(name)!IInv'
  <2> DEFINE x == [Forum(name)!Idle EXCEPT !.op = "create", !.p = p, !.c = parent]
  <2>1. /\ x \in Forum(name)!ReqType({None, {}, parent}) /\ x.op = "create" /\ x.p = p
             /\ x.c = parent
    BY DEF Forum!ReqType, Forum!Idle, Forum!Steps
  <2>2. s7' = [s7 EXCEPT ![r] = x] /\ UNCHANGED <<s1, s2, s4, s5, s8>>
    BY <1>1 DEF Forum!StartComment, Forum!Start, Forum!Set, Forum!rows
  <2> HIDE DEF x
  <2>3. Forum(name)!Draft(x) BY <2>1 DEF Forum!Draft, Forum!Reading, Forum!CommentsConstants
  <2> QED BY <2>1, <2>2, <2>3, DraftRead
<1>2. ASSUME NEW p \in ForumPeople[name], NEW v \in ForumValues[name],
             Forum(name)!StartRate(r, p, v)
      PROVE  Forum(name)!IInv'
  <2>1. PICK x, A : /\ x = [Forum(name)!Idle EXCEPT !.op = "rate", !.p = p, !.c = v, !.value = s6]
                    /\ A = {None, {}, v, s6}
    OBVIOUS
  <2>2. s7' = [s7 EXCEPT ![r] = x] /\ UNCHANGED <<s1, s2, s4, s5, s8>>
    BY <1>2, <2>1 DEF Forum!StartRate, Forum!Start, Forum!Set, Forum!rows
  <2>3. x \in Forum(name)!ReqType(A) /\ x.op = "rate"
    BY <2>1 DEF Forum!ReqType, Forum!Idle, Forum!Steps
  <2>4. x.p \in ForumPeople[name] /\ x.c \in ForumValues[name]
    BY <1>2, <2>1 DEF Forum!Idle
  <2>5. Forum(name)!Draft(x)
    BY <2>3, <2>4 DEF Forum!Draft, Forum!Reading, Forum!Steps, Forum!CommentsConstants
  <2> QED BY <2>2, <2>3, <2>5, DraftRead
<1>3. ASSUME NEW p \in ForumPeople[name], NEW kind \in ForumKinds[name],
             Forum(name)!StartRow(r, p, kind)
      PROVE  Forum(name)!IInv'
  <2> DEFINE x == [Forum(name)!Idle EXCEPT !.op = kind, !.p = p]
  <2>1. x \in Forum(name)!ReqType({None, {}}) /\ x.op = kind /\ x.p = p
    BY DEF Forum!ReqType, Forum!Idle, Forum!Steps
  <2>2. s7' = [s7 EXCEPT ![r] = x] /\ UNCHANGED <<s1, s2, s4, s5, s8>>
    BY <1>3 DEF Forum!StartRow, Forum!Start, Forum!Set, Forum!rows
  <2> HIDE DEF x
  <2>3. Forum(name)!Draft(x)
    BY <2>1 DEF Forum!Draft, Forum!Reading, Forum!Steps, Forum!CommentsConstants
  <2> QED BY <2>1, <2>2, <2>3, DraftRead
<1>4. ASSUME NEW p \in ForumPeople[name], Forum(name)!StartList(r, p)
      PROVE  Forum(name)!IInv'
  <2>1. PICK mm, b : mm = Forum(name)!Mine(p)
                       /\ b = {c \in ForumComments[name] : Forum(name)!Exists(c)
                                 /\ (~Forum(name)!Live(c)
                                       \/ s2[c].by \in Forum(name)!Mine(p))}
    OBVIOUS
  <2> DEFINE x == [Forum(name)!Idle EXCEPT !.op = "roots", !.p = p, !.value = mm,
                   !.barred = b]
  <2>2. /\ x \in Forum(name)!ReqType({None, {}, mm, b}) /\ x.op = "roots" /\ x.value = mm
             /\ x.barred = b
    BY DEF Forum!ReqType, Forum!Idle, Forum!Reading
  <2>3. s7' = [s7 EXCEPT ![r] = x] /\ UNCHANGED <<s1, s2, s4, s5, s8>>
    BY <1>4, <2>1 DEF Forum!StartList, Forum!Start, Forum!Set, Forum!rows
  <2> HIDE DEF x
  <2>4. b \subseteq ForumComments[name] /\ \A c \in b : Forum(name)!Exists(c)
          /\ (s2[c].deleted \/ s2[c].by \in mm)
    BY <2>1 DEF Forum!Live
  <2>5. Forum(name)!Draft(x)
    BY <2>2, <2>4 DEF Forum!Draft, Forum!Reading, Forum!CommentsConstants
  <2> QED BY <2>2, <2>3, <2>5, DraftRead
<1>5. ASSUME NEW p \in ForumPeople[name], Forum(name)!StartErase(r, p)
      PROVE  Forum(name)!IInv'
  <2>1. PICK i, n, v : /\ i = {c \in ForumComments[name] : s2[c].by = p}
                            /\ n = {row \in s4 : row[1] = p}
                       /\ v = s5[p]
    OBVIOUS
  <2> DEFINE x == [Forum(name)!Idle EXCEPT !.op = "erase", !.p = p, !.ids = i, !.new = n,
                   !.value = v]
  <2>2. x \in Forum(name)!ReqType({None, {}, i, n, v}) /\ x.op = "erase" /\ x.p = p
    BY DEF Forum!ReqType, Forum!Idle, Forum!Steps
  <2>3. s7' = [s7 EXCEPT ![r] = x] /\ UNCHANGED <<s1, s2, s4, s5, s8>>
    BY <1>5, <2>1 DEF Forum!StartErase, Forum!Start, Forum!Set, Forum!rows
  <2> HIDE DEF x
  <2>4. Forum(name)!Draft(x) BY <2>2 DEF Forum!Draft, Forum!Reading, Forum!CommentsConstants
  <2> QED BY <2>2, <2>3, <2>4, DraftRead
<1>6. ASSUME NEW c \in ForumComments[name], NEW op \in {"edit", "hide"},
             Forum(name)!StartAdmin(r, c, op)
      PROVE  Forum(name)!IInv'
  <2>1. PICK o : o = (~s1[s2[c].by]) OBVIOUS
  <2> DEFINE x == [Forum(name)!Idle EXCEPT !.op = op, !.c = c, !.sole = o]
  <2>2. Forum(name)!Exists(c) /\ ~s2[c].deleted /\ s2[c].by \in ForumPeople[name]
    BY <1>6, <1>t DEF Forum!StartAdmin, Forum!Found, Forum!Live, Forum!Exists, Forum!TypeOK,
       Forum!CommentType
  <2>3. o \in BOOLEAN /\ (o => s2[c].loose)
    BY <1>t, <2>1, <2>2 DEF Forum!IInv, Forum!TypeOK, Forum!DeletionErases
  <2>4. x \in Forum(name)!ReqType({None, {}, c}) /\ x.op = op /\ x.c = c /\ x.sole = o
    BY <2>3 DEF Forum!ReqType, Forum!Idle, Forum!Steps
  <2>5. s7' = [s7 EXCEPT ![r] = x] /\ UNCHANGED <<s1, s2, s4, s5, s8>>
    BY <1>6, <2>1 DEF Forum!StartAdmin, Forum!Start, Forum!Set, Forum!rows
  <2> HIDE DEF x
  <2>6. Forum(name)!Draft(x)
    BY <2>2, <2>3, <2>4 DEF Forum!Draft, Forum!Reading, Forum!Steps, Forum!CommentsConstants
  <2> QED BY <2>4, <2>5, <2>6, DraftRead
<1>7. ASSUME NEW v, Forum(name)!StartPatch(r, v) PROVE Forum(name)!IInv'
  <2>1. PICK x, A : /\ x = [Forum(name)!Idle EXCEPT !.op = "patch", !.c = v, !.value = s6]
                    /\ A = {None, {}, v, s6}
    OBVIOUS
  <2>2. s7' = [s7 EXCEPT ![r] = x] /\ UNCHANGED <<s1, s2, s4, s5, s8>>
    BY <1>7, <2>1 DEF Forum!StartPatch, Forum!Start, Forum!Set, Forum!rows
  <2>3. x \in Forum(name)!ReqType(A) /\ x.op = "patch"
    BY <2>1 DEF Forum!ReqType, Forum!Idle, Forum!Steps
  <2>4. Forum(name)!Draft(x)
    BY <2>3 DEF Forum!Draft, Forum!Reading, Forum!Steps, Forum!CommentsConstants
  <2> QED BY <2>2, <2>3, <2>4, DraftRead
<1> QED BY <1>1, <1>2, <1>3, <1>4, <1>5, <1>6, <1>7

(* The queries of a list, and the steps of a rating. *)
LEMMA DraftGoes ==
  ASSUME NEW name \in ForumNames, Forum(name)!CommentsConstants,
         Forum(name)!IInv, NEW r \in ForumRequests,
         \/ Forum(name)!Roots(r) \/ Forum(name)!Level(r) \/ Forum(name)!Answer(r)
         \/ Forum(name)!ReadAverage(r) \/ Forum(name)!WriteAverage(r)
              \/ Forum(name)!Fail(r) \/ Forum(name)!PatchCommit(r)
  PROVE  Forum(name)!IInv'
<1>1. PICK B : s7 \in [ForumRequests -> Forum(name)!ReqType(B)]
  BY DEF Forum!IInv, Forum!TypeOK
<1>2. s7[r] \in Forum(name)!ReqType(B) /\ Forum(name)!Draft(s7[r]) BY <1>1 DEF Forum!IInv
<1>3. UNCHANGED <<s1, s2, s4, s5, s8>>
  BY DEF Forum!Roots, Forum!Level, Forum!Answer, Forum!ReadAverage, Forum!WriteAverage,
     Forum!Fail, Forum!PatchCommit, Forum!rows
<1>4. ASSUME NEW i, NEW n,
             s7' = [s7 EXCEPT ![r] = [s7[r] EXCEPT !.op = "levels", !.ids = i, !.new = n]],
             s7[r].op \in Forum(name)!Reading
      PROVE  Forum(name)!IInv'
  <2> DEFINE x == [s7[r] EXCEPT !.op = "levels", !.ids = i, !.new = n]
  <2>1. /\ x \in Forum(name)!ReqType(B \cup {i, n}) /\ x.op = "levels"
             /\ x.barred = s7[r].barred
        /\ x.value = s7[r].value
    BY <1>2 DEF Forum!ReqType, Forum!Reading
  <2>2. s7' = [s7 EXCEPT ![r] = x] BY <1>4
  <2> HIDE DEF x
  <2>3. Forum(name)!Draft(x)
    BY <1>2, <1>4, <2>1 DEF Forum!Draft, Forum!Reading, Forum!CommentsConstants
  <2> QED BY <1>3, <2>1, <2>2, <2>3, DraftRead
<1>5. CASE Forum(name)!Roots(r)
  <2>1. PICK i : i = {c \in ForumComments[name] : Forum(name)!Visible(r, c)
                        /\ s2[c].parent = None} OBVIOUS
  <2> QED BY <1>4, <1>5, <2>1 DEF Forum!Roots, Forum!Set, Forum!Reading
<1>6. CASE Forum(name)!Level(r)
  <2>1. PICK n : n = {c \in ForumComments[name] : Forum(name)!Visible(r, c)
                        /\ s2[c].parent \in s7[r].new} \ s7[r].ids
    OBVIOUS
  <2>2. PICK i : i = s7[r].ids \cup n OBVIOUS
  <2> DEFINE x == [s7[r] EXCEPT !.ids = i, !.new = n]
  <2>3. /\ x \in Forum(name)!ReqType(B \cup {i, n}) /\ x.op = s7[r].op
             /\ x.barred = s7[r].barred
        /\ x.value = s7[r].value /\ s7[r].op = "levels"
    BY <1>2, <1>6 DEF Forum!ReqType, Forum!Level
  <2>4. s7' = [s7 EXCEPT ![r] = x] BY <1>6, <2>1, <2>2 DEF Forum!Level, Forum!Set
  <2> HIDE DEF x
  <2>5. Forum(name)!Draft(x)
    BY <1>2, <2>3 DEF Forum!Draft, Forum!Reading, Forum!CommentsConstants
  <2> QED BY <1>3, <2>3, <2>4, <2>5, DraftRead
<1>7. CASE \/ Forum(name)!Answer(r) \/ Forum(name)!WriteAverage(r)
           \/ Forum(name)!Fail(r) \/ Forum(name)!PatchCommit(r)
  <2>1. s7' = [s7 EXCEPT ![r] = Forum(name)!Idle]
    BY <1>7 DEF Forum!Answer, Forum!WriteAverage, Forum!Fail, Forum!PatchCommit, Forum!Set
  <2>2. Forum(name)!Idle \in Forum(name)!ReqType({None, {}}) /\ Forum(name)!Idle.op = "idle"
    BY DEF Forum!Idle, Forum!ReqType, Forum!Steps
  <2>3. Forum(name)!Draft(Forum(name)!Idle)
    BY <2>2 DEF Forum!Draft, Forum!Reading, Forum!Steps, Forum!CommentsConstants
  <2> QED BY <1>3, <2>1, <2>2, <2>3, DraftRead
<1>8. CASE Forum(name)!ReadAverage(r)
  <2>1. PICK v : v = Forum(name)!NewAverage(r) OBVIOUS
  <2> DEFINE x == [s7[r] EXCEPT !.op = "write", !.c = v]
  <2>2. x \in Forum(name)!ReqType(B \cup {v}) /\ x.op = "write"
    BY <1>2 DEF Forum!ReqType, Forum!Steps
  <2>3. s7' = [s7 EXCEPT ![r] = x] BY <1>8, <2>1 DEF Forum!ReadAverage, Forum!Set
  <2> HIDE DEF x
  <2>4. Forum(name)!Draft(x)
    BY <2>2 DEF Forum!Draft, Forum!Reading, Forum!Steps, Forum!CommentsConstants
  <2> QED BY <1>3, <2>2, <2>3, <2>4, DraftRead
<1> QED BY <1>5, <1>6, <1>7, <1>8

(* A star: of a deleted account only if the rating was under way. *)
LEMMA StarLeft ==
  ASSUME NEW name \in ForumNames, Forum(name)!CommentsConstants,
         Forum(name)!IInv, NEW r \in ForumRequests, Forum(name)!RateCommit(r)
  PROVE  Forum(name)!IInv'
<1>1. PICK B : s7 \in [ForumRequests -> Forum(name)!ReqType(B)]
  BY DEF Forum!IInv, Forum!TypeOK
<1>2. s7[r] \in Forum(name)!ReqType(B) BY <1>1
<1>x. PICK x : x = [s7[r] EXCEPT !.op = "average"] OBVIOUS
<1>3. x \in Forum(name)!ReqType(B) /\ x.op = "average"
  BY <1>2, <1>x DEF Forum!ReqType, Forum!Steps
<1>4. /\ s7' = [s7 EXCEPT ![r] = x] /\ UNCHANGED <<s1, s2, s4>>
      /\ s5' = [s5 EXCEPT ![s7[r].p] = s7[r].c]
      /\ s8' = IF s1[s7[r].p] THEN s8 ELSE s8 \cup {<<s7[r].p, "stars">>}
  BY <1>x DEF Forum!RateCommit, Forum!Set
<1>5. Forum(name)!Draft(x)'
  BY <1>3 DEF Forum!Draft, Forum!Reading, Forum!Steps, Forum!CommentsConstants
<1>6. /\ s1 \in [ForumPeople[name] -> BOOLEAN]
      /\ s2 \in [ForumComments[name] -> Forum(name)!CommentType]
      /\ s5 \in [ForumPeople[name] -> ForumValues[name] \cup {None}]
      /\ s7[r].p \in ForumPeople[name] /\ s7[r].c \in ForumValues[name]
      /\ Forum(name)!DeletionErases
      /\ \A c \in ForumComments[name] : s2[c].text = "blank" => s2[c].deleted
  BY DEF Forum!IInv, Forum!TypeOK, Forum!Draft, Forum!RateCommit
<1>7. ASSUME NEW p \in ForumPeople[name], ~s1[p]
      PROVE  s5'[p] # None => <<p, "stars">> \in s8'
  <2>1. s5[p] # None => <<p, "stars">> \in s8 BY <1>6, <1>7 DEF Forum!DeletionErases
  <2>2. p # s7[r].p => s5'[p] = s5[p] BY <1>4, <1>6
  <2>3. p = s7[r].p => <<p, "stars">> \in s8' BY <1>4, <1>7
  <2>4. s8 \subseteq s8' BY <1>4
  <2> QED BY <2>1, <2>2, <2>3, <2>4
<1>9. s5' \in [ForumPeople[name] -> ForumValues[name] \cup {None}] BY <1>4, <1>6
<1>8. Forum(name)!DeletionErases' BY <1>4, <1>6, <1>7 DEF Forum!DeletionErases
<1> QED BY <1>3, <1>4, <1>5, <1>6, <1>8, <1>9, DraftsKept

(* What is written. *)
LEMMA DraftWritten ==
  ASSUME NEW name \in ForumNames, Forum(name)!CommentsConstants,
         Forum(name)!IInv, NEW r \in ForumRequests,
         \/ Forum(name)!EditCommit(r) \/ Forum(name)!HideCommit(r)
              \/ Forum(name)!RowCommit(r)
         \/ \E c \in ForumComments[name] : Forum(name)!Insert(r, c)
  PROVE  Forum(name)!IInv'
<1>1. PICK B : s7 \in [ForumRequests -> Forum(name)!ReqType(B)]
  BY DEF Forum!IInv, Forum!TypeOK
<1>2. /\ s7[r] \in Forum(name)!ReqType(B) /\ Forum(name)!Draft(s7[r]) /\ Forum(name)!TypeOK
           /\ Forum(name)!DeletionErases
      /\ \A c \in ForumComments[name] : s2[c].text = "blank" => s2[c].deleted
  BY <1>1 DEF Forum!IInv
<1>3. /\ Forum(name)!Idle \in Forum(name)!ReqType({None, {}})
           /\ Forum(name)!Draft(Forum(name)!Idle)'
  BY DEF Forum!Idle, Forum!ReqType, Forum!Draft, Forum!Reading, Forum!Steps,
     Forum!CommentsConstants
<1>4. ASSUME NEW c \in ForumComments[name], NEW y \in Forum(name)!CommentType,
             s2' = [s2 EXCEPT ![c] = y],
             Forum(name)!Exists(c) => /\ y.by = s2[c].by /\ (s2[c].deleted => y.deleted)
                                      /\ (s2[c].loose => y.loose),
             y.text = "blank" => y.deleted,
             ~y.loose => y.text = "blank" \/ y.by = None \/ s1[y.by],
             s7' = [s7 EXCEPT ![r] = Forum(name)!Idle], UNCHANGED <<s1, s4, s5, s8>>
      PROVE  Forum(name)!IInv'
  <2>1. /\ s2' \in [ForumComments[name] -> Forum(name)!CommentType]
        /\ \A d \in ForumComments[name] : s2'[d] = IF d = c THEN y ELSE s2[d]
    BY <1>2, <1>4 DEF Forum!TypeOK
  <2>2. Forum(name)!DeletionErases'
    BY <1>2, <1>4, <2>1 DEF Forum!DeletionErases, Forum!CommentsConstants
  <2>3. \A d \in ForumComments[name] :
           /\ Forum(name)!Exists(d) => /\ s2'[d].by = s2[d].by
                                       /\ s2[d].deleted => s2'[d].deleted
                                       /\ s2[d].loose => s2'[d].loose
           /\ s2'[d].text = "blank" => s2'[d].deleted
    BY <1>2, <1>4, <2>1
  <2>4. /\ s1' \in [ForumPeople[name] -> BOOLEAN]
        /\ s5' \in [ForumPeople[name] -> ForumValues[name] \cup {None}]
    BY <1>2, <1>4 DEF Forum!TypeOK
  <2> QED BY <1>3, <1>4, <2>1, <2>2, <2>3, <2>4, DraftsKept
<1>5. CASE Forum(name)!HideCommit(r)
  <2> DEFINE c == s7[r].c
             y == [s2[c] EXCEPT !.deleted = TRUE]
  <2>1. c \in ForumComments[name] /\ s2[c] \in Forum(name)!CommentType
    BY <1>2, <1>5 DEF Forum!HideCommit, Forum!Draft, Forum!TypeOK
  <2>2. /\ y \in Forum(name)!CommentType /\ y.by = s2[c].by /\ y.deleted
             /\ y.loose = s2[c].loose
        /\ y.text = s2[c].text
    BY <2>1 DEF Forum!CommentType
  <2>3. /\ s2' = [s2 EXCEPT ![c] = y] /\ s7' = [s7 EXCEPT ![r] = Forum(name)!Idle]
        /\ UNCHANGED <<s1, s4, s5, s8>>
    BY <1>2, <1>5, <2>1 DEF Forum!HideCommit, Forum!Set, Forum!TypeOK
  <2>4. ~y.loose => y.text = "blank" \/ y.by = None \/ s1[y.by]
    BY <1>2, <2>1, <2>2 DEF Forum!DeletionErases, Forum!CommentType
  <2> HIDE DEF c, y
  <2> QED BY <1>4, <2>1, <2>2, <2>3, <2>4
<1>6. CASE Forum(name)!EditCommit(r)
  <2> DEFINE c == s7[r].c
             l == s2[c].loose \/ (~s1[s2[c].by] /\ ~s7[r].sole)
             y == [s2[c] EXCEPT !.text = "edited", !.loose = l]
  <2>1. c \in ForumComments[name] /\ s2[c] \in Forum(name)!CommentType
          /\ (s7[r].sole => s2[c].loose)
    BY <1>2, <1>6 DEF Forum!EditCommit, Forum!Draft, Forum!TypeOK
  <2>2. /\ y \in Forum(name)!CommentType /\ y.by = s2[c].by /\ y.deleted = s2[c].deleted
        /\ y.loose = l /\ y.text = "edited"
    BY <2>1 DEF Forum!CommentType, Forum!Texts
  <2>3. /\ s2' = [s2 EXCEPT ![c] = y] /\ s7' = [s7 EXCEPT ![r] = Forum(name)!Idle]
        /\ UNCHANGED <<s1, s4, s5, s8>>
    BY <1>2, <1>6, <2>1 DEF Forum!EditCommit, Forum!Set, Forum!TypeOK
  <2>4. ~l => s1[s2[c].by] BY <2>1
  <2>5. s2[c].loose => l OBVIOUS
  <2> HIDE DEF c, y, l
  <2> QED BY <1>4, <2>1, <2>2, <2>3, <2>4, <2>5
<1>7. ASSUME NEW c \in ForumComments[name], Forum(name)!Insert(r, c) PROVE Forum(name)!IInv'
  <2> DEFINE y == [by |-> s7[r].p, parent |-> s7[r].c, text |-> "own", deleted |-> FALSE,
                   loose |-> ~s1[s7[r].p]]
  <2>1. /\ s7[r].p \in ForumPeople[name] /\ s7[r].c \in ForumComments[name] \cup {None}
             /\ ~Forum(name)!Exists(c)
        /\ s1[s7[r].p] \in BOOLEAN
    BY <1>2, <1>7 DEF Forum!Insert, Forum!Draft, Forum!TypeOK
  <2>2. /\ y \in Forum(name)!CommentType /\ y.by = s7[r].p /\ y.text = "own" /\ ~y.deleted
        /\ y.loose = ~s1[s7[r].p]
    BY <2>1 DEF Forum!CommentType, Forum!Texts
  <2>3. /\ s2' = [s2 EXCEPT ![c] = y] /\ s7' = [s7 EXCEPT ![r] = Forum(name)!Idle]
        /\ UNCHANGED <<s1, s4, s5, s8>>
    BY <1>7 DEF Forum!Insert, Forum!Set
  <2> HIDE DEF y
  <2> QED BY <1>4, <2>1, <2>2, <2>3
<1>8. CASE Forum(name)!RowCommit(r)
  <2> DEFINE row == <<s7[r].p, s7[r].op>>
  <2>1. /\ s7[r].p \in ForumPeople[name] /\ row[1] = s7[r].p /\ s4' = s4 \cup {row}
        /\ s8' = IF s1[s7[r].p] THEN s8 ELSE s8 \cup {row}
        /\ s7' = [s7 EXCEPT ![r] = Forum(name)!Idle] /\ UNCHANGED <<s1, s2, s5>>
    BY <1>2, <1>8 DEF Forum!RowCommit, Forum!Set, Forum!Draft
  <2> HIDE DEF row
  <2>2. Forum(name)!DeletionErases' BY <1>2, <2>1 DEF Forum!DeletionErases
  <2> QED BY <1>2, <1>3, <2>1, <2>2, DraftsKept DEF Forum!TypeOK
<1> QED BY <1>5, <1>6, <1>7, <1>8

(* What is written at once. *)
LEMMA CommentAtOnce ==
  ASSUME NEW name \in ForumNames, Forum(name)!CommentsConstants, Forum(name)!IInv,
         \/ UNCHANGED Forum(name)!vars
         \/ \E p \in ForumPeople[name] : \/ \E kind \in ForumKinds[name] :
                                           Forum(name)!RemoveRow(p, kind)
                                         \/ \E c \in ForumComments[name] :
                                              Forum(name)!Block(p, c)
  PROVE  Forum(name)!IInv'
<1>1. UNCHANGED <<s1, s2, s5, s7, s8>> /\ s4' \subseteq s4
  BY DEF Forum!vars, Forum!rows, Forum!RemoveRow, Forum!Block
<1>2. Forum(name)!TypeOK' BY <1>1 DEF Forum!IInv, Forum!TypeOK
<1>3. Forum(name)!DeletionErases' BY <1>1 DEF Forum!IInv, Forum!DeletionErases
<1>4. \A r \in ForumRequests : Forum(name)!Draft(s7[r])'
  BY <1>1 DEF Forum!IInv, Forum!Draft, Forum!Exists
<1> QED BY <1>1, <1>2, <1>3, <1>4 DEF Forum!IInv

(* The account goes, with what the request found of it. *)
LEMMA AccountErased ==
  ASSUME NEW name \in ForumNames, Forum(name)!CommentsConstants,
         Forum(name)!IInv, NEW r \in ForumRequests, Forum(name)!EraseCommit(r)
  PROVE  Forum(name)!IInv'
<1> DEFINE p == s7[r].p
<1>1. PICK B : s7 \in [ForumRequests -> Forum(name)!ReqType(B)]
  BY DEF Forum!IInv, Forum!TypeOK
<1>2. /\ p \in ForumPeople[name] /\ Forum(name)!TypeOK /\ Forum(name)!DeletionErases
      /\ \A c \in ForumComments[name] : s2[c].text = "blank" => s2[c].deleted
  BY <1>1 DEF Forum!IInv, Forum!Draft, Forum!EraseCommit
<1>3. /\ Forum(name)!Idle \in Forum(name)!ReqType({None, {}})
           /\ Forum(name)!Draft(Forum(name)!Idle)'
  BY DEF Forum!Idle, Forum!ReqType, Forum!Draft, Forum!Reading, Forum!Steps,
     Forum!CommentsConstants
<1>4. /\ s1' = [s1 EXCEPT ![p] = FALSE] /\ s7' = [s7 EXCEPT ![r] = Forum(name)!Idle]
      /\ s4' \subseteq s4 /\ s8 \subseteq s8' /\ {row \in s4' : row[1] = p} \subseteq s8'
  BY DEF Forum!EraseCommit, Forum!Set
<1>e. /\ s5' \in [ForumPeople[name] -> ForumValues[name] \cup {None}]
      /\ \A q \in ForumPeople[name] \ {p} : s5'[q] = s5[q]
      /\ s5'[p] # None => <<p, "stars">> \in s8'
  BY <1>2 DEF Forum!EraseCommit, Forum!TypeOK
<1>5. ASSUME NEW c \in ForumComments[name]
      PROVE  /\ s2'[c] \in Forum(name)!CommentType /\ s2'[c].by = s2[c].by
             /\ s2[c].deleted => s2'[c].deleted
             /\ s2[c].loose => s2'[c].loose
             /\ s2'[c].text = "blank" => s2'[c].deleted
             /\ s2[c].text = "blank" => s2'[c].text = "blank"
             /\ s2[c].by = p => s2'[c].loose \/ s2'[c].text = "blank"
  <2> DEFINE y == [s2[c] EXCEPT !.text = "blank", !.deleted = TRUE]
             z == [s2[c] EXCEPT !.loose = TRUE]
  <2>1. s2'[c] = IF c \in s7[r].ids THEN y
                      ELSE IF s2[c].by = p THEN z ELSE s2[c]
    BY DEF Forum!EraseCommit
  <2>2. s2[c] \in Forum(name)!CommentType BY <1>2 DEF Forum!TypeOK
  <2>3. /\ y \in Forum(name)!CommentType /\ y.by = s2[c].by /\ y.deleted
             /\ y.loose = s2[c].loose
        /\ y.text = "blank"
    BY <2>2 DEF Forum!CommentType, Forum!Texts
  <2>4. /\ z \in Forum(name)!CommentType /\ z.by = s2[c].by /\ z.deleted = s2[c].deleted
             /\ z.loose
        /\ z.text = s2[c].text
    BY <2>2 DEF Forum!CommentType
  <2> HIDE DEF p, y, z
  <2> QED BY <1>2, <2>1, <2>2, <2>3, <2>4
<1>6. s2' \in [ForumComments[name] -> Forum(name)!CommentType]
  <2>1. s2' = [c \in ForumComments[name] |-> s2'[c]] BY DEF Forum!EraseCommit
  <2> QED BY <1>5, <2>1
<1>7. s1' \in [ForumPeople[name] -> BOOLEAN] /\ \A q \in ForumPeople[name] :
        s1'[q] = (q # p /\ s1[q])
  BY <1>2, <1>4 DEF Forum!TypeOK
<1> HIDE DEF p
<1>8. Forum(name)!DeletionErases'
  <2>1. ASSUME NEW q \in ForumPeople[name], ~s1'[q]
        PROVE  s5'[q] # None => <<q, "stars">> \in s8'
    BY <1>2, <1>4, <1>e, <1>7, <2>1 DEF Forum!DeletionErases
  <2> QED BY <1>2, <1>4, <1>5, <1>7, <2>1 DEF Forum!DeletionErases
<1> QED BY <1>3, <1>4, <1>e, <1>5, <1>6, <1>7, <1>8, DraftsKept

LEMMA ForumNext ==
  ASSUME NEW name \in ForumNames, Forum(name)!CommentsConstants,
         Forum(name)!IInv, [Forum(name)!Next]_(Forum(name)!vars)
  PROVE  Forum(name)!IInv'
<1>1. ASSUME NEW r \in ForumRequests, NEW p \in ForumPeople[name],
             \/ "favorite" \in ForumKinds[name] /\ Forum(name)!StartFavorite(r, p)
             \/ "progress" \in ForumKinds[name] /\ Forum(name)!StartProgress(r, p)
             \/ "vote" \in ForumKinds[name] /\ Forum(name)!StartVote(r, p)
             \/ "report" \in ForumKinds[name] /\ Forum(name)!StartReport(r, p)
      PROVE  \E kind \in ForumKinds[name] : Forum(name)!StartRow(r, p, kind)
  BY <1>1 DEF Forum!StartFavorite, Forum!StartProgress, Forum!StartVote, Forum!StartReport
<1> QED
  BY <1>1, DraftStarts, DraftGoes, StarLeft, DraftWritten, CommentAtOnce, AccountErased DEF Forum!Next

(* What a list shows is live and by nobody its reader blocks, and so is    *)
(* the comment it answers.                                                 *)
LEMMA ForumClean ==
  ASSUME NEW name \in ForumNames, Forum(name)!CommentsConstants, Forum(name)!IInv
  PROVE  Forum(name)!NothingBelowHidden
<1>1. ASSUME NEW r \in ForumRequests, s7[r].op = "levels", NEW c \in Forum(name)!Listed(r)
      PROVE  {c, s2[c].parent} \cap s7[r].barred = {}
  <2>1. /\ \A d \in s7[r].barred : d \in ForumComments[name]
             /\ (s2[d].deleted \/ s2[d].by \in s7[r].value)
    BY <1>1 DEF Forum!IInv, Forum!Draft, Forum!Reading
  <2>2. \A d \in s7[r].barred : ~Forum(name)!Visible(r, d)
    BY <2>1 DEF Forum!Visible, Forum!Live
  <2>3. PICK S : c \in S /\ \A d \in S : Forum(name)!Visible(r, d)
                   /\ (s2[d].parent # None => s2[d].parent \in S)
    BY <1>1 DEF Forum!Listed, Forum!Threads
  <2>4. None \notin s7[r].barred BY <2>1 DEF Forum!CommentsConstants
  <2> QED BY <2>2, <2>3, <2>4
<1> QED BY <1>1 DEF Forum!NothingBelowHidden

-----------------------------------------------------------------------------
(* Curated lists. Here s1 to s7 are there, visible, limit, rows, title,    *)
(* req and genre.                                                          *)
CuratedNames == {"rail", "twins", "genres", "picks", "slides"}

LEMMA CuratedInit ==
  ASSUME NEW name \in CuratedNames, Curated(name)!CurationConstants, Curated(name)!Init
  PROVE  Curated(name)!IInv
<1>1. Curated(name)!Idle \in Curated(name)!ReqType({<< >>})
        /\ Curated(name)!Idle.op = "idle"
  BY DEF Curated!Idle, Curated!ReqType, Curated!Ops
<1>2. s6 \in [CuratedRequests[name] -> Curated(name)!ReqType({<< >>})]
  BY <1>1 DEF Curated!Init
<1>3. Curated(name)!TypeOK BY <1>2 DEF Curated!Init, Curated!TypeOK
<1>4. \A r \in CuratedRequests[name] : Curated(name)!Draft(s6[r]) /\ Curated(name)!Alone(r)
  BY <1>1 DEF Curated!Init, Curated!Draft, Curated!Alone
<1> QED BY <1>3, <1>4 DEF Curated!IInv

(* The parts count as the composition does. *)
LEMMA SameSize ==
  ASSUME NEW name \in CuratedNames, NEW S
  PROVE  Curated(name)!Cardinality(S) = Cardinality(S)
  BY DEF Curated!Cardinality, Cardinality

LEMMA SameFinite ==
  ASSUME NEW name \in CuratedNames, NEW S
  PROVE  Curated(name)!IsFiniteSet(S) <=> IsFiniteSet(S)
  BY DEF Curated!IsFiniteSet, IsFiniteSet

(* Lists are finite: a part is no longer than the whole, and one more is   *)
(* at most one more.                                                       *)
LEMMA SetCounts ==
  ASSUME NEW U, IsFiniteSet(U), NEW S \in SUBSET U
  PROVE  /\ Cardinality(S) \in Nat
         /\ \A T \in SUBSET S : Cardinality(T) \in Nat /\ Cardinality(T) <= Cardinality(S)
         /\ \A x \in U : /\ Cardinality(S \cup {x}) \in Nat
                        /\ Cardinality(S \cup {x}) <= Cardinality(S) + 1
<1>1. IsFiniteSet(S) BY FS_Subset
<1>2. Cardinality(S) \in Nat BY <1>1, FS_CardinalityType
<1>3. ASSUME NEW T \in SUBSET S
      PROVE  Cardinality(T) \in Nat /\ Cardinality(T) <= Cardinality(S)
  <2>1. IsFiniteSet(T) BY <1>1, FS_Subset
  <2> QED BY <1>1, <2>1, FS_CardinalityType, FS_Subset
<1>4. ASSUME NEW x \in U
      PROVE  Cardinality(S \cup {x}) \in Nat
               /\ Cardinality(S \cup {x}) <= Cardinality(S) + 1
  <2>1. x \in S => S \cup {x} = S OBVIOUS
  <2>2. x \notin S => Cardinality(S \cup {x}) = Cardinality(S) + 1 BY <1>1, FS_AddElement
  <2> QED BY <1>2, <2>1, <2>2
<1> QED BY <1>2, <1>3, <1>4

LEMMA ListCounts ==
  ASSUME NEW name \in CuratedNames,
         Curated(name)!CurationConstants, NEW S \in SUBSET CuratedTitles[name]
  PROVE  /\ Curated(name)!Cardinality(S) \in Nat
         /\ \A T \in SUBSET S :
              /\ Curated(name)!Cardinality(T) \in Nat
              /\ Curated(name)!Cardinality(T) <= Curated(name)!Cardinality(S)
         /\ \A x \in CuratedTitles[name] :
              /\ Curated(name)!Cardinality(S \cup {x}) \in Nat
              /\ Curated(name)!Cardinality(S \cup {x}) <= Curated(name)!Cardinality(S) + 1
<1>1. IsFiniteSet(CuratedTitles[name]) BY SameFinite DEF Curated!CurationConstants
<1> QED BY <1>1, SetCounts, SameSize

(* What is left of a request when it is overtaken. *)
Spoilt(y, ops, ls, dropped) ==
  y.op \in ops /\ y.l \in ls
    => ~y.clean /\ (~y.lost => \A x \in y.writes : <<y.l, x>> \notin dropped)

SameTask(y, q) == y.op = q.op /\ y.l = q.l /\ y.x = q.x /\ y.g = q.g

LEMMA IsOvertaken ==
  ASSUME NEW name \in CuratedNames, Curated(name)!IInv,
         NEW A, s6 \in [CuratedRequests[name] -> Curated(name)!ReqType(A)],
         NEW ops, NEW ls, NEW dropped,
         NEW r \in CuratedRequests[name],
         NEW z, z = Curated(name)!Overtaken(ops, ls, dropped), NEW y, y = z[r]
  PROVE  /\ y \in Curated(name)!ReqType(A) /\ SameTask(y, s6[r])
         /\ Curated(name)!Draft(y) /\ Spoilt(y, ops, ls, dropped)
<1>1. s6[r] \in Curated(name)!ReqType(A) OBVIOUS
<1>2. PICK lost \in BOOLEAN :
        lost = (s6[r].lost \/ \E x \in s6[r].writes : <<s6[r].l, x>> \in dropped)
  BY <1>1 DEF Curated!ReqType
<1> DEFINE w == [s6[r] EXCEPT !.clean = FALSE, !.lost = lost]
<1>3. /\ w \in Curated(name)!ReqType(A) /\ w.op = s6[r].op /\ w.l = s6[r].l /\ w.x = s6[r].x
      /\ w.was = s6[r].was /\ w.g = s6[r].g
      /\ w.n = s6[r].n /\ w.pos = s6[r].pos /\ w.writes = s6[r].writes
      /\ w.clean = FALSE /\ w.lost = lost
  BY <1>1 DEF Curated!ReqType
<1>4. y = IF s6[r].op \in ops /\ s6[r].l \in ls THEN w ELSE s6[r]
  BY <1>2 DEF Curated!Overtaken
<1> HIDE DEF w
<1>5. Curated(name)!Draft(s6[r]) BY DEF Curated!IInv
<1>6. Curated(name)!Draft(w)
  BY <1>1, <1>2, <1>3, <1>5 DEF Curated!Draft, Curated!Wanted, Curated!ReqType
<1>7. Spoilt(y, ops, ls, dropped) BY <1>2, <1>3, <1>4 DEF Spoilt
<1> QED BY <1>1, <1>3, <1>4, <1>5, <1>6, <1>7 DEF SameTask

(* A step that leaves some requests idle and of the others z, which they   *)
(* were about all along.                                                   *)
LEMMA OthersKept ==
  ASSUME NEW name \in CuratedNames, Curated(name)!IInv,
         NEW A, s6 \in [CuratedRequests[name] -> Curated(name)!ReqType(A)],
         NEW z, NEW S \in SUBSET CuratedRequests[name],
         s6' = [o \in CuratedRequests[name] |-> IF o \in S THEN Curated(name)!Idle
                  ELSE z[o]],
         s1' \in [CuratedLists[name] -> BOOLEAN],
         s3' \in [CuratedLists[name] -> Nat \cup {None}],
         s4' \in [CuratedLists[name] -> [CuratedTitles[name] -> Nat \cup {None}]],
         s5' \in [CuratedTitles[name] -> {"published", "draft", "gone"}],
         s7' \in [CuratedLists[name] -> CuratedGenres[name] \cup {None}],
         Curated(name)!CurationConstants,
         \A o \in CuratedRequests[name] \ S : /\ z[o] \in Curated(name)!ReqType(A)
                                                /\ z[o].op = s6[o].op /\ z[o].l = s6[o].l
                                              /\ Curated(name)!Draft(z[o])'
  PROVE  Curated(name)!IInv'
<1>2. Curated(name)!Idle \in Curated(name)!ReqType(A \cup {<< >>})
        /\ Curated(name)!Idle.op = "idle" /\ Curated(name)!Idle.l = None
  BY DEF Curated!Idle, Curated!ReqType, Curated!Ops
<1>3. ASSUME NEW o \in CuratedRequests[name]
      PROVE  /\ s6'[o] \in Curated(name)!ReqType(A \cup {<< >>})
             /\ s6'[o].op = "section"
                  => s6[o].op = "section" /\ o \notin S /\ s6'[o].l = s6[o].l
             /\ s6'[o].l \in {None, s6[o].l}
             /\ Curated(name)!Draft(s6[o])'
  <2>1. CASE o \in S
    <3>1. s6'[o] = Curated(name)!Idle BY <2>1
    <3> QED BY <1>2, <3>1 DEF Curated!Draft
  <2>2. CASE o \notin S
    <3>1. PICK y : y = z[o] OBVIOUS
    <3>2. s6'[o] = y BY <2>2, <3>1
    <3>3. y \in Curated(name)!ReqType(A) /\ y.op = s6[o].op /\ y.l = s6[o].l BY <2>2, <3>1
    <3>4. Curated(name)!Draft(y)' BY <2>2, <3>1
    <3>5. Curated(name)!Draft(s6[o])' BY <3>2, <3>4
    <3> QED BY <2>2, <3>2, <3>3, <3>5 DEF Curated!ReqType
  <2> QED BY <2>1, <2>2
<1>4. s6' \in [CuratedRequests[name] -> Curated(name)!ReqType(A \cup {<< >>})] BY <1>3
<1>5. Curated(name)!TypeOK' BY <1>4 DEF Curated!TypeOK
<1>6. ASSUME NEW o \in CuratedRequests[name] PROVE Curated(name)!Alone(o)'
  <2> SUFFICES ASSUME s6'[o].op = "section", NEW t \in CuratedRequests[name] \ {o}
               PROVE  s6'[t].l # s6'[o].l
    BY DEF Curated!Alone
  <2>1. s6[o].op = "section" /\ s6'[o].l = s6[o].l BY <1>3
  <2>2. s6[t].l # s6[o].l BY <2>1 DEF Curated!IInv, Curated!Alone
  <2>3. s6[o].l # None
    BY <2>1 DEF Curated!IInv, Curated!Draft, Curated!Sections, Curated!CurationConstants
  <2> QED BY <1>3, <2>1, <2>2, <2>3
<1> QED BY <1>3, <1>5, <1>6 DEF Curated!IInv

(* The same when the others are overtaken: it is enough to look at one. *)
LEMMA OthersOvertaken ==
  ASSUME NEW name \in CuratedNames, Curated(name)!CurationConstants, Curated(name)!IInv,
         NEW ops, NEW ls, NEW dropped, NEW S \in SUBSET CuratedRequests[name],
         s6' = [o \in CuratedRequests[name] |-> IF o \in S THEN Curated(name)!Idle
                  ELSE Curated(name)!Overtaken(ops, ls, dropped)[o]],
         s1' \in [CuratedLists[name] -> BOOLEAN],
         s3' \in [CuratedLists[name] -> Nat \cup {None}],
         s4' \in [CuratedLists[name] -> [CuratedTitles[name] -> Nat \cup {None}]],
         s5' \in [CuratedTitles[name] -> {"published", "draft", "gone"}],
         s7' \in [CuratedLists[name] -> CuratedGenres[name] \cup {None}],
         \A o \in CuratedRequests[name] \ S : \A y :
           y.op = s6[o].op /\ y.l = s6[o].l /\ y.g = s6[o].g /\ y.writes \in SUBSET CuratedTitles[name]
             /\ y.clean \in BOOLEAN
             /\ y.lost \in BOOLEAN /\ Curated(name)!Draft(y) /\ Spoilt(y, ops, ls, dropped)
             => Curated(name)!Draft(y)'
  PROVE  Curated(name)!IInv'
<1>1. PICK A : s6 \in [CuratedRequests[name] -> Curated(name)!ReqType(A)]
  BY DEF Curated!IInv, Curated!TypeOK
<1>2. PICK z : z = Curated(name)!Overtaken(ops, ls, dropped) OBVIOUS
<1>3. ASSUME NEW o \in CuratedRequests[name] \ S
      PROVE  z[o] \in Curated(name)!ReqType(A) /\ z[o].op = s6[o].op /\ z[o].l = s6[o].l
               /\ Curated(name)!Draft(z[o])'
  <2>1. PICK y : y = z[o] OBVIOUS
  <2>2. y \in Curated(name)!ReqType(A) /\ y.op = s6[o].op /\ y.l = s6[o].l
          /\ y.g = s6[o].g /\ Curated(name)!Draft(y) /\ Spoilt(y, ops, ls, dropped)
    <3>1. o \in CuratedRequests[name] OBVIOUS
    <3>2. /\ y \in Curated(name)!ReqType(A) /\ SameTask(y, s6[o])
          /\ Curated(name)!Draft(y) /\ Spoilt(y, ops, ls, dropped)
      BY <1>1, <1>2, <2>1, <3>1, IsOvertaken
    <3> QED BY <3>2 DEF SameTask
  <2>3. Curated(name)!Draft(y)' BY <2>2 DEF Curated!ReqType
  <2> QED BY <2>1, <2>2, <2>3
<1>4. s6' = [o \in CuratedRequests[name] |-> IF o \in S THEN Curated(name)!Idle ELSE z[o]]
  BY <1>2
<1> QED BY <1>1, <1>3, <1>4, OthersKept

(* A list and a title nothing was done to. *)
LEMMA ListAsItWas ==
  ASSUME NEW name \in CuratedNames, NEW y, Curated(name)!Draft(y), y.l \in CuratedLists[name]
           => s4'[y.l] = s4[y.l] /\ s3'[y.l] = s3[y.l] /\ s1'[y.l] = s1[y.l],
         y.op = "section" => \/ ~y.clean
           \/ Curated(name)!Twins(y.l, y.g)' \subseteq Curated(name)!Twins(y.l, y.g),
           y.op = "add" /\ y.clean => s5'[y.x] = s5[y.x]
  PROVE  Curated(name)!Draft(y)'
<1>1. y.op \in {"add", "limit", "section", "order"} => y.l \in CuratedLists[name]
  BY DEF Curated!Draft, Curated!Sections
<1>2. y.l \in CuratedLists[name]
        => Curated(name)!On(y.l)' = Curated(name)!On(y.l)
          /\ Curated(name)!CapOf(y.l)' = Curated(name)!CapOf(y.l)
  BY DEF Curated!On, Curated!CapOf
<1>3. y.l \in CuratedLists[name] => Curated(name)!Room(y.l)' = Curated(name)!Room(y.l)
  BY <1>2 DEF Curated!Room
<1>4. y.op = "add" => Curated(name)!Draft(y)' BY <1>1, <1>3 DEF Curated!Draft
<1>5. y.op = "limit" => Curated(name)!Draft(y)'
  BY <1>1, <1>2 DEF Curated!Draft, Curated!Wanted
<1>6. y.op = "section" => Curated(name)!Draft(y)' BY <1>1, <1>2 DEF Curated!Draft
<1>7. y.op = "order" => Curated(name)!Draft(y)' BY <1>1, <1>2 DEF Curated!Draft
<1>8. y.op \notin {"add", "limit", "section", "order"} => Curated(name)!Draft(y)'
  BY DEF Curated!Draft
<1> QED BY <1>4, <1>5, <1>6, <1>7, <1>8

(* A request that notes what it found, which is what a clean one is about. *)
LEMMA RequestAsks ==
  ASSUME NEW name \in CuratedNames, Curated(name)!CurationConstants,
         Curated(name)!IInv, NEW r \in CuratedRequests[name],
         NEW x, NEW any, x \in Curated(name)!ReqType(any), Curated(name)!Draft(x),
         s6' = [s6 EXCEPT ![r] = x], s1' = s1, s3' = s3, s4' = s4, s5' = s5, s7' = s7,
         \A o \in CuratedRequests[name] \ {r} : x.l # s6[o].l
           \/ (s6[o].op # "section" /\ x.op # "section")
  PROVE  Curated(name)!IInv'
<1>1. PICK A : s6 \in [CuratedRequests[name] -> Curated(name)!ReqType(A)]
  BY DEF Curated!IInv, Curated!TypeOK
<1>2. ASSUME NEW o \in CuratedRequests[name]
      PROVE  s6'[o] \in Curated(name)!ReqType(A \cup any) /\ s6'[o] = IF o = r THEN x
               ELSE s6[o]
  BY <1>1 DEF Curated!ReqType
<1>3. Curated(name)!TypeOK'
  <2>1. s6' \in [CuratedRequests[name] -> Curated(name)!ReqType(A \cup any)] BY <1>1, <1>2
  <2> QED BY <2>1 DEF Curated!IInv, Curated!TypeOK
<1>4. ASSUME NEW y, Curated(name)!Draft(y) PROVE Curated(name)!Draft(y)'
  BY <1>4, ListAsItWas DEF Curated!Twins
<1>5. ASSUME NEW o \in CuratedRequests[name] PROVE Curated(name)!Draft(s6[o])'
  <2>1. PICK y : y = IF o = r THEN x ELSE s6[o] OBVIOUS
  <2>2. Curated(name)!Draft(y) BY <2>1 DEF Curated!IInv
  <2>3. s6'[o] = y BY <1>2, <2>1
  <2>4. Curated(name)!Draft(y)' BY <1>4, <2>2
  <2> QED BY <2>3, <2>4
<1>6. \A o \in CuratedRequests[name] : Curated(name)!Alone(o)'
  BY <1>2 DEF Curated!IInv, Curated!Alone
<1> QED BY <1>3, <1>5, <1>6 DEF Curated!IInv

(* An item to add finds room. *)
LEMMA AddAsked ==
  ASSUME NEW name \in CuratedNames, Curated(name)!CurationConstants,
         Curated(name)!IInv, NEW r \in CuratedRequests[name], NEW l \in CuratedLists[name],
         NEW x \in CuratedTitles[name], NEW n \in Curated(name)!Orders,
         Curated(name)!CheckAdd(r, l, x, n)
  PROVE  Curated(name)!IInv'
<1> DEFINE q == [Curated(name)!Idle EXCEPT !.op = "add", !.l = l, !.x = x, !.n = n]
<1>1. /\ q.op = "add" /\ q.l = l /\ q.x = x /\ q.n = n /\ n \in Nat
      /\ q \in Curated(name)!ReqType({q.pos})
  <2>1. n \in Nat BY ListCounts DEF Curated!Orders, Curated!CurationConstants
  <2> QED BY <2>1 DEF Curated!Idle, Curated!ReqType, Curated!Ops
<1>2. s6' = [s6 EXCEPT ![r] = q] BY DEF Curated!CheckAdd
<1> HIDE DEF q
<1>3. Curated(name)!Draft(q) BY <1>1 DEF Curated!Draft, Curated!CheckAdd
<1>4. \A o \in CuratedRequests[name] : s6[o].op = "section" => s6[o].l # l
  BY DEF Curated!IInv, Curated!Draft, Curated!CheckAdd
<1>5. s1' = s1 /\ s3' = s3 /\ s4' = s4 /\ s5' = s5 /\ s7' = s7 BY DEF Curated!CheckAdd
<1> QED BY <1>1, <1>2, <1>3, <1>4, <1>5, RequestAsks

(* A limit is no less than what is picked. *)
LEMMA LimitAsked ==
  ASSUME NEW name \in CuratedNames, Curated(name)!CurationConstants,
         Curated(name)!IInv, NEW r \in CuratedRequests[name], NEW l \in CuratedLists[name],
         NEW n \in CuratedLimits[name] \cup {None}, NEW g \in CuratedGenres[name] \cup {None},
         Curated(name)!CheckLimit(r, l, n, g)
  PROVE  Curated(name)!IInv'
<1>0. PICK h : h = IF g = s7[l] THEN None ELSE g OBVIOUS
<1> DEFINE q == [Curated(name)!Idle EXCEPT !.op = "limit", !.l = l, !.n = n, !.was = s3[l],
                   !.g = h]
<1>1. /\ q.op = "limit" /\ q.l = l /\ q.x = None /\ q.n = n /\ q.was = s3[l]
      /\ q \in Curated(name)!ReqType({q.pos})
  <2>1. s3[l] \in Nat \cup {None} BY DEF Curated!IInv, Curated!TypeOK
  <2> QED
    BY <1>0, <2>1 DEF Curated!Idle, Curated!ReqType, Curated!Ops, Curated!CurationConstants
<1>2. s6' = [s6 EXCEPT ![r] = q] BY <1>0 DEF Curated!CheckLimit
<1> HIDE DEF q
<1>3. Curated(name)!Draft(q)
  BY <1>1 DEF Curated!Draft, Curated!CheckLimit, Curated!Wanted, Curated!CurationConstants
<1>4. \A o \in CuratedRequests[name] : s6[o].op = "section" => s6[o].l # l
  BY DEF Curated!IInv, Curated!Draft, Curated!CheckLimit
<1>5. s1' = s1 /\ s3' = s3 /\ s4' = s4 /\ s5' = s5 /\ s7' = s7 BY DEF Curated!CheckLimit
<1> QED BY <1>1, <1>2, <1>3, <1>4, <1>5, RequestAsks

(* A section to make is the only one of its kind. *)
LEMMA SectionAsked ==
  ASSUME NEW name \in CuratedNames, Curated(name)!CurationConstants,
         Curated(name)!IInv, NEW r \in CuratedRequests[name], NEW l \in CuratedLists[name],
         NEW g \in CuratedGenres[name] \cup {None}, Curated(name)!CheckSection(r, l, g)
  PROVE  Curated(name)!IInv'
<1> DEFINE q == [Curated(name)!Idle EXCEPT !.op = "section", !.l = l, !.g = g]
<1>1. q.op = "section" /\ q.l = l /\ q.x = None /\ q.g = g /\ q \in Curated(name)!ReqType({q.pos})
  BY DEF Curated!Idle, Curated!ReqType, Curated!Ops
<1>2. s6' = [s6 EXCEPT ![r] = q] BY DEF Curated!CheckSection
<1> HIDE DEF q
<1>3. Curated(name)!Draft(q) BY <1>1 DEF Curated!Draft, Curated!CheckSection
<1>4. \A o \in CuratedRequests[name] \ {r} : q.l # s6[o].l BY <1>1 DEF Curated!CheckSection
<1>5. s1' = s1 /\ s3' = s3 /\ s4' = s4 /\ s5' = s5 /\ s7' = s7 BY DEF Curated!CheckSection
<1> QED BY <1>1, <1>2, <1>3, <1>4, <1>5, RequestAsks

(* An order names the rows there are. *)
LEMMA OrderAsked ==
  ASSUME NEW name \in CuratedNames, Curated(name)!CurationConstants,
         Curated(name)!IInv, NEW r \in CuratedRequests[name], NEW l \in CuratedLists[name],
         NEW S \in Curated(name)!Named(l), NEW pos \in Curated(name)!Positions(S),
         Curated(name)!CheckOrder(r, l, pos)
  PROVE  Curated(name)!IInv'
<1> DEFINE q == [Curated(name)!Idle EXCEPT !.op = "order", !.l = l, !.pos = pos,
                   !.writes = {x \in DOMAIN pos : pos[x] # s4[l][x]}]
<1>1. DOMAIN pos = S /\ S \subseteq Curated(name)!On(l)
        /\ Curated(name)!On(l) \subseteq CuratedTitles[name]
  BY DEF Curated!Named, Curated!Positions, Curated!On
<1>2. S \in SUBSET CuratedTitles[name] /\ \A x \in S : pos[x] \in Nat
  <2>1. S \in SUBSET CuratedTitles[name] BY <1>1
  <2>2. Curated(name)!Cardinality(S) \in Nat BY <2>1, ListCounts
  <2> QED BY <2>1, <2>2 DEF Curated!Positions
<1>3. /\ q.op = "order" /\ q.l = l /\ q.x = None /\ q.pos = pos /\ q.lost = FALSE
      /\ q.writes = {x \in DOMAIN pos : pos[x] # s4[l][x]}
           /\ q \in Curated(name)!ReqType({q.pos})
  BY <1>1, <1>2 DEF Curated!Idle, Curated!ReqType, Curated!Ops
<1>4. s6' = [s6 EXCEPT ![r] = q] BY DEF Curated!CheckOrder
<1> HIDE DEF q
<1>5. l \in Curated(name)!Sections => S = Curated(name)!On(l)
  BY DEF Curated!Named, Curated!Sections
<1>6. Curated(name)!Draft(q) BY <1>1, <1>2, <1>3, <1>5 DEF Curated!Draft
<1>7. \A o \in CuratedRequests[name] : s6[o].op = "section" => s6[o].l # l
  BY DEF Curated!IInv, Curated!Draft, Curated!CheckOrder
<1>8. s1' = s1 /\ s3' = s3 /\ s4' = s4 /\ s5' = s5 /\ s7' = s7 BY DEF Curated!CheckOrder
<1> QED BY <1>3, <1>4, <1>6, <1>7, <1>8, RequestAsks

(* A request that only becomes idle. *)
LEMMA RequestEnds ==
  ASSUME NEW name \in CuratedNames, Curated(name)!CurationConstants,
         Curated(name)!IInv, NEW r \in CuratedRequests[name],
         s6' = [s6 EXCEPT ![r] = Curated(name)!Idle],
         UNCHANGED <<s1, s3, s4, s5, s7>>
  PROVE  Curated(name)!IInv'
<1>1. Curated(name)!Idle \in Curated(name)!ReqType({Curated(name)!Idle.pos})
        /\ Curated(name)!Draft(Curated(name)!Idle) /\ Curated(name)!Idle.op = "idle"
             /\ Curated(name)!Idle.l = None
  BY DEF Curated!Idle, Curated!ReqType, Curated!Ops, Curated!Draft
<1>2. \A o \in CuratedRequests[name] : s6[o].op = "section" => s6[o].l # None
  BY DEF Curated!IInv, Curated!Draft, Curated!Sections, Curated!CurationConstants
<1> QED BY <1>1, <1>2, RequestAsks

(* The same after a commit of r. *)
LEMMA RequestCommits ==
  ASSUME NEW name \in CuratedNames, Curated(name)!CurationConstants,
         Curated(name)!IInv, NEW r \in CuratedRequests[name],
         NEW ops, NEW ls, s6' = Curated(name)!After(r, ops, ls),
         s1' \in [CuratedLists[name] -> BOOLEAN],
         s3' \in [CuratedLists[name] -> Nat \cup {None}],
         s4' \in [CuratedLists[name] -> [CuratedTitles[name] -> Nat \cup {None}]], s5' = s5,
         s7' \in [CuratedLists[name] -> CuratedGenres[name] \cup {None}],
         \A o \in CuratedRequests[name] \ {r} : \A y :
           y.op = s6[o].op /\ y.l = s6[o].l /\ y.g = s6[o].g
           /\ Curated(name)!Draft(y) /\ Spoilt(y, ops, ls, {}) => Curated(name)!Draft(y)'
  PROVE  Curated(name)!IInv'
<1>1. PICK z : z = Curated(name)!Overtaken(ops, ls, {}) OBVIOUS
<1>2. z = [o \in CuratedRequests[name] |-> z[o]] BY <1>1 DEF Curated!Overtaken
<1>3. [z EXCEPT ![r] = Curated(name)!Idle]
        = [o \in CuratedRequests[name] |-> IF o \in {r} THEN Curated(name)!Idle ELSE z[o]]
  BY <1>2
<1>4. PICK S, dropped : S = {r} /\ dropped = {} OBVIOUS
<1>5. s6' = [o \in CuratedRequests[name] |-> IF o \in S THEN Curated(name)!Idle
               ELSE Curated(name)!Overtaken(ops, ls, dropped)[o]]
  BY <1>1, <1>3, <1>4 DEF Curated!After
<1>6. s5' \in [CuratedTitles[name] -> {"published", "draft", "gone"}]
  BY DEF Curated!IInv, Curated!TypeOK
<1>7. \A o \in CuratedRequests[name] \ S : \A y :
        y.op = s6[o].op /\ y.l = s6[o].l /\ y.g = s6[o].g /\ Curated(name)!Draft(y)
        /\ Spoilt(y, ops, ls, dropped) => Curated(name)!Draft(y)'
  BY <1>4
<1>8. S \in SUBSET CuratedRequests[name] BY <1>4
<1>9. \A o \in CuratedRequests[name] \ S : \A y :
           y.op = s6[o].op /\ y.l = s6[o].l /\ y.g = s6[o].g /\ y.writes \in SUBSET CuratedTitles[name]
             /\ y.clean \in BOOLEAN
             /\ y.lost \in BOOLEAN /\ Curated(name)!Draft(y) /\ Spoilt(y, ops, ls, dropped)
             => Curated(name)!Draft(y)'
  BY <1>7
<1> QED BY <1>5, <1>6, <1>8, <1>9, OthersOvertaken

(* The item is added: where it was alone there still is room. *)
LEMMA Added ==
  ASSUME NEW name \in CuratedNames, Curated(name)!CurationConstants,
         Curated(name)!IInv, NEW r \in CuratedRequests[name], Curated(name)!CommitAdd(r)
  PROVE  Curated(name)!IInv'
<1>t. Curated(name)!TypeOK /\ Curated(name)!Draft(s6[r]) BY DEF Curated!IInv
<1>1. PICK q : q = s6[r] OBVIOUS
<1>2. q.op = "add" /\ q.l \in CuratedLists[name] /\ q.x \in CuratedTitles[name]
        /\ q.n \in Nat
  BY <1>t, <1>1 DEF Curated!CommitAdd, Curated!Draft
<1>3. CASE s4' = s4 /\ s6' = [s6 EXCEPT ![r] = Curated(name)!Idle]
  BY <1>3, RequestEnds DEF Curated!CommitAdd
<1>4. CASE /\ s1[q.l] /\ s4[q.l][q.x] = None
           /\ s4' = [s4 EXCEPT ![q.l][q.x] = q.n]
                /\ s6' = Curated(name)!After(r, Curated(name)!Counting, {q.l})
  <2>1. s4' \in [CuratedLists[name] -> [CuratedTitles[name] -> Nat \cup {None}]]
          /\ \A l \in CuratedLists[name] : l # q.l => s4'[l] = s4[l]
    BY <1>t, <1>2, <1>4 DEF Curated!TypeOK
  <2>2. \A x \in CuratedTitles[name] : s4[q.l][x] # None => s4'[q.l][x] = s4[q.l][x]
    BY <1>t, <1>2, <1>4 DEF Curated!TypeOK
  <2>3. UNCHANGED <<s1, s3, s5, s7>> BY DEF Curated!CommitAdd
  <2>4. ASSUME NEW y, Curated(name)!Draft(y), Spoilt(y, Curated(name)!Counting, {q.l}, {})
        PROVE  Curated(name)!Draft(y)'
    <3>1. CASE y.l # q.l BY <2>1, <2>3, <2>4, <3>1, ListAsItWas DEF Curated!Twins
    <3>2. CASE y.l = q.l /\ y.op \notin Curated(name)!Counting
      BY <2>3, <2>4, <3>2 DEF Curated!Draft, Curated!Counting, Curated!Twins
    <3>3. CASE y.l = q.l /\ y.op \in Curated(name)!Counting
      <4>1. ~y.clean BY <2>4, <3>3 DEF Spoilt
      <4>2. Curated(name)!On(y.l) \subseteq Curated(name)!On(y.l)'
        BY <1>2, <2>2, <3>3 DEF Curated!On, Curated!CurationConstants
      <4> QED BY <2>3, <2>4, <3>3, <4>1, <4>2 DEF Curated!Draft, Curated!Counting
    <3> QED BY <3>1, <3>2, <3>3
  <2>5. PICK ls : ls = {q.l} OBVIOUS
  <2>6. s6' = Curated(name)!After(r, Curated(name)!Counting, ls) BY <1>4, <2>5
  <2>7. \A y : Curated(name)!Draft(y) /\ Spoilt(y, Curated(name)!Counting, ls, {})
          => Curated(name)!Draft(y)'
    BY <2>4, <2>5
  <2>8. s1' \in [CuratedLists[name] -> BOOLEAN]
          /\ s3' \in [CuratedLists[name] -> Nat \cup {None}]
          /\ s7' \in [CuratedLists[name] -> CuratedGenres[name] \cup {None}]
    BY <1>t, <2>3 DEF Curated!TypeOK
  <2> QED BY <2>1, <2>3, <2>6, <2>7, <2>8, RequestCommits
<1> QED BY <1>1, <1>3, <1>4 DEF Curated!CommitAdd

(* The limit is set. *)
LEMMA LimitSet ==
  ASSUME NEW name \in CuratedNames, Curated(name)!CurationConstants,
         Curated(name)!IInv, NEW r \in CuratedRequests[name], Curated(name)!CommitLimit(r)
  PROVE  Curated(name)!IInv'
<1>t. Curated(name)!TypeOK /\ Curated(name)!Draft(s6[r]) BY DEF Curated!IInv
<1>1. PICK q : q = s6[r] OBVIOUS
<1>2. q.op = "limit" /\ q.l \in Curated(name)!Sections /\ q.l \in CuratedLists[name]
        /\ q.n \in Nat \cup {None} /\ q.g \in CuratedGenres[name] \cup {None}
  BY <1>t, <1>1 DEF Curated!CommitLimit, Curated!Draft, Curated!TypeOK, Curated!ReqType,
     Curated!Sections
<1>3. CASE UNCHANGED <<s3, s7>> /\ s6' = [s6 EXCEPT ![r] = Curated(name)!Idle]
  BY <1>3, RequestEnds DEF Curated!CommitLimit
<1>4. CASE /\ s3' = IF q.n = q.was THEN s3 ELSE [s3 EXCEPT ![q.l] = q.n]
           /\ s7' = IF q.g = None THEN s7 ELSE [s7 EXCEPT ![q.l] = q.g]
           /\ s6' = Curated(name)!After(r, Curated(name)!Spoils(q),
                                        {q.l} \cup Curated(name)!Rivals(q.l, q.g))
  <2>1. /\ s3' \in [CuratedLists[name] -> Nat \cup {None}]
        /\ s7' \in [CuratedLists[name] -> CuratedGenres[name] \cup {None}]
        /\ \A k \in CuratedLists[name] :
             /\ k # q.l \/ q.n = q.was => s3'[k] = s3[k]
             /\ k # q.l \/ q.g = None => s7'[k] = s7[k]
        /\ q.g # None => s7'[q.l] = q.g
    BY <1>t, <1>2, <1>4 DEF Curated!TypeOK
  <2>3. UNCHANGED <<s1, s4, s5>> BY DEF Curated!CommitLimit
  <2>5. PICK ops, ls : ops = Curated(name)!Spoils(q)
                         /\ ls = {q.l} \cup Curated(name)!Rivals(q.l, q.g) OBVIOUS
  <2>4. ASSUME NEW o \in CuratedRequests[name], NEW y,
               y.op = s6[o].op, y.l = s6[o].l, y.g = s6[o].g,
               Curated(name)!Draft(y), Spoilt(y, ops, ls, {})
        PROVE  Curated(name)!Draft(y)'
    <3>1. CASE y.op = "section"
      <4>1. y.l \in Curated(name)!Sections BY <2>4, <3>1 DEF Curated!Draft
      <4>2. \/ ~y.clean
            \/ Curated(name)!Twins(y.l, y.g)' \subseteq Curated(name)!Twins(y.l, y.g)
        <5>1. CASE q.g # None /\ CuratedTypes[y.l] = CuratedTypes[q.l] /\ y.g = q.g
          <6>1. y.l \in Curated(name)!Rivals(q.l, q.g)
            BY <2>4, <3>1, <5>1 DEF Curated!Rivals
          <6>2. "section" \in ops /\ y.l \in ls BY <2>5, <5>1, <6>1 DEF Curated!Spoils
          <6> QED BY <2>4, <3>1, <6>2 DEF Spoilt
        <5>2. CASE q.g = None \/ CuratedTypes[y.l] # CuratedTypes[q.l] \/ y.g # q.g
          BY <2>1, <2>3, <4>1, <5>2 DEF Curated!Twins, Curated!Sections
        <5> QED BY <5>1, <5>2
      <4> QED BY <2>3, <2>4, <3>1, <4>2 DEF Curated!Draft
    <3>2. CASE y.op # "section" /\ (y.l # q.l \/ q.n = q.was)
      BY <2>1, <2>3, <2>4, <3>2, ListAsItWas
    <3>3. CASE y.op \in {"add", "limit"} /\ y.l = q.l /\ q.n # q.was
      <4>1. ~y.clean BY <2>4, <2>5, <3>3 DEF Spoilt, Curated!Spoils
      <4> QED BY <2>3, <2>4, <3>3, <4>1 DEF Curated!Draft
    <3>4. CASE y.op \notin {"add", "limit", "section"}
      BY <2>3, <2>4, <3>4 DEF Curated!Draft, Curated!On
    <3> QED BY <3>1, <3>2, <3>3, <3>4
  <2>6. s6' = Curated(name)!After(r, ops, ls) BY <1>4, <2>5
  <2>7. \A o \in CuratedRequests[name] \ {r} : \A y :
          y.op = s6[o].op /\ y.l = s6[o].l /\ y.g = s6[o].g
          /\ Curated(name)!Draft(y) /\ Spoilt(y, ops, ls, {}) => Curated(name)!Draft(y)'
    BY <2>4
  <2>8. s1' \in [CuratedLists[name] -> BOOLEAN]
          /\ s4' \in [CuratedLists[name] -> [CuratedTitles[name] -> Nat \cup {None}]]
    BY <1>t, <2>3 DEF Curated!TypeOK
  <2>9. s5' = s5 BY <2>3
  <2> QED BY <2>1, <2>6, <2>7, <2>8, <2>9, RequestCommits
<1> QED BY <1>1, <1>3, <1>4 DEF Curated!CommitLimit

(* The section is made. *)
LEMMA SectionMade ==
  ASSUME NEW name \in CuratedNames, Curated(name)!CurationConstants,
         Curated(name)!IInv, NEW r \in CuratedRequests[name], NEW shown \in BOOLEAN,
         Curated(name)!CommitSection(r, shown)
  PROVE  Curated(name)!IInv'
<1>t. Curated(name)!TypeOK /\ Curated(name)!Draft(s6[r]) /\ Curated(name)!Alone(r)
  BY DEF Curated!IInv
<1>1. PICK l, g : l = s6[r].l /\ g = s6[r].g OBVIOUS
<1>a. PICK ops, ls : ops = {"section"} /\ ls = Curated(name)!Rivals(l, g) OBVIOUS
<1>2. /\ l \in Curated(name)!Sections /\ l \in CuratedLists[name]
      /\ s1' = [s1 EXCEPT ![l] = TRUE] /\ s3' = [s3 EXCEPT ![l] = None]
      /\ s7' = [s7 EXCEPT ![l] = g] /\ g \in CuratedGenres[name] \cup {None}
      /\ (g # None) <=> (CuratedTypes[l] = "genre")
      /\ s6' = Curated(name)!After(r, ops, ls) /\ UNCHANGED <<s4, s5>>
  <2>1. s6[r].g \in CuratedGenres[name] \cup {None} BY <1>t DEF Curated!TypeOK, Curated!ReqType
  <2> QED
    BY <1>t, <1>1, <1>a, <2>1 DEF Curated!CommitSection, Curated!Draft, Curated!Sections
<1>3. /\ s1' \in [CuratedLists[name] -> BOOLEAN]
           /\ s3' \in [CuratedLists[name] -> Nat \cup {None}]
           /\ s7' \in [CuratedLists[name] -> CuratedGenres[name] \cup {None}]
      /\ \A k \in CuratedLists[name] :
           k # l => s3'[k] = s3[k] /\ s1'[k] = s1[k] /\ s7'[k] = s7[k]
      /\ s7'[l] = g
  BY <1>t, <1>2 DEF Curated!TypeOK
<1>4. ASSUME NEW o \in CuratedRequests[name] \ {r} PROVE s6[o].l # l
  BY <1>t, <1>1 DEF Curated!CommitSection, Curated!Alone
<1>5. ASSUME NEW o \in CuratedRequests[name] \ {r}, NEW y,
             y.op = s6[o].op, y.l = s6[o].l, y.g = s6[o].g,
             Curated(name)!Draft(y), Spoilt(y, ops, ls, {})
      PROVE  Curated(name)!Draft(y)'
  <2>0. y.l # l BY <1>4, <1>5
  <2>1. y.op = "section" => \/ ~y.clean
          \/ Curated(name)!Twins(y.l, y.g)' \subseteq Curated(name)!Twins(y.l, y.g)
    <3> SUFFICES ASSUME y.op = "section", y.clean
                 PROVE  Curated(name)!Twins(y.l, y.g)' \subseteq Curated(name)!Twins(y.l, y.g)
      OBVIOUS
    <3>1. y.l \in Curated(name)!Sections /\ ((y.g # None) <=> (CuratedTypes[y.l] = "genre"))
      BY <1>5 DEF Curated!Draft
    <3>2. CuratedTypes[y.l] # CuratedTypes[l] \/ y.g # g
      <4> SUFFICES ASSUME CuratedTypes[y.l] = CuratedTypes[l], y.g = g PROVE FALSE OBVIOUS
      <4>1. y.l \in ls BY <1>5, <1>a DEF Curated!Rivals
      <4> QED BY <1>5, <1>a, <4>1 DEF Spoilt
    <3>3. CuratedTypes[y.l] # CuratedTypes[l] \/ (CuratedTypes[y.l] = "genre" /\ y.g # g)
      BY <1>2, <3>1, <3>2
    <3> QED BY <1>3, <3>1, <3>3 DEF Curated!Twins, Curated!Sections
  <2> QED BY <1>2, <1>3, <1>5, <2>0, <2>1, ListAsItWas
<1>9. s4' \in [CuratedLists[name] -> [CuratedTitles[name] -> Nat \cup {None}]]
  BY <1>t, <1>2 DEF Curated!TypeOK
<1>10. \A o \in CuratedRequests[name] \ {r} : \A y :
         y.op = s6[o].op /\ y.l = s6[o].l /\ y.g = s6[o].g
         /\ Curated(name)!Draft(y) /\ Spoilt(y, ops, ls, {}) => Curated(name)!Draft(y)'
  BY <1>5
<1>11. s5' = s5 /\ s6' = Curated(name)!After(r, ops, ls) BY <1>2
<1> QED BY <1>3, <1>9, <1>10, <1>11, RequestCommits

(* The rows get their order. *)
LEMMA Ordered ==
  ASSUME NEW name \in CuratedNames, Curated(name)!CurationConstants,
         Curated(name)!IInv, NEW r \in CuratedRequests[name], Curated(name)!CommitOrder(r)
  PROVE  Curated(name)!IInv'
<1>t. Curated(name)!TypeOK /\ Curated(name)!Draft(s6[r]) BY DEF Curated!IInv
<1>1. PICK q : q = s6[r] OBVIOUS
<1>2. /\ q.op = "order" /\ q.l \in CuratedLists[name]
           /\ q.writes \in SUBSET CuratedTitles[name]
      /\ \A x \in q.writes : q.pos[x] \in Nat /\ (~q.lost => x \in Curated(name)!On(q.l))
  BY <1>t, <1>1 DEF Curated!CommitOrder, Curated!Draft, Curated!TypeOK, Curated!ReqType
<1>3. CASE s4' = s4 /\ s6' = [s6 EXCEPT ![r] = Curated(name)!Idle]
  BY <1>3, RequestEnds DEF Curated!CommitOrder
<1>4. CASE /\ ~q.lost /\ s6' = Curated(name)!After(r, {"order"}, {q.l})
           /\ s4' = [s4 EXCEPT ![q.l] = [x \in CuratedTitles[name] |->
                                           IF x \in q.writes THEN q.pos[x] ELSE @[x]]]
  <2>1. s4' \in [CuratedLists[name] -> [CuratedTitles[name] -> Nat \cup {None}]]
          /\ \A l \in CuratedLists[name] : l # q.l => s4'[l] = s4[l]
    BY <1>t, <1>2, <1>4 DEF Curated!TypeOK
  <2>2. \A x \in CuratedTitles[name] : s4[q.l][x] # None <=> s4'[q.l][x] # None
    BY <1>t, <1>2, <1>4 DEF Curated!TypeOK, Curated!On, Curated!CurationConstants
  <2>3. UNCHANGED <<s1, s3, s5, s7>> BY DEF Curated!CommitOrder
  <2>4. ASSUME NEW y, Curated(name)!Draft(y), Spoilt(y, {"order"}, {q.l}, {})
        PROVE  Curated(name)!Draft(y)'
    <3>1. CASE y.l # q.l BY <2>1, <2>3, <2>4, <3>1, ListAsItWas DEF Curated!Twins
    <3>2. CASE y.l = q.l
      <4>1. Curated(name)!On(y.l)' = Curated(name)!On(y.l)
              /\ Curated(name)!CapOf(y.l)' = Curated(name)!CapOf(y.l)
        BY <2>2, <2>3, <3>2 DEF Curated!On, Curated!CapOf
      <4>2. Curated(name)!Room(y.l)' = Curated(name)!Room(y.l) BY <4>1 DEF Curated!Room
      <4>3. CASE y.op = "order"
        <5>1. ~y.clean BY <2>4, <3>2, <4>3 DEF Spoilt
        <5> QED BY <2>3, <2>4, <3>2, <4>1, <4>3, <5>1 DEF Curated!Draft
      <4>4. CASE y.op # "order"
        BY <2>3, <2>4, <4>1, <4>2, <4>4 DEF Curated!Draft, Curated!Twins, Curated!Wanted
      <4> QED BY <4>3, <4>4
    <3> QED BY <3>1, <3>2
  <2>5. PICK ops, ls : ops = {"order"} /\ ls = {q.l} OBVIOUS
  <2>6. s6' = Curated(name)!After(r, ops, ls) BY <1>4, <2>5
  <2>7. \A y : Curated(name)!Draft(y) /\ Spoilt(y, ops, ls, {}) => Curated(name)!Draft(y)'
    BY <2>4, <2>5
  <2>8. s1' \in [CuratedLists[name] -> BOOLEAN]
          /\ s3' \in [CuratedLists[name] -> Nat \cup {None}]
          /\ s7' \in [CuratedLists[name] -> CuratedGenres[name] \cup {None}]
    BY <1>t, <2>3 DEF Curated!TypeOK
  <2> QED BY <2>1, <2>3, <2>6, <2>7, <2>8, RequestCommits
<1> QED BY <1>1, <1>3, <1>4 DEF Curated!CommitOrder

(* A change that is checked and committed at once. *)
LEMMA AtOnce ==
  ASSUME NEW name \in CuratedNames, Curated(name)!CurationConstants, Curated(name)!IInv,
         NEW ops, NEW ls, NEW dropped, s6' = Curated(name)!Overtaken(ops, ls, dropped),
         s1' \in [CuratedLists[name] -> BOOLEAN], s3' = s3,
         s4' \in [CuratedLists[name] -> [CuratedTitles[name] -> Nat \cup {None}]], s5' = s5,
         s7' \in [CuratedLists[name] -> CuratedGenres[name] \cup {None}],
         \A o \in CuratedRequests[name] : \A y :
           y.op = s6[o].op /\ y.l = s6[o].l /\ y.g = s6[o].g
           /\ y.writes \in SUBSET CuratedTitles[name] /\ Curated(name)!Draft(y)
           /\ Spoilt(y, ops, ls, dropped) => Curated(name)!Draft(y)'
  PROVE  Curated(name)!IInv'
<1>1. PICK S : S = {} OBVIOUS
<1>2. s6' = [o \in CuratedRequests[name] |-> IF o \in S THEN Curated(name)!Idle
               ELSE Curated(name)!Overtaken(ops, ls, dropped)[o]]
  BY <1>1 DEF Curated!Overtaken
<1>3. /\ s5' \in [CuratedTitles[name] -> {"published", "draft", "gone"}]
      /\ s3' \in [CuratedLists[name] -> Nat \cup {None}]
  BY DEF Curated!IInv, Curated!TypeOK
<1>4. S \in SUBSET CuratedRequests[name] BY <1>1
<1> QED BY <1>2, <1>3, <1>4, OthersOvertaken

(* What a request found of a list on which rows were removed. *)
LEMMA ListShrinks ==
  ASSUME NEW name \in CuratedNames, Curated(name)!CurationConstants,
         Curated(name)!TypeOK, NEW y, Curated(name)!Draft(y), y.l \in CuratedLists[name],
         Curated(name)!On(y.l)' \subseteq Curated(name)!On(y.l),
         s3' = s3, s1' = s1, s7' = s7, y.op = "add" /\ y.clean => s5'[y.x] = s5[y.x],
         y.op = "order"
           => ~y.clean /\ (~y.lost => y.writes \subseteq Curated(name)!On(y.l)')
  PROVE  Curated(name)!Draft(y)'
<1>1. Curated(name)!On(y.l) \in SUBSET CuratedTitles[name] BY DEF Curated!On
<1>2. PICK S, T : S = Curated(name)!On(y.l) /\ T = Curated(name)!On(y.l)' OBVIOUS
<1>3. Curated(name)!Cardinality(S) \in Nat /\ Curated(name)!Cardinality(T) \in Nat
        /\ Curated(name)!Cardinality(T) <= Curated(name)!Cardinality(S)
  BY <1>1, <1>2, ListCounts
<1>4. Curated(name)!CapOf(y.l)' = Curated(name)!CapOf(y.l)
        /\ Curated(name)!CapOf(y.l) \in Nat \cup {None}
  BY DEF Curated!CapOf, Curated!TypeOK, Curated!CurationConstants
<1>5. Curated(name)!Room(y.l) => Curated(name)!Room(y.l)'
  BY <1>2, <1>3, <1>4 DEF Curated!Room
<1>6. Curated(name)!Twins(y.l, y.g)' = Curated(name)!Twins(y.l, y.g) BY DEF Curated!Twins
<1>7. y.op = "limit" => Curated(name)!Wanted(y) \in Nat
  BY DEF Curated!Draft, Curated!Wanted, Curated!CurationConstants, Curated!Sections
<1>8. y.op = "add" => Curated(name)!Draft(y)' BY <1>5 DEF Curated!Draft
<1>9. y.op = "limit" => Curated(name)!Draft(y)'
  BY <1>2, <1>3, <1>7 DEF Curated!Draft, Curated!Wanted
<1>10. y.op = "section" => Curated(name)!Draft(y)' BY <1>6 DEF Curated!Draft
<1>11. y.op = "order" => Curated(name)!Draft(y)' BY DEF Curated!Draft
<1> QED BY <1>8, <1>9, <1>10, <1>11 DEF Curated!Draft

(* A row moves past its neighbour. *)
LEMMA Moved ==
  ASSUME NEW name \in CuratedNames, Curated(name)!CurationConstants,
         Curated(name)!IInv, NEW l \in CuratedLists[name], NEW x \in CuratedTitles[name],
         NEW n \in Curated(name)!Orders, Curated(name)!Move(l, x, n)
  PROVE  Curated(name)!IInv'
<1>t. Curated(name)!TypeOK /\ n \in Nat
  BY ListCounts DEF Curated!IInv, Curated!Orders, Curated!CurationConstants
<1>1. PICK ops, ls, dropped : ops = {"order"} /\ ls = {l} /\ dropped = {} OBVIOUS
<1>2. /\ s4[l][x] # None /\ s4' = [s4 EXCEPT ![l][x] = n] /\ UNCHANGED <<s1, s3, s5, s7>>
      /\ s6' = Curated(name)!Overtaken(ops, ls, dropped)
  BY <1>1 DEF Curated!Move
<1>3. s4' \in [CuratedLists[name] -> [CuratedTitles[name] -> Nat \cup {None}]]
        /\ \A k \in CuratedLists[name] : k # l => s4'[k] = s4[k]
  BY <1>t, <1>2 DEF Curated!TypeOK
<1>4. Curated(name)!On(l)' = Curated(name)!On(l)
  BY <1>t, <1>2 DEF Curated!On, Curated!TypeOK, Curated!CurationConstants
<1>5. ASSUME NEW y, Curated(name)!Draft(y), Spoilt(y, ops, ls, dropped)
      PROVE  Curated(name)!Draft(y)'
  <2>1. CASE y.l # l BY <1>2, <1>3, <1>5, <2>1, ListAsItWas DEF Curated!Twins
  <2>2. CASE y.l = l
    <3>1. y.op = "order" => ~y.clean BY <1>1, <1>5, <2>2 DEF Spoilt
    <3>2. y.op = "order" /\ ~y.lost => y.writes \subseteq Curated(name)!On(l)
      BY <1>5, <2>2 DEF Curated!Draft
    <3> QED BY <1>t, <1>2, <1>4, <1>5, <2>2, <3>1, <3>2, ListShrinks
  <2> QED BY <2>1, <2>2
<1>6. s1' \in [CuratedLists[name] -> BOOLEAN]
        /\ s7' \in [CuratedLists[name] -> CuratedGenres[name] \cup {None}]
  BY <1>t, <1>2 DEF Curated!TypeOK
<1> QED BY <1>2, <1>3, <1>5, <1>6, AtOnce

(* A row is removed. *)
LEMMA Removed ==
  ASSUME NEW name \in CuratedNames, Curated(name)!CurationConstants,
         Curated(name)!IInv, NEW l \in CuratedLists[name], NEW x \in CuratedTitles[name],
         Curated(name)!Remove(l, x)
  PROVE  Curated(name)!IInv'
<1>t. Curated(name)!TypeOK BY DEF Curated!IInv
<1>1. PICK ops, ls, dropped : ops = {"order"} /\ ls = {l} /\ dropped = {<<l, x>>} OBVIOUS
<1>2. /\ s4' = [s4 EXCEPT ![l][x] = None] /\ UNCHANGED <<s1, s3, s5, s7>>
      /\ s6' = Curated(name)!Overtaken(ops, ls, dropped)
  BY <1>1 DEF Curated!Remove
<1>3. s4' \in [CuratedLists[name] -> [CuratedTitles[name] -> Nat \cup {None}]]
        /\ \A k \in CuratedLists[name] : k # l => s4'[k] = s4[k]
  BY <1>t, <1>2 DEF Curated!TypeOK
<1>4. Curated(name)!On(l)' = Curated(name)!On(l) \ {x}
  BY <1>t, <1>2 DEF Curated!On, Curated!TypeOK
<1>5. ASSUME NEW y, Curated(name)!Draft(y), Spoilt(y, ops, ls, dropped)
      PROVE  Curated(name)!Draft(y)'
  <2>1. CASE y.l # l BY <1>2, <1>3, <1>5, <2>1, ListAsItWas DEF Curated!Twins
  <2>2. CASE y.l = l
    <3>1. y.op = "order" => ~y.clean /\ (~y.lost => x \notin y.writes)
      BY <1>1, <1>5, <2>2 DEF Spoilt
    <3>2. y.op = "order" /\ ~y.lost => y.writes \subseteq Curated(name)!On(l)
      BY <1>5, <2>2 DEF Curated!Draft
    <3> QED BY <1>t, <1>2, <1>4, <1>5, <2>2, <3>1, <3>2, ListShrinks
  <2> QED BY <2>1, <2>2
<1>6. s1' \in [CuratedLists[name] -> BOOLEAN]
        /\ s7' \in [CuratedLists[name] -> CuratedGenres[name] \cup {None}]
  BY <1>t, <1>2 DEF Curated!TypeOK
<1> QED BY <1>2, <1>3, <1>5, <1>6, AtOnce

(* A section is deleted with its rows. *)
LEMMA SectionDeleted ==
  ASSUME NEW name \in CuratedNames, Curated(name)!CurationConstants,
         Curated(name)!IInv, NEW l \in CuratedLists[name], Curated(name)!DeleteSection(l)
  PROVE  Curated(name)!IInv'
<1>t. Curated(name)!TypeOK BY DEF Curated!IInv
<1>1. PICK ops, ls, dropped : ops = Curated(name)!Counting /\ ls = {l}
                                /\ dropped = {l} \X CuratedTitles[name] OBVIOUS
<1>2. /\ s1[l] /\ s4' = [s4 EXCEPT ![l] = [x \in CuratedTitles[name] |-> None]]
           /\ UNCHANGED <<s3, s5, s7>>
      /\ s1' = [s1 EXCEPT ![l] = FALSE]
      /\ s6' = Curated(name)!Overtaken(ops, ls, dropped)
  BY <1>1 DEF Curated!DeleteSection
<1>3. /\ s4' \in [CuratedLists[name] -> [CuratedTitles[name] -> Nat \cup {None}]]
           /\ s1' \in [CuratedLists[name] -> BOOLEAN]
           /\ s7' \in [CuratedLists[name] -> CuratedGenres[name] \cup {None}]
      /\ \A k \in CuratedLists[name] : k # l => s4'[k] = s4[k] /\ s1'[k] = s1[k]
      /\ ~s1'[l]
  BY <1>t, <1>2 DEF Curated!TypeOK
<1>4. \A k, g : Curated(name)!Twins(k, g)' \subseteq Curated(name)!Twins(k, g)
  BY <1>2, <1>3 DEF Curated!Twins, Curated!Sections
<1>5. ASSUME NEW y, y.writes \in SUBSET CuratedTitles[name], Curated(name)!Draft(y),
             Spoilt(y, ops, ls, dropped)
      PROVE  Curated(name)!Draft(y)'
  <2>1. CASE y.l # l BY <1>2, <1>3, <1>4, <1>5, <2>1, ListAsItWas
  <2>2. CASE y.l = l /\ y.op = "section" BY <1>2, <1>5, <2>2 DEF Curated!Draft
  <2>3. CASE y.l = l /\ y.op # "section"
    <3>1. y.op \in Curated(name)!Counting => ~y.clean /\ (~y.lost => y.writes = {})
      BY <1>1, <1>5, <2>3 DEF Spoilt
    <3> QED BY <1>5, <2>3, <3>1 DEF Curated!Draft, Curated!Counting
  <2> QED BY <2>1, <2>2, <2>3
<1> QED BY <1>2, <1>3, <1>5, AtOnce

(* A title is deleted with its rows. *)
LEMMA TitleDeleted ==
  ASSUME NEW name \in CuratedNames, Curated(name)!CurationConstants,
         Curated(name)!IInv, NEW x \in CuratedTitles[name], Curated(name)!DeleteTitle(x)
  PROVE  Curated(name)!IInv'
<1>t. Curated(name)!TypeOK BY DEF Curated!IInv
<1>0. PICK A : s6 \in [CuratedRequests[name] -> Curated(name)!ReqType(A)]
  BY <1>t DEF Curated!TypeOK
<1>1. PICK ops, ls, dropped :
       ops = {"order"} /\ ls = {l \in CuratedLists[name] : x \in Curated(name)!On(l)}
         /\ dropped = CuratedLists[name] \X {x}
  OBVIOUS
<1>2. PICK z : z = [r \in CuratedRequests[name] |->
                      IF s6[r].x = x THEN [s6[r] EXCEPT !.clean = FALSE]
                                       ELSE Curated(name)!Overtaken(ops, ls, dropped)[r]]
  OBVIOUS
<1>3. /\ s6' = z /\ UNCHANGED <<s1, s3, s7>>
      /\ s5' = [s5 EXCEPT ![x] = "gone"]
      /\ s4' = [l \in CuratedLists[name] |-> [s4[l] EXCEPT ![x] = None]]
  BY <1>1, <1>2 DEF Curated!DeleteTitle
<1>4. /\ s4' \in [CuratedLists[name] -> [CuratedTitles[name] -> Nat \cup {None}]]
      /\ s5' \in [CuratedTitles[name] -> {"published", "draft", "gone"}]
      /\ \A k \in CuratedTitles[name] : k # x => s5'[k] = s5[k]
  BY <1>t, <1>3 DEF Curated!TypeOK
<1>5. ASSUME NEW l \in CuratedLists[name]
      PROVE  Curated(name)!On(l)' = Curated(name)!On(l) \ {x}
               /\ (x \notin Curated(name)!On(l) => s4'[l] = s4[l])
  BY <1>t, <1>3 DEF Curated!On, Curated!TypeOK
<1>6. ASSUME NEW r \in CuratedRequests[name]
      PROVE  z[r] \in Curated(name)!ReqType(A) /\ z[r].op = s6[r].op /\ z[r].l = s6[r].l
               /\ Curated(name)!Draft(z[r])'
  <2>1. PICK y : y = z[r] OBVIOUS
  <2>2. CASE s6[r].x = x
    <3>1. y = [s6[r] EXCEPT !.clean = FALSE] BY <1>2, <2>1, <2>2
    <3>2. /\ y \in Curated(name)!ReqType(A) /\ y.op = s6[r].op /\ y.l = s6[r].l
               /\ y.x = s6[r].x
          /\ y.n = s6[r].n /\ y.clean = FALSE
      BY <1>0, <3>1 DEF Curated!ReqType
    <3>3. Curated(name)!Draft(s6[r]) /\ x # None
      BY DEF Curated!IInv, Curated!CurationConstants
    <3>4. y.op \notin {"limit", "section", "order"} BY <2>2, <3>2, <3>3 DEF Curated!Draft
    <3>5. Curated(name)!Draft(y)' BY <2>2, <3>2, <3>3, <3>4 DEF Curated!Draft
    <3> QED BY <2>1, <3>2, <3>5
  <2>3. CASE s6[r].x # x
    <3>1. y = Curated(name)!Overtaken(ops, ls, dropped)[r] BY <1>2, <2>1, <2>3
    <3>0. /\ y \in Curated(name)!ReqType(A) /\ SameTask(y, s6[r])
          /\ Curated(name)!Draft(y) /\ Spoilt(y, ops, ls, dropped)
      BY <1>0, <3>1, IsOvertaken
    <3>2. y.op = s6[r].op /\ y.l = s6[r].l /\ y.x = s6[r].x BY <3>0 DEF SameTask
    <3>3. Curated(name)!Draft(y)'
      <4>1. CASE y.l \in CuratedLists[name] /\ x \in Curated(name)!On(y.l)
        <5>1. y.op = "order" => ~y.clean /\ (~y.lost => x \notin y.writes)
          BY <1>1, <3>0, <3>2, <4>1 DEF Spoilt
        <5>2. y.op = "order" /\ ~y.lost => y.writes \subseteq Curated(name)!On(y.l)
          BY <3>0, <3>2 DEF Curated!Draft
        <5>3. y.op = "add" => s5'[y.x] = s5[y.x] BY <1>4, <2>3, <3>0, <3>2 DEF Curated!Draft
        <5> QED BY <1>t, <1>3, <1>5, <3>0, <3>2, <4>1, <5>1, <5>2, <5>3, ListShrinks
      <4>2. CASE y.l \in CuratedLists[name] /\ x \notin Curated(name)!On(y.l)
        <5>1. y.op = "add" => s5'[y.x] = s5[y.x] BY <1>4, <2>3, <3>0, <3>2 DEF Curated!Draft
        <5> QED BY <1>3, <1>5, <3>0, <3>2, <4>2, <5>1, ListAsItWas DEF Curated!Twins
      <4>3. CASE y.l \notin CuratedLists[name]
        BY <3>0, <3>2, <4>3 DEF Curated!Draft, Curated!Sections
      <4> QED BY <4>1, <4>2, <4>3
    <3> QED BY <2>1, <3>0, <3>2, <3>3
  <2> QED BY <2>2, <2>3
<1>7. PICK S : S = {} OBVIOUS
<1>8. s6' = [o \in CuratedRequests[name] |-> IF o \in S THEN Curated(name)!Idle ELSE z[o]]
  BY <1>2, <1>3, <1>7
<1>9. /\ s1' \in [CuratedLists[name] -> BOOLEAN]
           /\ s3' \in [CuratedLists[name] -> Nat \cup {None}]
           /\ s7' \in [CuratedLists[name] -> CuratedGenres[name] \cup {None}]
      /\ S \in SUBSET CuratedRequests[name]
  BY <1>t, <1>3, <1>7 DEF Curated!TypeOK
<1> QED BY <1>0, <1>4, <1>6, <1>8, <1>9, OthersKept

(* Changes no request looks at again. *)
LEMMA TitlesShown ==
  ASSUME NEW name \in CuratedNames, Curated(name)!CurationConstants,
         Curated(name)!IInv, UNCHANGED <<s1, s3, s4, s6, s7>>,
         s5' \in [CuratedTitles[name] -> {"published", "draft", "gone"}],
         \A x \in CuratedTitles[name] : s5'[x] = "gone" => s5[x] = "gone"
  PROVE  Curated(name)!IInv'
<1>1. ASSUME NEW y, Curated(name)!Draft(y) PROVE Curated(name)!Draft(y)'
  BY <1>1 DEF Curated!Draft, Curated!Room, Curated!CapOf, Curated!On, Curated!Twins,
     Curated!Wanted
<1>2. ASSUME NEW o \in CuratedRequests[name] PROVE Curated(name)!Draft(s6[o])'
  <2>1. PICK y : y = s6[o] OBVIOUS
  <2>2. Curated(name)!Draft(y)' BY <1>1, <2>1 DEF Curated!IInv
  <2> QED BY <2>1, <2>2
<1>3. Curated(name)!TypeOK' BY DEF Curated!IInv, Curated!TypeOK
<1>4. \A o \in CuratedRequests[name] : Curated(name)!Alone(o)'
  BY DEF Curated!IInv, Curated!Alone
<1> QED BY <1>2, <1>3, <1>4 DEF Curated!IInv

(* The rail of a genre is renamed. *)
LEMMA Renamed ==
  ASSUME NEW name \in CuratedNames,
         Curated(name)!CurationConstants, Curated(name)!IInv, NEW l \in CuratedLists[name],
         NEW g \in CuratedGenres[name], Curated(name)!Rename(l, g)
  PROVE  Curated(name)!IInv'
<1>t. Curated(name)!TypeOK BY DEF Curated!IInv
<1>1. PICK ops, ls, dropped :
        ops = {"section"} /\ ls = Curated(name)!Rivals(l, g) /\ dropped = {} OBVIOUS
<1>2. /\ s7' = [s7 EXCEPT ![l] = g] /\ UNCHANGED <<s1, s3, s4, s5>>
      /\ s6' = Curated(name)!Overtaken(ops, ls, dropped) /\ CuratedTypes[l] = "genre"
  BY <1>1 DEF Curated!Rename
<1>3. /\ s7' \in [CuratedLists[name] -> CuratedGenres[name] \cup {None}]
      /\ \A k \in CuratedLists[name] : k # l => s7'[k] = s7[k]
      /\ s7'[l] = g
  BY <1>t, <1>2 DEF Curated!TypeOK
<1>4. ASSUME NEW o \in CuratedRequests[name], NEW y,
             y.op = s6[o].op, y.l = s6[o].l, y.g = s6[o].g,
             Curated(name)!Draft(y), Spoilt(y, ops, ls, dropped)
      PROVE  Curated(name)!Draft(y)'
  <2>1. y.op = "section" => \/ ~y.clean
          \/ Curated(name)!Twins(y.l, y.g)' \subseteq Curated(name)!Twins(y.l, y.g)
    <3> SUFFICES ASSUME y.op = "section", y.clean
                 PROVE  Curated(name)!Twins(y.l, y.g)' \subseteq Curated(name)!Twins(y.l, y.g)
      OBVIOUS
    <3>1. CuratedTypes[y.l] # "genre" \/ y.g # g
      <4> SUFFICES ASSUME CuratedTypes[y.l] = "genre", y.g = g PROVE FALSE OBVIOUS
      <4>1. y.l \in ls BY <1>1, <1>2, <1>4 DEF Curated!Rivals
      <4> QED BY <1>1, <1>4, <4>1 DEF Spoilt
    <3> QED BY <1>2, <1>3, <3>1 DEF Curated!Twins, Curated!Sections
  <2> QED BY <1>2, <1>4, <2>1, ListAsItWas
<1>5. /\ s1' \in [CuratedLists[name] -> BOOLEAN]
      /\ s4' \in [CuratedLists[name] -> [CuratedTitles[name] -> Nat \cup {None}]]
  BY <1>t, <1>2 DEF Curated!TypeOK
<1>6. s3' = s3 /\ s5' = s5 BY <1>2
<1> QED BY <1>2, <1>3, <1>4, <1>5, <1>6, AtOnce

LEMMA CuratedNext ==
  ASSUME NEW name \in CuratedNames, Curated(name)!CurationConstants,
         Curated(name)!IInv, [Curated(name)!Next]_(Curated(name)!vars)
  PROVE  Curated(name)!IInv'
<1>t. s5 \in [CuratedTitles[name] -> {"published", "draft", "gone"}]
  BY DEF Curated!IInv, Curated!TypeOK
<1>1. CASE UNCHANGED Curated(name)!vars BY <1>t, <1>1, TitlesShown DEF Curated!vars
<1>2. CASE \E l \in CuratedLists[name] : Curated(name)!Show(l)
  BY <1>t, <1>2, TitlesShown DEF Curated!Show
<1>3. CASE \E x \in CuratedTitles[name] : Curated(name)!Publish(x)
  BY <1>t, <1>3, TitlesShown DEF Curated!Publish
<1>4. CASE \E r \in CuratedRequests[name] : Curated(name)!CommitAdd(r)
             \/ Curated(name)!CommitLimit(r) \/ Curated(name)!CommitOrder(r)
  BY <1>4, Added, LimitSet, Ordered
<1>5. CASE \E r \in CuratedRequests[name], shown \in BOOLEAN :
             Curated(name)!CommitSection(r, shown)
  BY <1>5, SectionMade
<1>6. CASE \E r \in CuratedRequests[name], l \in CuratedLists[name],
             x \in CuratedTitles[name], n \in Curated(name)!Orders :
               Curated(name)!CheckAdd(r, l, x, n)
  BY <1>6, AddAsked
<1>7. CASE \E r \in CuratedRequests[name], l \in CuratedLists[name],
             n \in CuratedLimits[name] \cup {None}, g \in CuratedGenres[name] \cup {None} :
               Curated(name)!CheckLimit(r, l, n, g)
  BY <1>7, LimitAsked
<1>8. CASE \E r \in CuratedRequests[name], l \in CuratedLists[name],
             g \in CuratedGenres[name] \cup {None} : Curated(name)!CheckSection(r, l, g)
  BY <1>8, SectionAsked
<1>9. CASE \E r \in CuratedRequests[name], l \in CuratedLists[name] :
             \E S \in Curated(name)!Named(l) : \E pos \in Curated(name)!Positions(S) :
               Curated(name)!CheckOrder(r, l, pos)
  BY <1>9, OrderAsked
<1>10. CASE \E l \in CuratedLists[name] : Curated(name)!DeleteSection(l)
  BY <1>10, SectionDeleted
<1>11. CASE \E x \in CuratedTitles[name] : Curated(name)!DeleteTitle(x)
  BY <1>11, TitleDeleted
<1>12. CASE \E l \in CuratedLists[name], x \in CuratedTitles[name] :
              Curated(name)!Remove(l, x) \/ \E n \in Curated(name)!Orders :
                Curated(name)!Move(l, x, n)
  BY <1>12, Removed, Moved
<1>13. CASE \E l \in CuratedLists[name], g \in CuratedGenres[name] :
              Curated(name)!Rename(l, g)
  BY <1>13, Renamed
<1> QED
  BY <1>1, <1>2, <1>3, <1>4, <1>5, <1>6, <1>7, <1>8, <1>9, <1>10, <1>11, <1>12, <1>13
     DEF Curated!Next

(* A commit leaves what its request checked. *)
LEMMA CuratedKept ==
  ASSUME NEW name \in CuratedNames, Curated(name)!CurationConstants,
         Curated(name)!IInv, [Curated(name)!Next]_(Curated(name)!vars)
  PROVE  Curated(name)!Kept
<1> SUFFICES ASSUME NEW r \in CuratedRequests[name], NEW q, q = s6[r], q.op # "idle",
                    q.clean, s6'[r].op = "idle"
             PROVE  Curated(name)!Promise(q)'
  BY DEF Curated!Kept
<1>t. Curated(name)!TypeOK /\ Curated(name)!Draft(q) BY DEF Curated!IInv
<1>0. PICK A : s6 \in [CuratedRequests[name] -> Curated(name)!ReqType(A)]
  BY <1>t DEF Curated!TypeOK
<1>1. \A ops, ls, dropped : Curated(name)!Overtaken(ops, ls, dropped)[r].op # "idle"
  <2> SUFFICES ASSUME NEW ops, NEW ls, NEW dropped, NEW z, NEW y,
                      z = Curated(name)!Overtaken(ops, ls, dropped), y = z[r]
               PROVE  y.op # "idle"
    OBVIOUS
  <2>1. SameTask(y, q) BY <1>0, IsOvertaken
  <2> QED BY <2>1 DEF SameTask
<1>2. \A o \in CuratedRequests[name] \ {r} : \A ops, ls :
        Curated(name)!After(o, ops, ls)[r] = Curated(name)!Overtaken(ops, ls, {})[r]
  BY DEF Curated!After, Curated!Overtaken
<1>3. \/ Curated(name)!CommitAdd(r) \/ Curated(name)!CommitLimit(r)
           \/ Curated(name)!CommitOrder(r) \/ \E shown \in BOOLEAN :
                Curated(name)!CommitSection(r, shown)
  <2>1. ASSUME s6' = s6 PROVE FALSE BY <2>1
  <2>2. ASSUME NEW ops, NEW ls, NEW dropped, s6' = Curated(name)!Overtaken(ops, ls, dropped)
        PROVE  FALSE
    BY <1>1, <2>2
  <2>3. ASSUME NEW o \in CuratedRequests[name] \ {r},
               NEW ops, NEW ls, s6' = Curated(name)!After(o, ops, ls)
        PROVE  FALSE
    BY <1>1, <1>2, <2>3
  <2>4. ASSUME NEW o \in CuratedRequests[name] \ {r}, NEW x, s6' = [s6 EXCEPT ![o] = x]
        PROVE  FALSE
    BY <1>0, <2>4
  <2>5. ASSUME NEW o \in CuratedRequests[name] \ {r},
               \/ Curated(name)!CommitAdd(o) \/ Curated(name)!CommitLimit(o)
                    \/ Curated(name)!CommitOrder(o) \/ \E shown \in BOOLEAN :
                         Curated(name)!CommitSection(o, shown)
        PROVE  FALSE
    BY <2>3, <2>4, <2>5 DEF Curated!CommitAdd, Curated!CommitLimit, Curated!CommitOrder,
       Curated!CommitSection
  <2>6. ASSUME NEW o \in CuratedRequests[name], NEW l \in CuratedLists[name],
               \/ \E x \in CuratedTitles[name], n \in Curated(name)!Orders :
                    Curated(name)!CheckAdd(o, l, x, n)
               \/ \E n \in CuratedLimits[name] \cup {None},
                    g \in CuratedGenres[name] \cup {None} :
                      Curated(name)!CheckLimit(o, l, n, g)
               \/ \E g \in CuratedGenres[name] \cup {None} :
                    Curated(name)!CheckSection(o, l, g)
               \/ \E S \in Curated(name)!Named(l) : \E pos \in Curated(name)!Positions(S) :
                    Curated(name)!CheckOrder(o, l, pos)
        PROVE  FALSE
    <3>0. s6[o] = Curated(name)!Idle
      BY <2>6 DEF Curated!CheckAdd, Curated!CheckLimit, Curated!CheckSection,
         Curated!CheckOrder, Curated!Unused
    <3>1. o \in CuratedRequests[name] \ {r} BY <3>0 DEF Curated!Idle
    <3>2. ASSUME NEW z, s6' = [s6 EXCEPT ![o] = z] PROVE FALSE BY <2>4, <3>1, <3>2
    <3>3. ASSUME NEW x \in CuratedTitles[name], NEW n \in Curated(name)!Orders,
                 Curated(name)!CheckAdd(o, l, x, n)
          PROVE  FALSE
      BY <3>2, <3>3 DEF Curated!CheckAdd
    <3>4. ASSUME NEW n \in CuratedLimits[name] \cup {None},
                 NEW g \in CuratedGenres[name] \cup {None}, Curated(name)!CheckLimit(o, l, n, g)
          PROVE  FALSE
      BY <3>2, <3>4, Zenon DEF Curated!CheckLimit
    <3>5. ASSUME NEW g \in CuratedGenres[name] \cup {None}, Curated(name)!CheckSection(o, l, g)
          PROVE  FALSE
      BY <3>2, <3>5 DEF Curated!CheckSection
    <3>6. ASSUME NEW S, NEW pos, Curated(name)!CheckOrder(o, l, pos) PROVE FALSE
      BY <3>2, <3>6 DEF Curated!CheckOrder
    <3> QED BY <2>6, <3>3, <3>4, <3>5, <3>6
  <2>7. ASSUME NEW l \in CuratedLists[name],
               \/ Curated(name)!Show(l) \/ Curated(name)!DeleteSection(l)
               \/ \E g \in CuratedGenres[name] : Curated(name)!Rename(l, g)
               \/ \E x \in CuratedTitles[name] :
                    Curated(name)!Remove(l, x) \/ \E n \in Curated(name)!Orders :
                      Curated(name)!Move(l, x, n)
        PROVE  FALSE
    <3>1. CASE Curated(name)!Show(l) BY <2>1, <3>1 DEF Curated!Show
    <3>2. CASE Curated(name)!DeleteSection(l) BY <2>2, <3>2, Zenon DEF Curated!DeleteSection
    <3>3. ASSUME NEW x \in CuratedTitles[name], Curated(name)!Remove(l, x) PROVE FALSE
      BY <2>2, <3>3, Zenon DEF Curated!Remove
    <3>4. ASSUME NEW x \in CuratedTitles[name], NEW n \in Curated(name)!Orders,
                 Curated(name)!Move(l, x, n)
          PROVE  FALSE
      BY <2>2, <3>4, Zenon DEF Curated!Move
    <3>5. ASSUME NEW g \in CuratedGenres[name], Curated(name)!Rename(l, g) PROVE FALSE
      BY <2>2, <3>5, Zenon DEF Curated!Rename
    <3> QED BY <2>7, <3>1, <3>2, <3>3, <3>4, <3>5
  <2>8. ASSUME NEW x \in CuratedTitles[name],
               Curated(name)!Publish(x) \/ Curated(name)!DeleteTitle(x)
        PROVE  FALSE
    <3>1. Curated(name)!DeleteTitle(x) BY <2>1, <2>8 DEF Curated!Publish
    <3>2. PICK ops, ls, dropped : ops = {"order"}
                                    /\ ls = {l \in CuratedLists[name] :
                                               x \in Curated(name)!On(l)} /\ dropped
                                                 = CuratedLists[name] \X {x}
      OBVIOUS
    <3>3. s6'[r] = IF s6[r].x = x THEN [s6[r] EXCEPT !.clean = FALSE]
            ELSE Curated(name)!Overtaken(ops, ls, dropped)[r]
      BY <3>1, <3>2 DEF Curated!DeleteTitle
    <3>4. CASE s6[r].x = x BY <1>0, <3>3, <3>4 DEF Curated!ReqType
    <3>5. CASE s6[r].x # x
      <4>1. s6'[r] = Curated(name)!Overtaken(ops, ls, dropped)[r] BY <3>3, <3>5
      <4> QED BY <1>1, <4>1
    <3> QED BY <3>4, <3>5
  <2> QED BY <2>1, <2>5, <2>6, <2>7, <2>8 DEF Curated!Next, Curated!vars
<1>4. CASE Curated(name)!CommitAdd(r)
  <2>1. q.op = "add" /\ q.l \in CuratedLists[name] /\ q.x \in CuratedTitles[name]
          /\ q.n \in Nat /\ Curated(name)!Room(q.l) /\ s5[q.x] # "gone"
    BY <1>t, <1>4 DEF Curated!CommitAdd, Curated!Draft
  <2>2. Curated(name)!CapOf(q.l)' = Curated(name)!CapOf(q.l)
          /\ Curated(name)!CapOf(q.l) \in Nat \cup {None}
               /\ Curated(name)!On(q.l) \in SUBSET CuratedTitles[name]
    BY <1>t, <1>4, <2>1 DEF Curated!CommitAdd, Curated!CapOf, Curated!TypeOK,
       Curated!CurationConstants, Curated!On
  <2>3. Curated(name)!On(q.l)' \in {Curated(name)!On(q.l), Curated(name)!On(q.l) \cup {q.x}}
    BY <1>t, <1>4, <2>1 DEF Curated!CommitAdd, Curated!TypeOK, Curated!On,
       Curated!CurationConstants
  <2>4. PICK S, T : S = Curated(name)!On(q.l) /\ T = Curated(name)!On(q.l)' OBVIOUS
  <2>5. Curated(name)!Cardinality(S) \in Nat /\ Curated(name)!Cardinality(T) \in Nat
          /\ Curated(name)!Cardinality(T) <= Curated(name)!Cardinality(S) + 1
    <3>1. S \in SUBSET CuratedTitles[name] /\ q.x \in CuratedTitles[name]
            /\ T \in {S, S \cup {q.x}}
      BY <2>1, <2>2, <2>3, <2>4
    <3>2. Curated(name)!Cardinality(S) \in Nat
            /\ Curated(name)!Cardinality(S \cup {q.x}) \in Nat
            /\ Curated(name)!Cardinality(S \cup {q.x}) <= Curated(name)!Cardinality(S) + 1
      BY <3>1, ListCounts
    <3>3. PICK a \in Nat, b \in Nat :
            a = Curated(name)!Cardinality(S) /\ b = Curated(name)!Cardinality(S \cup {q.x})
      BY <3>2
    <3>4. a <= a + 1 /\ b <= a + 1 BY <3>2, <3>3
    <3>5. CASE T = S BY <3>3, <3>4, <3>5
    <3>6. CASE T = S \cup {q.x} BY <3>3, <3>4, <3>6
    <3> QED BY <3>1, <3>5, <3>6
  <2>6. Curated(name)!Within(q.l)'
    BY <2>1, <2>2, <2>4, <2>5 DEF Curated!Room, Curated!Within
  <2> QED BY <1>4, <2>1, <2>6 DEF Curated!Promise, Curated!CommitAdd
<1>5. CASE Curated(name)!CommitLimit(r)
  <2>1. q.op = "limit" /\ q.l \in Curated(name)!Sections /\ q.l \in CuratedLists[name]
          /\ s1[q.l]
               /\ Curated(name)!Cardinality(Curated(name)!On(q.l)) <= Curated(name)!Wanted(q)
          /\ s3[q.l] = q.was
    BY <1>t, <1>5 DEF Curated!CommitLimit, Curated!Draft, Curated!Sections
  <2>2. s3'[q.l] = q.n /\ Curated(name)!On(q.l)' = Curated(name)!On(q.l)
    BY <1>t, <1>5, <2>1 DEF Curated!CommitLimit, Curated!TypeOK, Curated!On
  <2>3. Curated(name)!CapOf(q.l)' = Curated(name)!Wanted(q)
    BY <2>2 DEF Curated!CapOf, Curated!Wanted
  <2> QED BY <2>1, <2>2, <2>3 DEF Curated!Promise, Curated!Within
<1>6. CASE Curated(name)!CommitOrder(r)
  <2>1. /\ q.op = "order" /\ q.l \in CuratedLists[name] /\ q.writes \subseteq DOMAIN q.pos
             /\ q.writes \subseteq Curated(name)!On(q.l)
        /\ \A x \in q.writes : q.pos[x] \in Nat
        /\ q.l \in Curated(name)!Sections => Curated(name)!On(q.l) = DOMAIN q.pos
        /\ \A x \in DOMAIN q.pos \ q.writes : x \in CuratedTitles[name]
             /\ s4[q.l][x] = q.pos[x]
        /\ ~q.lost
    BY <1>t, <1>6 DEF Curated!CommitOrder, Curated!Draft
  <2>2. s4' = [s4 EXCEPT ![q.l] = [x \in CuratedTitles[name] |->
                                     IF x \in q.writes THEN q.pos[x] ELSE @[x]]]
    BY <1>6, <2>1 DEF Curated!CommitOrder
  <2>3. \A x \in CuratedTitles[name] : s4'[q.l][x] = IF x \in q.writes THEN q.pos[x]
          ELSE s4[q.l][x]
    BY <1>t, <2>1, <2>2 DEF Curated!TypeOK
  <2>4. Curated(name)!On(q.l)' = Curated(name)!On(q.l)
    BY <2>1, <2>3 DEF Curated!On, Curated!CurationConstants
  <2>5. \A x \in DOMAIN q.pos : s4'[q.l][x] = q.pos[x] BY <2>1, <2>3 DEF Curated!On
  <2> QED BY <2>1, <2>4, <2>5 DEF Curated!Promise
<1>7. ASSUME NEW shown \in BOOLEAN, Curated(name)!CommitSection(r, shown)
      PROVE  Curated(name)!Promise(q)'
  <2>1. q.op = "section" /\ q.l \in Curated(name)!Sections /\ q.l \in CuratedLists[name]
          /\ Curated(name)!Twins(q.l, q.g) = {}
    BY <1>t, <1>7 DEF Curated!CommitSection, Curated!Draft, Curated!Sections
  <2>2. \A k \in CuratedLists[name] \ {q.l} : s1'[k] = s1[k] /\ s7'[k] = s7[k]
    BY <1>t, <1>7 DEF Curated!CommitSection, Curated!TypeOK
  <2>3. Curated(name)!Twins(q.l, q.g)' = {}
    BY <2>1, <2>2 DEF Curated!Twins, Curated!Sections
  <2> QED BY <2>1, <2>3 DEF Curated!Promise
<1> QED BY <1>3, <1>4, <1>5, <1>6, <1>7

(* What the rail shows is picked, or fills in from what is picked. *)
LEMMA CuratedFree ==
  ASSUME NEW name \in CuratedNames, Curated(name)!CurationConstants
  PROVE  Curated(name)!RailIsFree
<1>1. \A l, S, n : \A T \in Curated(name)!First(l, S, n) : T \subseteq S
  BY DEF Curated!First
<1>2. \A S : Curated(name)!Live(S) \subseteq S BY DEF Curated!Live
<1>3. ASSUME NEW k \in Curated(name)!Free, s1[k], s2[k]
      PROVE  Curated(name)!On(k) \subseteq Curated(name)!FreeToday
  BY <1>3 DEF Curated!FreeToday
<1>4. \A t \in Curated(name)!Tables : Curated(name)!On(t) \subseteq Curated(name)!FreeToday
  BY DEF Curated!FreeToday
<1>5. ASSUME NEW k \in Curated(name)!Free, s1[k], s2[k], NEW T \in Curated(name)!Fill(k)
      PROVE  T \subseteq Curated(name)!FreeToday
  BY <1>1, <1>2, <1>3, <1>4, <1>5 DEF Curated!Fill
<1> QED BY <1>1, <1>2, <1>3, <1>5 DEF Curated!RailIsFree, Curated!FreeRail

-----------------------------------------------------------------------------
(* Alerts. Here s1 to s15 are now, bad, streak, active, last, queue, post, *)
(* seen, sent, dropped, told, missed, arrived, counted and lost.           *)

(* How many pairs a value makes with the numbers up to n. *)
LEMMA Column ==
  ASSUME NEW x, NEW n \in Nat
  PROVE  IsFiniteSet({x} \X (1 .. n)) /\ Cardinality({x} \X (1 .. n)) = n
<1>1. IsFiniteSet({x}) /\ Cardinality({x}) = 1 BY FS_Singleton
<1>2. IsFiniteSet(1 .. n) /\ Cardinality(1 .. n) = n
  <2>1. 1 \in Int /\ n \in Int OBVIOUS
  <2>2. IsFiniteSet(1 .. n) /\ Cardinality(1 .. n) = IF 1 > n THEN 0 ELSE n - 1 + 1
    BY <2>1, FS_Interval
  <2> QED BY <2>2
<1>3. PICK S, T : S = {x} /\ T = 1 .. n OBVIOUS
<1>4. IsFiniteSet(S \X T) /\ Cardinality(S \X T) = Cardinality(S) * Cardinality(T)
  BY <1>1, <1>2, <1>3, FS_Product
<1>5. Cardinality(S) * Cardinality(T) = n BY <1>1, <1>2, <1>3
<1> QED BY <1>3, <1>4, <1>5

(* The part counts as the composition does. *)
LEMMA TotalIs ==
  ASSUME NEW h
  PROVE  Alarm!Total(h) = Cardinality(Alarm!Pieces(h))
  BY DEF Alarm!Total, Alarm!Cardinality, Cardinality

LEMMA AlarmFinite ==
  ASSUME NEW S
  PROVE  Alarm!IsFiniteSet(S) <=> IsFiniteSet(S)
  BY DEF Alarm!IsFiniteSet, IsFiniteSet

(* The total of a function: it is a number, *)
LEMMA PiecesFinite ==
  ASSUME NEW T, IsFiniteSet(T), NEW h \in [T -> Nat]
  PROVE  IsFiniteSet(Alarm!Pieces(h)) /\ Alarm!Total(h) \in Nat
<1>1. PICK F : F = [x \in T |-> {x} \X (1 .. h[x])] OBVIOUS
<1>2. PICK C : C = {F[x] : x \in T} OBVIOUS
<1>3. F \in Surjection(T, C) BY <1>1, <1>2 DEF Surjection
<1>4. IsFiniteSet(C) BY <1>3, FS_Surjection
<1>5. \A S \in C : IsFiniteSet(S)
  <2> SUFFICES ASSUME NEW x \in T PROVE IsFiniteSet(F[x]) BY <1>2
  <2>1. h[x] \in Nat OBVIOUS
  <2> QED BY <1>1, <2>1, Column
<1>6. Alarm!Pieces(h) = UNION C BY <1>1, <1>2 DEF Alarm!Pieces
<1>7. IsFiniteSet(Alarm!Pieces(h)) BY <1>4, <1>5, <1>6, FS_UNION
<1> QED BY <1>7, FS_CardinalityType, TotalIs

(* it is 0 when every value is, *)
LEMMA TotalZero ==
  ASSUME NEW T, NEW h \in [T -> Nat], \A x \in T : h[x] = 0
  PROVE  Alarm!Total(h) = 0
<1>1. 1 .. 0 = {} OBVIOUS
<1>2. Alarm!Pieces(h) = {} BY <1>1 DEF Alarm!Pieces
<1> QED BY <1>2, FS_EmptySet, TotalIs

(* and it changes by what one value changes. *)
LEMMA TotalChanges ==
  ASSUME NEW T, IsFiniteSet(T), NEW h \in [T -> Nat], NEW g \in [T -> Nat], NEW x \in T,
         \A y \in T \ {x} : g[y] = h[y]
  PROVE  Alarm!Total(h) \in Nat /\ Alarm!Total(g) \in Nat
           /\ Alarm!Total(g) + h[x] = Alarm!Total(h) + g[x]
<1>1. PICK R : R = UNION {{y} \X (1 .. h[y]) : y \in T \ {x}} OBVIOUS
<1>2. h[x] \in Nat /\ g[x] \in Nat OBVIOUS
<1>3. PICK A, B : A = {x} \X (1 .. h[x]) /\ B = {x} \X (1 .. g[x]) OBVIOUS
<1>4. /\ IsFiniteSet(A) /\ Cardinality(A) = h[x] /\ IsFiniteSet(B) /\ Cardinality(B) = g[x]
  BY <1>2, <1>3, Column
<1>5. Alarm!Pieces(h) = R \cup A BY <1>1, <1>3 DEF Alarm!Pieces
<1>6. Alarm!Pieces(g) = R \cup B
  <2>1. R = UNION {{y} \X (1 .. g[y]) : y \in T \ {x}} BY <1>1
  <2> QED BY <1>3, <2>1 DEF Alarm!Pieces
<1>7. IsFiniteSet(Alarm!Pieces(h)) /\ Alarm!Total(h) \in Nat /\ Alarm!Total(g) \in Nat
  BY PiecesFinite
<1>8. IsFiniteSet(R)
  <2>1. R \in SUBSET Alarm!Pieces(h) BY <1>5
  <2> QED BY <1>7, <2>1, FS_Subset
<1>9. R \cap A = {} /\ R \cap B = {} BY <1>1, <1>3
<1>10. Cardinality(R) \in Nat BY <1>8, FS_CardinalityType
<1>11. Cardinality(R \cup A) = Cardinality(R) + Cardinality(A)
  <2>1. Cardinality(R \cup A) = Cardinality(R) + Cardinality(A) - Cardinality(R \cap A)
    BY <1>4, <1>8, FS_Union
  <2>2. Cardinality(R \cap A) = 0 BY <1>9, FS_EmptySet
  <2> QED BY <1>2, <1>4, <1>10, <2>1, <2>2
<1>12. Cardinality(R \cup B) = Cardinality(R) + Cardinality(B)
  <2>1. Cardinality(R \cup B) = Cardinality(R) + Cardinality(B) - Cardinality(R \cap B)
    BY <1>4, <1>8, FS_Union
  <2>2. Cardinality(R \cap B) = 0 BY <1>9, FS_EmptySet
  <2> QED BY <1>2, <1>4, <1>10, <2>1, <2>2
<1>13. Alarm!Total(h) = Cardinality(R \cup A) BY <1>5, TotalIs
<1>14. Alarm!Total(g) = Cardinality(R \cup B) BY <1>6, TotalIs
<1> QED BY <1>2, <1>4, <1>7, <1>10, <1>11, <1>12, <1>13, <1>14

-----------------------------------------------------------------------------
(* What the relay holds, and what is on its way, when one of them changes. *)
LEMMA SourcesFinite ==
  ASSUME Alarm!AlertsConstants
  PROVE  IsFiniteSet(Alarm!Sources) /\ IsFiniteSet(AlarmConditions \cup AlarmErrors)
<1>1. IsFiniteSet({"api"}) BY FS_Singleton
<1>2. IsFiniteSet(AlarmConditions) /\ IsFiniteSet(AlarmErrors)
  BY AlarmFinite DEF Alarm!AlertsConstants
<1> QED BY <1>1, <1>2, FS_Union DEF Alarm!Sources

LEMMA HeldChanges ==
  ASSUME Alarm!AlertsConstants, s8 \in [AlarmConditions \cup AlarmErrors -> Alarm!SeenType],
         NEW f \in AlarmConditions \cup AlarmErrors, NEW x \in Alarm!SeenType,
         s8' = [s8 EXCEPT ![f] = x]
  PROVE  Alarm!Held \in Nat /\ Alarm!Held' \in Nat
           /\ Alarm!Held' + s8[f].held = Alarm!Held + x.held
<1>1. PICK h : h = [k \in DOMAIN s8 |-> s8[k].held] OBVIOUS
<1>2. PICK g : g = [k \in DOMAIN s8' |-> s8'[k].held] OBVIOUS
<1>3. /\ h \in [AlarmConditions \cup AlarmErrors -> Nat]
           /\ g \in [AlarmConditions \cup AlarmErrors -> Nat]
      /\ h[f] = s8[f].held /\ g[f] = x.held
      /\ \A k \in (AlarmConditions \cup AlarmErrors) \ {f} : g[k] = h[k]
  BY <1>1, <1>2 DEF Alarm!SeenType
<1>4. Alarm!Total(h) \in Nat /\ Alarm!Total(g) \in Nat
        /\ Alarm!Total(g) + h[f] = Alarm!Total(h) + g[f]
  BY <1>3, SourcesFinite, TotalChanges
<1>5. Alarm!Held = Alarm!Total(h) BY <1>1 DEF Alarm!Held
<1>6. Alarm!Held' = Alarm!Total(g) BY <1>2 DEF Alarm!Held
<1> QED BY <1>3, <1>4, <1>5, <1>6

LEMMA FlyingChanges ==
  ASSUME Alarm!AlertsConstants, s7 \in [Alarm!Sources -> Alarm!PostType],
         NEW src \in Alarm!Sources, NEW x \in Alarm!PostType, s7' = [s7 EXCEPT ![src] = x]
  PROVE  Alarm!Flying \in Nat /\ Alarm!Flying' \in Nat
           /\ Alarm!Flying' + s7[src].count = Alarm!Flying + x.count
<1>1. PICK h : h = [k \in Alarm!Sources |-> s7[k].count] OBVIOUS
<1>2. PICK g : g = [k \in Alarm!Sources |-> s7'[k].count] OBVIOUS
<1>3. /\ h \in [Alarm!Sources -> Nat] /\ g \in [Alarm!Sources -> Nat]
      /\ h[src] = s7[src].count /\ g[src] = x.count
      /\ \A k \in Alarm!Sources \ {src} : g[k] = h[k]
  BY <1>1, <1>2 DEF Alarm!PostType
<1>4. Alarm!Total(h) \in Nat /\ Alarm!Total(g) \in Nat
        /\ Alarm!Total(g) + h[src] = Alarm!Total(h) + g[src]
  <2>1. PICK T : T = Alarm!Sources OBVIOUS
  <2>2. IsFiniteSet(T) BY <2>1, SourcesFinite
  <2>3. /\ h \in [T -> Nat] /\ g \in [T -> Nat] /\ src \in T
        /\ \A k \in T \ {src} : g[k] = h[k]
    BY <1>3, <2>1
  <2> QED BY ONLY <2>2, <2>3, TotalChanges
<1>5. Alarm!Flying = Alarm!Total(h) BY <1>1 DEF Alarm!Flying
<1>6. Alarm!Flying' = Alarm!Total(g) BY <1>2 DEF Alarm!Flying
<1> QED BY <1>3, <1>4, <1>5, <1>6

LEMMA HeldZero ==
  ASSUME s8 \in [AlarmConditions \cup AlarmErrors -> Alarm!SeenType],
         \A f \in AlarmConditions \cup AlarmErrors : s8[f].held = 0
  PROVE  Alarm!Held = 0
<1>1. PICK h : h = [k \in DOMAIN s8 |-> s8[k].held] OBVIOUS
<1>2. h \in [AlarmConditions \cup AlarmErrors -> Nat]
        /\ \A f \in AlarmConditions \cup AlarmErrors : h[f] = 0
  BY <1>1 DEF Alarm!SeenType
<1>3. Alarm!Total(h) = 0 BY <1>2, TotalZero
<1> QED BY <1>1, <1>3 DEF Alarm!Held

LEMMA FlyingZero ==
  ASSUME s7 \in [Alarm!Sources -> Alarm!PostType],
         \A src \in Alarm!Sources : s7[src].count = 0
  PROVE  Alarm!Flying = 0
<1>1. PICK h : h = [k \in Alarm!Sources |-> s7[k].count] OBVIOUS
<1>2. h \in [Alarm!Sources -> Nat] /\ \A src \in Alarm!Sources : h[src] = 0
  BY <1>1 DEF Alarm!PostType
<1>3. Alarm!Total(h) = 0 BY <1>2, TotalZero
<1> QED BY <1>1, <1>3 DEF Alarm!Flying

LEMMA HeldNat ==
  ASSUME Alarm!AlertsConstants, s8 \in [AlarmConditions \cup AlarmErrors -> Alarm!SeenType]
  PROVE  Alarm!Held \in Nat
<1>1. PICK h : h = [k \in DOMAIN s8 |-> s8[k].held] OBVIOUS
<1>2. h \in [AlarmConditions \cup AlarmErrors -> Nat] BY <1>1 DEF Alarm!SeenType
<1>3. Alarm!Total(h) \in Nat BY <1>2, SourcesFinite, PiecesFinite
<1> QED BY <1>1, <1>3 DEF Alarm!Held

LEMMA FlyingNat ==
  ASSUME Alarm!AlertsConstants, s7 \in [Alarm!Sources -> Alarm!PostType]
  PROVE  Alarm!Flying \in Nat
<1>1. PICK h, T : h = [k \in Alarm!Sources |-> s7[k].count] /\ T = Alarm!Sources OBVIOUS
<1>2. h \in [T -> Nat] BY <1>1 DEF Alarm!PostType
<1>3. IsFiniteSet(T) BY <1>1, SourcesFinite
<1>4. Alarm!Total(h) \in Nat BY <1>2, <1>3, PiecesFinite
<1> QED BY <1>1, <1>4 DEF Alarm!Flying

(* A new relay holds nothing back. *)
LEMMA HeldNone ==
  ASSUME s8' \in [AlarmConditions \cup AlarmErrors -> Alarm!SeenType],
         \A f \in AlarmConditions \cup AlarmErrors : s8'[f].held = 0
  PROVE  Alarm!Held' = 0
<1>1. PICK h : h = [k \in DOMAIN s8' |-> s8'[k].held] OBVIOUS
<1>2. h \in [AlarmConditions \cup AlarmErrors -> Nat]
        /\ \A f \in AlarmConditions \cup AlarmErrors : h[f] = 0
  BY <1>1 DEF Alarm!SeenType
<1>3. Alarm!Total(h) = 0 BY <1>2, TotalZero
<1> QED BY <1>1, <1>3 DEF Alarm!Held

(* Nothing is admitted after a restart. *)
LEMMA FlyingNone ==
  ASSUME s7' \in [Alarm!Sources -> Alarm!PostType],
         \A src \in Alarm!Sources : s7'[src].count = 0
  PROVE  Alarm!Flying' = 0
<1>1. PICK h : h = [k \in Alarm!Sources |-> s7'[k].count] OBVIOUS
<1>2. h \in [Alarm!Sources -> Nat] /\ \A src \in Alarm!Sources : h[src] = 0
  BY <1>1 DEF Alarm!PostType
<1>3. Alarm!Total(h) = 0 BY <1>2, TotalZero
<1> QED BY <1>1, <1>3 DEF Alarm!Flying

(* A step that moves no report. *)
LEMMA SumsRest ==
  /\ s8' = s8 => Alarm!Held' = Alarm!Held
  /\ s7' = s7 => Alarm!Flying' = Alarm!Flying
BY DEF Alarm!Held, Alarm!Flying

-----------------------------------------------------------------------------
LEMMA NoPostIs ==
  /\ Alarm!NoPost \in Alarm!PostType /\ Alarm!NoPost.at = "none" /\ Alarm!NoPost.count = 0
  /\ \A f \in AlarmConditions \cup AlarmErrors : \A level \in {"error", "resolved"} :
       /\ Alarm!Report(f, level) \in Alarm!PostType /\ Alarm!Report(f, level) # Alarm!NoPost
       /\ Alarm!Report(f, level).at = "sent" /\ Alarm!Report(f, level).f = f
       /\ Alarm!Report(f, level).level = level /\ Alarm!Report(f, level).count = 0
BY DEF Alarm!NoPost, Alarm!Report, Alarm!PostType

(* It holds at first. *)
LEMMA AlarmInit == ASSUME Alarm!AlertsConstants, Alarm!Init PROVE Alarm!IInv
<1>1. Alarm!AlertTypes
  <2>1. << >> \in Seq(AlarmErrors) OBVIOUS
  <2>2. s7 \in [Alarm!Sources -> Alarm!PostType] BY NoPostIs DEF Alarm!Init
  <2>3. s8 \in [AlarmConditions \cup AlarmErrors -> [at : Nat \cup {None}, held : Nat]]
    BY DEF Alarm!Init, Alarm!Unseen
  <2> QED
    BY <2>1, <2>2, <2>3 DEF Alarm!Init, Alarm!AlertTypes, Alarm!PostType, Alarm!SeenType
<1>2. \A c \in AlarmConditions : Alarm!Chat(c)
  BY DEF Alarm!Init, Alarm!Chat, Alarm!Says, Alarm!Remembers, Alarm!Sources, Alarm!Unseen
<1>3. \A src \in Alarm!Sources : s7[src] = Alarm!NoPost /\ Alarm!Counts(src)
  BY NoPostIs DEF Alarm!Init, Alarm!Counts
<1>4. Alarm!Accounted
  <2>1. Alarm!Flying = 0
    <3>1. s7 \in [Alarm!Sources -> Alarm!PostType] /\ \A src \in Alarm!Sources :
            s7[src].count = 0
      BY <1>3, NoPostIs DEF Alarm!Init
    <3> QED BY <3>1, FlyingZero
  <2>2. Alarm!Held = 0
    <3>1. s8 \in [AlarmConditions \cup AlarmErrors -> Alarm!SeenType]
      BY <1>1 DEF Alarm!AlertTypes, Alarm!SeenType
    <3>2. \A f \in AlarmConditions \cup AlarmErrors : s8[f].held = 0
      BY DEF Alarm!Init, Alarm!Unseen
    <3> QED BY <3>1, <3>2, HeldZero
  <2> QED BY <2>1, <2>2 DEF Alarm!Init, Alarm!Accounted
<1>5. "api" \in Alarm!Sources BY DEF Alarm!Sources
<1> QED BY <1>1, <1>2, <1>3, <1>4, <1>5 DEF Alarm!IInv

(* A step that changes nothing the chat depends on. *)
LEMMA ChatRest ==
  ASSUME NEW c, Alarm!Chat(c), s7'[c] = s7[c], s8'[c] = s8[c], s11'[c] = s11[c],
         s4'[c] = s4[c], s12[c] => s12'[c]
  PROVE  Alarm!Chat(c)'
BY DEF Alarm!Chat, Alarm!Says, Alarm!Remembers

(* A step of the source s. *)
LEMMA SourceMoves ==
  ASSUME Alarm!AlertsConstants, Alarm!IInv, NEW src \in Alarm!Sources,
         NEW x, s7' = [s7 EXCEPT ![src] = x],
         x.at # "admitted" => x.count = 0,
         src = "api" /\ x # Alarm!NoPost => x.f \in AlarmErrors,
         Alarm!AlertTypes', Alarm!Accounted', src \in AlarmConditions => Alarm!Chat(src)',
         \A c \in AlarmConditions \ {src} :
           /\ s8'[c] = s8[c] /\ s11'[c] = s11[c] /\ s4'[c] = s4[c]
           /\ s12[c] => s12'[c]
  PROVE  Alarm!IInv'
<1>1. DOMAIN s7 = Alarm!Sources /\ "api" \in Alarm!Sources
        /\ AlarmConditions \subseteq Alarm!Sources
  BY DEF Alarm!IInv, Alarm!AlertTypes, Alarm!Sources
<1>2. s7'[src] = x /\ \A k \in Alarm!Sources \ {src} : s7'[k] = s7[k] BY <1>1
<1>3. \A k \in Alarm!Sources : Alarm!Counts(k)' BY <1>2 DEF Alarm!IInv, Alarm!Counts
<1>4. s7'["api"] # Alarm!NoPost => s7'["api"].f \in AlarmErrors BY <1>1, <1>2 DEF Alarm!IInv
<1>5. \A c \in AlarmConditions : Alarm!Chat(c)'
  <2> SUFFICES ASSUME NEW c \in AlarmConditions, c # src PROVE Alarm!Chat(c)' OBVIOUS
  <2>1. Alarm!Chat(c) /\ s7'[c] = s7[c] BY <1>1, <1>2 DEF Alarm!IInv
  <2> QED BY <2>1, ChatRest
<1> QED BY <1>3, <1>4, <1>5 DEF Alarm!IInv

(* The watchdog checks; what it finds is on its way. *)
LEMMA ConditionChecked ==
  ASSUME Alarm!AlertsConstants, Alarm!IInv, NEW c \in AlarmConditions, Alarm!Check(c)
  PROVE  Alarm!IInv'
<1>1. PICK run, fire, ends :
        /\ run = (IF s2[c] THEN IF s3[c] < AlarmNeeded[c] THEN s3[c] + 1
                    ELSE AlarmNeeded[c] ELSE 0)
        /\ fire = (s2[c] /\ ~s4[c] /\ run >= AlarmNeeded[c])
        /\ ends = (~s2[c] /\ s4[c])
  OBVIOUS
<1>2. PICK x : x = IF fire THEN Alarm!Report(c, "error")
                   ELSE IF ends THEN Alarm!Report(c, "resolved") ELSE Alarm!NoPost
  OBVIOUS
<1>t. Alarm!AlertTypes /\ Alarm!Chat(c) /\ Alarm!Accounted /\ c \in Alarm!Sources
        /\ c # "api"
  BY DEF Alarm!IInv, Alarm!Sources, Alarm!AlertsConstants
<1>3. /\ s7[c] = Alarm!NoPost /\ s7' = [s7 EXCEPT ![c] = x]
      /\ s3' = [s3 EXCEPT ![c] = run]
      /\ s4' = [s4 EXCEPT ![c] = fire \/ (s4[c] /\ ~ends)]
      /\ UNCHANGED <<s1, s2, s5, s6, s8, s9, s10, s11, s12, s13, s14,
                     s15>>
  BY <1>1, <1>2 DEF Alarm!Check, Alarm!relay, Alarm!chat
<1>4. /\ s3[c] \in Nat /\ AlarmNeeded[c] \in Nat /\ s2[c] \in BOOLEAN /\ s4[c] \in BOOLEAN
      /\ run \in Nat
  BY <1>1, <1>t DEF Alarm!AlertTypes, Alarm!AlertsConstants
<1>5. fire \in BOOLEAN /\ ends \in BOOLEAN /\ (fire => ~s4[c]) /\ (ends => s4[c])
  BY <1>1, <1>4
<1>6. /\ x \in Alarm!PostType /\ x.count = 0 /\ x.at # "admitted"
      /\ x # Alarm!NoPost
           => x.f = c /\ (fire => x.level = "error")
             /\ (~fire => x.level = "resolved" /\ ends)
      /\ x = Alarm!NoPost => ~fire /\ ~ends
  <2>1. CASE fire BY <1>2, <2>1, NoPostIs
  <2>2. CASE ~fire /\ ends BY <1>2, <1>5, <2>2, NoPostIs
  <2>3. CASE ~fire /\ ~ends BY <1>2, <1>5, <2>3, NoPostIs
  <2> QED BY <1>5, <2>1, <2>2, <2>3
<1>7. Alarm!AlertTypes'
  <2>1. s7' \in [Alarm!Sources -> Alarm!PostType]
    BY <1>3, <1>6, <1>t DEF Alarm!AlertTypes, Alarm!PostType
  <2>2. s4' \in [AlarmConditions -> BOOLEAN]
    <3>1. (fire \/ (s4[c] /\ ~ends)) \in BOOLEAN BY <1>5
    <3> QED BY <1>3, <1>t, <3>1 DEF Alarm!AlertTypes
  <2>3. s3' \in [AlarmConditions -> Nat] BY <1>3, <1>4, <1>t DEF Alarm!AlertTypes
  <2> QED BY <1>3, <1>t, <2>1, <2>2, <2>3 DEF Alarm!AlertTypes, Alarm!PostType
<1>8. Alarm!Accounted'
  <2>1. s7 \in [Alarm!Sources -> Alarm!PostType]
    BY <1>t DEF Alarm!AlertTypes, Alarm!PostType
  <2>2. Alarm!Flying' + s7[c].count = Alarm!Flying + x.count /\ Alarm!Flying \in Nat
          /\ Alarm!Flying' \in Nat
    BY <1>3, <1>6, <1>t, <2>1, FlyingChanges
  <2>3. Alarm!Flying' = Alarm!Flying
    <3>1. s7[c].count = 0 BY <1>3, NoPostIs
    <3>2. PICK a \in Nat, b \in Nat : a = Alarm!Flying /\ b = Alarm!Flying' BY <2>2
    <3>3. b + 0 = a + 0 BY <1>6, <2>2, <3>1, <3>2
    <3>4. b = a BY <3>3
    <3> QED BY <3>2, <3>4
  <2>4. Alarm!Held' = Alarm!Held BY <1>3, SumsRest
  <2> QED BY <1>3, <1>t, <2>3, <2>4 DEF Alarm!Accounted
<1>9. Alarm!Chat(c)'
  <2>1. s7'[c] = x /\ s4'[c] = (fire \/ (s4[c] /\ ~ends))
    BY <1>3, <1>t DEF Alarm!AlertTypes
  <2>2. x # Alarm!NoPost => x.level = IF s4'[c] THEN "error" ELSE "resolved"
    <3>1. CASE fire BY <1>6, <2>1, <3>1
    <3>2. CASE ~fire
      <4>1. x # Alarm!NoPost => x.level = "resolved" /\ ends BY <1>6, <3>2
      <4>2. ends => ~s4'[c] BY <2>1, <3>2
      <4> QED BY <4>1, <4>2
    <3> QED BY <1>5, <3>1, <3>2
  <2>3. x = Alarm!NoPost => s4'[c] = s4[c]
    <3>1. ASSUME x = Alarm!NoPost PROVE ~fire /\ ~ends BY <1>6, <3>1
    <3> QED BY <1>4, <2>1, <3>1
  <2>4. s7[c].at # "admitted" BY <1>3, NoPostIs
  <2>5. Alarm!Says(c)' BY <1>6, <2>1, <2>2 DEF Alarm!Says
  <2>6. Alarm!Remembers(c)' BY <1>3, <1>6, <1>t, <2>1, <2>4 DEF Alarm!Chat, Alarm!Remembers
  <2>7. s7'[c] = Alarm!NoPost /\ ~s12'[c] => s11'[c] = s4'[c]
    BY <1>3, <1>t, <2>1, <2>3 DEF Alarm!Chat
  <2> QED BY <2>5, <2>6, <2>7 DEF Alarm!Chat
<1>10. \A k \in AlarmConditions \ {c} :
         /\ s8'[k] = s8[k] /\ s11'[k] = s11[k] /\ s4'[k] = s4[k]
         /\ s12[k] => s12'[k]
  BY <1>3, <1>t DEF Alarm!AlertTypes
<1> QED BY <1>3, <1>6, <1>7, <1>8, <1>9, <1>10, <1>t, SourceMoves

(* A step that leaves the reports and the relay alone. *)
LEMMA Unreported ==
  ASSUME Alarm!IInv, Alarm!AlertTypes', UNCHANGED <<s7, s8, s11, s10, s13, s14, s15>>,
         \A c \in AlarmConditions : Alarm!Chat(c)'
  PROVE  Alarm!IInv'
<1>1. Alarm!Accounted'
  <2>1. Alarm!Held' = Alarm!Held /\ Alarm!Flying' = Alarm!Flying BY SumsRest
  <2> QED BY <2>1 DEF Alarm!IInv, Alarm!Accounted
<1>2. \A src \in Alarm!Sources : Alarm!Counts(src)' BY DEF Alarm!IInv, Alarm!Counts
<1>3. s7'["api"] # Alarm!NoPost => s7'["api"].f \in AlarmErrors BY DEF Alarm!IInv
<1> QED BY <1>1, <1>2, <1>3 DEF Alarm!IInv

(* A new watchdog has missed what was wrong. *)
LEMMA WatchdogRestarts ==
  ASSUME Alarm!IInv, NEW c \in AlarmConditions, Alarm!RestartWatchdog(c)
  PROVE  Alarm!IInv'
<1>1. /\ s7[c] = Alarm!NoPost /\ s4' = [s4 EXCEPT ![c] = FALSE]
      /\ s3' = [s3 EXCEPT ![c] = 0] /\ s12' = [s12 EXCEPT ![c] = TRUE]
      /\ UNCHANGED <<s1, s2, s5, s6, s7, s8, s9, s10, s11, s13, s14, s15>>
  BY DEF Alarm!RestartWatchdog, Alarm!relay
<1>2. Alarm!AlertTypes BY DEF Alarm!IInv
<1>3. Alarm!AlertTypes' BY <1>1, <1>2 DEF Alarm!AlertTypes
<1>4. \A k \in AlarmConditions : Alarm!Chat(k)'
  <2> SUFFICES ASSUME NEW k \in AlarmConditions PROVE Alarm!Chat(k)' OBVIOUS
  <2>1. Alarm!Chat(k) BY DEF Alarm!IInv
  <2>2. CASE k = c
    <3>1. s12'[k] /\ s7'[k] = Alarm!NoPost BY <1>1, <1>2, <2>2 DEF Alarm!AlertTypes
    <3> QED BY <3>1, NoPostIs DEF Alarm!Chat, Alarm!Says, Alarm!Remembers
  <2>3. CASE k # c
    <3>1. /\ s7'[k] = s7[k] /\ s8'[k] = s8[k] /\ s11'[k] = s11[k]
          /\ s4'[k] = s4[k] /\ (s12[k] => s12'[k])
      BY <1>1, <1>2, <2>3 DEF Alarm!AlertTypes
    <3> QED BY <2>1, <3>1, ChatRest
  <2> QED BY <2>2, <2>3
<1> QED BY <1>1, <1>3, <1>4, Unreported

(* A condition is not an error, nor the API's handler. *)
LEMMA AlarmApart ==
  ASSUME Alarm!IInv,
         (\E c \in AlarmConditions : Alarm!Changes(c))
           \/ (\E err \in AlarmErrors : Alarm!Log(err)) \/ Alarm!Tick
  PROVE  Alarm!IInv'
<1>1. UNCHANGED <<s3, s4, s7, s8, s11, s12, s10, s13, s14, s15>>
  BY DEF Alarm!Changes, Alarm!Log, Alarm!Tick, Alarm!relay, Alarm!chat, Alarm!sources
<1>2. Alarm!AlertTypes BY DEF Alarm!IInv
<1>3. s1' \in Nat /\ s2' \in [AlarmConditions -> BOOLEAN] /\ s6' \in Seq(AlarmErrors)
  <2>1. ASSUME NEW c \in AlarmConditions, Alarm!Changes(c)
        PROVE  s1' \in Nat /\ s2' \in [AlarmConditions -> BOOLEAN]
                 /\ s6' \in Seq(AlarmErrors)
    BY <1>2, <2>1 DEF Alarm!Changes, Alarm!AlertTypes
  <2>2. ASSUME NEW err \in AlarmErrors, Alarm!Log(err)
        PROVE  s1' \in Nat /\ s2' \in [AlarmConditions -> BOOLEAN]
                 /\ s6' \in Seq(AlarmErrors)
    <3>1. s6' \in Seq(AlarmErrors) BY <1>2, <2>2 DEF Alarm!Log, Alarm!AlertTypes
    <3> QED BY <1>2, <2>2, <3>1 DEF Alarm!Log, Alarm!AlertTypes
  <2>3. ASSUME Alarm!Tick
        PROVE  s1' \in Nat /\ s2' \in [AlarmConditions -> BOOLEAN]
                 /\ s6' \in Seq(AlarmErrors)
    BY <1>2, <2>3 DEF Alarm!Tick, Alarm!sources, Alarm!AlertTypes
  <2> QED BY <2>1, <2>2, <2>3
<1>4. Alarm!AlertTypes' BY <1>1, <1>2, <1>3 DEF Alarm!AlertTypes
<1>5. \A c \in AlarmConditions : Alarm!Chat(c)'
  <2> SUFFICES ASSUME NEW c \in AlarmConditions PROVE Alarm!Chat(c)' OBVIOUS
  <2>1. Alarm!Chat(c) BY DEF Alarm!IInv
  <2> QED BY <1>1, <2>1, ChatRest
<1> QED BY <1>1, <1>4, <1>5, Unreported

(* The API's handler reports one of its errors. *)
LEMMA ApiReports ==
  ASSUME Alarm!AlertsConstants, Alarm!IInv, Alarm!Drain
  PROVE  Alarm!IInv'
<1>1. PICK x : x = Alarm!Report(Head(s6), "error") OBVIOUS
<1>2. /\ s6 # << >> /\ s7["api"] = Alarm!NoPost /\ s7' = [s7 EXCEPT !["api"] = x]
      /\ s6' = Tail(s6) /\ UNCHANGED <<s1, s2, s3, s4, s5, s8, s9, s10,
                                       s11, s12, s13, s14, s15>>
  BY <1>1 DEF Alarm!Drain, Alarm!relay, Alarm!chat
<1>3. Alarm!AlertTypes /\ Alarm!Accounted /\ "api" \in Alarm!Sources
        /\ "api" \notin AlarmConditions
  BY DEF Alarm!IInv, Alarm!Sources, Alarm!AlertsConstants
<1>4. Head(s6) \in AlarmErrors /\ Tail(s6) \in Seq(AlarmErrors)
  BY <1>2, <1>3 DEF Alarm!AlertTypes
<1>5. x \in Alarm!PostType /\ x.count = 0 /\ x.f \in AlarmErrors BY <1>1, <1>4, NoPostIs
<1>6. s7 \in [Alarm!Sources -> Alarm!PostType] BY <1>3 DEF Alarm!AlertTypes, Alarm!PostType
<1>7. Alarm!AlertTypes'
  <2>1. s7' \in [Alarm!Sources -> Alarm!PostType] BY <1>2, <1>5, <1>6
  <2> QED BY <1>2, <1>3, <1>4, <2>1 DEF Alarm!AlertTypes, Alarm!PostType
<1>8. Alarm!Accounted'
  <2>1. Alarm!Flying' + s7["api"].count = Alarm!Flying + x.count /\ Alarm!Flying \in Nat
          /\ Alarm!Flying' \in Nat
    BY <1>2, <1>3, <1>5, <1>6, FlyingChanges
  <2>2. s7["api"].count = 0 BY <1>2, NoPostIs
  <2>3. x.count = 0 BY <1>5
  <2>4. Alarm!Flying' = Alarm!Flying BY ONLY <2>1, <2>2, <2>3
  <2>5. Alarm!Held' = Alarm!Held BY <1>2, SumsRest
  <2> QED BY <1>2, <1>3, <2>4, <2>5 DEF Alarm!Accounted
<1> QED BY <1>2, <1>3, <1>5, <1>7, <1>8, SourceMoves

(* A report that the relay gets, or that goes. *)
LEMMA ReportGoes ==
  ASSUME Alarm!AlertsConstants, Alarm!IInv, NEW src \in Alarm!Sources,
         s7[src] # Alarm!NoPost
  PROVE  /\ s7[src].f \in AlarmConditions \cup AlarmErrors
         /\ \A c \in AlarmConditions : s7[src].f = c <=> src = c
         /\ src \in AlarmConditions => s7[src].f = src
<1>1. CASE src \in AlarmConditions BY <1>1 DEF Alarm!IInv, Alarm!Chat, Alarm!Says
<1>2. CASE src = "api" BY <1>2 DEF Alarm!IInv, Alarm!AlertsConstants
<1> QED BY <1>1, <1>2 DEF Alarm!Sources

(* A repeat is counted and waits. *)
LEMMA ReportHeld ==
  ASSUME Alarm!AlertsConstants, Alarm!IInv, NEW src \in Alarm!Sources, s7[src].at = "sent",
         s13' = s13 + 1, Alarm!Hold(src, s7[src].f),
         UNCHANGED <<s1, Alarm!sources, s11, s14, s15>>
  PROVE  Alarm!IInv'
<1>1. PICK f, x, y : f = s7[src].f /\ x = Alarm!NoPost
                       /\ y = [s8[f] EXCEPT !.held = @ + 1] OBVIOUS
<1>t. Alarm!AlertTypes /\ Alarm!Accounted /\ Alarm!Counts(src) BY DEF Alarm!IInv
<1>2. /\ s7 \in [Alarm!Sources -> Alarm!PostType]
           /\ s8 \in [AlarmConditions \cup AlarmErrors -> Alarm!SeenType]
      /\ s10 \in Nat /\ s13 \in Nat /\ s14 \in Nat /\ s15 \in Nat
  BY <1>t DEF Alarm!AlertTypes, Alarm!PostType, Alarm!SeenType
<1>3. /\ f \in AlarmConditions \cup AlarmErrors /\ s7[src] # Alarm!NoPost
           /\ (src \in AlarmConditions => f = src)
      /\ \A c \in AlarmConditions : f = c <=> src = c
  <2>1. s7[src] # Alarm!NoPost BY NoPostIs
  <2> QED BY <1>1, <2>1, ReportGoes
<1>4. /\ s8[f].at # None /\ s7[src].level # "resolved"
      /\ s7' = [s7 EXCEPT ![src] = x] /\ s8' = [s8 EXCEPT ![f] = y]
      /\ UNCHANGED <<s1, s2, s3, s4, s5, s6, s9, s10, s12, s11, s14,
                     s15>>
  BY <1>1, <1>2, <1>3 DEF Alarm!Hold, Alarm!Repeats, Alarm!sources
<1>5. y \in Alarm!SeenType /\ y.at = s8[f].at /\ y.held = s8[f].held + 1
        /\ s8[f].held \in Nat
  BY <1>1, <1>2, <1>3 DEF Alarm!SeenType
<1>6. x \in Alarm!PostType /\ x.count = 0 /\ x = Alarm!NoPost /\ s7[src].count = 0
  BY <1>1, <1>t, NoPostIs DEF Alarm!Counts
<1>7. Alarm!AlertTypes'
  <2>1. s7' \in [Alarm!Sources -> Alarm!PostType] BY <1>2, <1>4, <1>6
  <2>2. s8' \in [AlarmConditions \cup AlarmErrors -> Alarm!SeenType] BY <1>2, <1>4, <1>5
  <2>3. s13' \in Nat BY <1>2
  <2> QED
    BY <1>4, <1>t, <2>1, <2>2, <2>3 DEF Alarm!AlertTypes, Alarm!PostType, Alarm!SeenType
<1>8. Alarm!Accounted'
  <2>1. Alarm!Flying' + s7[src].count = Alarm!Flying + x.count /\ Alarm!Flying \in Nat
          /\ Alarm!Flying' \in Nat
    BY <1>2, <1>4, <1>6, FlyingChanges
  <2>2. Alarm!Held' + s8[f].held = Alarm!Held + y.held /\ Alarm!Held \in Nat
          /\ Alarm!Held' \in Nat
    BY <1>2, <1>3, <1>4, <1>5, HeldChanges
  <2>3. Alarm!Flying' = Alarm!Flying /\ Alarm!Held' = Alarm!Held + 1
    <3>1. PICK a \in Nat, b \in Nat : a = Alarm!Flying /\ b = Alarm!Flying' BY <2>1
    <3>2. b + 0 = a + 0 BY <1>6, <2>1, <3>1
    <3>3. b = a BY <3>2
    <3>4. PICK h \in Nat, k \in Nat : h = Alarm!Held /\ k = Alarm!Held' BY <2>2
    <3>5. PICK n \in Nat : n = s8[f].held BY <1>5
    <3>6. k + n = h + (n + 1) BY <1>5, <2>2, <3>4, <3>5
    <3>7. k = h + 1 BY <3>6
    <3> QED BY <3>1, <3>3, <3>4, <3>7
  <2>4. s13' = s14' + s15' + s10' + Alarm!Held' + Alarm!Flying'
    BY <1>2, <1>4, <1>t, <2>1, <2>2, <2>3 DEF Alarm!Accounted
  <2> QED BY <2>4 DEF Alarm!Accounted
<1>9. ASSUME src \in AlarmConditions PROVE Alarm!Chat(src)'
  <2>1. Alarm!Chat(src) /\ f = src BY <1>3, <1>9 DEF Alarm!IInv
  <2>2. s7'[src] = x /\ s8'[src] = y BY <1>2, <1>4, <2>1, <1>9
  <2>3. s4[src] /\ (~s12[src] => s11[src])
    BY <1>3, <1>4, <1>9, <1>t, <2>1 DEF Alarm!Chat, Alarm!Says, Alarm!Remembers,
       Alarm!AlertTypes
  <2>4. /\ s11' = s11 /\ s12' = s12 /\ s4' = s4
        /\ s4[src] \in BOOLEAN /\ s11[src] \in BOOLEAN
    BY <1>4, <1>9, <1>t DEF Alarm!AlertTypes
  <2>5. ~s12'[src] => s11'[src] = s4'[src] BY <2>3, <2>4
  <2>6. Alarm!Says(src)' BY <1>6, <2>2 DEF Alarm!Says
  <2>7. Alarm!Remembers(src)' BY <1>1, <2>2, <2>3, <2>4, NoPostIs DEF Alarm!Remembers
  <2> QED BY <2>5, <2>6, <2>7 DEF Alarm!Chat
<1>10. \A c \in AlarmConditions \ {src} :
         /\ s8'[c] = s8[c] /\ s11'[c] = s11[c] /\ s4'[c] = s4[c]
         /\ s12[c] => s12'[c]
  BY <1>2, <1>3, <1>4
<1>11. src = "api" /\ x # Alarm!NoPost => x.f \in AlarmErrors BY <1>6
<1>12. x.at # "admitted" => x.count = 0 BY <1>6
<1> QED BY <1>4, <1>7, <1>8, <1>9, <1>10, <1>11, <1>12, SourceMoves

(* The rate limit drops a report, and counts it. *)
LEMMA ReportDropped ==
  ASSUME Alarm!AlertsConstants, Alarm!IInv, NEW src \in Alarm!Sources, s7[src].at = "sent",
         s13' = s13 + 1, Alarm!DropReport(src, s7[src].f),
         UNCHANGED <<s1, Alarm!sources, s11, s14, s15>>
  PROVE  Alarm!IInv'
<1>1. PICK f, x : f = s7[src].f /\ x = Alarm!NoPost OBVIOUS
<1>t. Alarm!AlertTypes /\ Alarm!Accounted /\ Alarm!Counts(src) BY DEF Alarm!IInv
<1>2. /\ s7 \in [Alarm!Sources -> Alarm!PostType] /\ s10 \in Nat /\ s13 \in Nat
      /\ s14 \in Nat /\ s15 \in Nat /\ s12 \in [AlarmConditions -> BOOLEAN]
  BY <1>t DEF Alarm!AlertTypes, Alarm!PostType
<1>3. s7[src] # Alarm!NoPost /\ (src \in AlarmConditions => f = src)
  <2>1. s7[src] # Alarm!NoPost BY NoPostIs
  <2> QED BY <1>1, <2>1, ReportGoes
<1>4. /\ s7' = [s7 EXCEPT ![src] = x] /\ s10' = s10 + 1 /\ s12' = Alarm!Missed(f)
      /\ UNCHANGED <<s1, s2, s3, s4, s5, s6, s8, s11, s14, s15>>
  BY <1>1 DEF Alarm!DropReport, Alarm!sources
<1>5. x \in Alarm!PostType /\ x.count = 0 /\ x.at = "none" /\ x = Alarm!NoPost
        /\ s7[src].count = 0
  BY <1>1, <1>t, NoPostIs DEF Alarm!Counts
<1>6. /\ s12' \in [AlarmConditions -> BOOLEAN]
      /\ \A c \in AlarmConditions : s12'[c] <=> c = f \/ s12[c]
  BY <1>2, <1>4 DEF Alarm!Missed
<1>7. Alarm!AlertTypes'
  <2>1. s7' \in [Alarm!Sources -> Alarm!PostType] BY <1>2, <1>4, <1>5
  <2> QED BY <1>2, <1>4, <1>6, <1>t, <2>1 DEF Alarm!AlertTypes, Alarm!PostType
<1>8. Alarm!Accounted'
  <2>1. Alarm!Flying' + s7[src].count = Alarm!Flying + x.count /\ Alarm!Flying \in Nat
          /\ Alarm!Flying' \in Nat
    BY <1>2, <1>4, <1>5, FlyingChanges
  <2>2. Alarm!Flying' = Alarm!Flying
    <3>1. PICK a \in Nat, b \in Nat : a = Alarm!Flying /\ b = Alarm!Flying' BY <2>1
    <3>2. b + 0 = a + 0 BY <1>5, <2>1, <3>1
    <3>3. b = a BY <3>2
    <3> QED BY <3>1, <3>3
  <2>3. Alarm!Held' = Alarm!Held /\ Alarm!Held \in Nat
    <3>1. Alarm!Held' = Alarm!Held BY <1>4, SumsRest
    <3>2. s8 \in [AlarmConditions \cup AlarmErrors -> Alarm!SeenType]
      BY <1>t DEF Alarm!AlertTypes, Alarm!SeenType
    <3> QED BY <3>1, <3>2, HeldNat
  <2>4. s13' = s14' + s15' + s10' + Alarm!Held' + Alarm!Flying'
    BY <1>2, <1>4, <1>t, <2>1, <2>2, <2>3 DEF Alarm!Accounted
  <2> QED BY <2>4 DEF Alarm!Accounted
<1>9. ASSUME src \in AlarmConditions PROVE Alarm!Chat(src)'
  <2>1. s12'[src] /\ s7'[src] = x BY <1>2, <1>3, <1>4, <1>6, <1>9
  <2> QED BY <1>5, <2>1 DEF Alarm!Chat, Alarm!Says, Alarm!Remembers
<1>10. \A c \in AlarmConditions \ {src} :
         /\ s8'[c] = s8[c] /\ s11'[c] = s11[c] /\ s4'[c] = s4[c]
         /\ s12[c] => s12'[c]
  BY <1>4, <1>6
<1>11. (src = "api" /\ x # Alarm!NoPost => x.f \in AlarmErrors)
         /\ (x.at # "admitted" => x.count = 0)
  BY <1>5
<1> QED BY <1>4, <1>7, <1>8, <1>9, <1>10, <1>11, SourceMoves

(* A report goes with the count of what was held and dropped. *)
LEMMA ReportAdmitted ==
  ASSUME Alarm!AlertsConstants, Alarm!IInv, NEW src \in Alarm!Sources, s7[src].at = "sent",
         s13' = s13 + 1, Alarm!Admit(src, s7[src].f),
         UNCHANGED <<s1, Alarm!sources, s11, s14, s15>>
  PROVE  Alarm!IInv'
<1>1. PICK f, x, y : /\ f = s7[src].f /\ y = Alarm!Recorded(f, s7[src].level)
                     /\ x = [s7[src] EXCEPT !.at = "admitted",
                                            !.count = 1 + s8[f].held + s10]
  OBVIOUS
<1>t. Alarm!AlertTypes /\ Alarm!Accounted /\ Alarm!Counts(src) BY DEF Alarm!IInv
<1>2. /\ s7 \in [Alarm!Sources -> Alarm!PostType]
           /\ s8 \in [AlarmConditions \cup AlarmErrors -> Alarm!SeenType]
      /\ s10 \in Nat /\ s13 \in Nat /\ s14 \in Nat /\ s15 \in Nat /\ s1 \in Nat
  BY <1>t DEF Alarm!AlertTypes, Alarm!PostType, Alarm!SeenType
<1>3. /\ f \in AlarmConditions \cup AlarmErrors /\ s7[src] # Alarm!NoPost
           /\ (src \in AlarmConditions => f = src)
      /\ (\A c \in AlarmConditions : f = c <=> src = c)
           /\ (src = "api" => f \in AlarmErrors)
  <2>1. s7[src] # Alarm!NoPost BY NoPostIs
  <2>2. src = "api" => s7[src].f \in AlarmErrors BY <2>1 DEF Alarm!IInv
  <2> QED BY <1>1, <2>1, <2>2, ReportGoes
<1>4. /\ s7' = [s7 EXCEPT ![src] = x] /\ s8' = [s8 EXCEPT ![f] = y] /\ s10' = 0
      /\ UNCHANGED <<s1, s2, s3, s4, s5, s6, s12, s11, s14, s15>>
  BY <1>1, <1>2, <1>3 DEF Alarm!Admit, Alarm!sources
<1>5. /\ y \in Alarm!SeenType /\ y.held = 0 /\ (s7[src].level = "resolved" => y.at = None)
      /\ s8[f].held \in Nat
  BY <1>1, <1>2, <1>3 DEF Alarm!SeenType, Alarm!Recorded, Alarm!HeldAfter, Alarm!Unseen
<1>6. /\ x \in Alarm!PostType /\ x.at = "admitted" /\ x.f = f /\ x.level = s7[src].level
      /\ x.count = 1 + s8[f].held + s10 /\ s7[src].count = 0
  <2>1. s7[src] \in Alarm!PostType /\ 1 + s8[f].held + s10 \in Nat BY <1>2, <1>5
  <2> QED BY <1>1, <1>t, <2>1 DEF Alarm!PostType, Alarm!Counts
<1>7. Alarm!AlertTypes'
  <2>1. s7' \in [Alarm!Sources -> Alarm!PostType] BY <1>2, <1>4, <1>6
  <2>2. s8' \in [AlarmConditions \cup AlarmErrors -> Alarm!SeenType] BY <1>2, <1>4, <1>5
  <2>3. s13' \in Nat /\ s10' \in Nat BY <1>2, <1>4
  <2> QED
    BY <1>4, <1>t, <2>1, <2>2, <2>3 DEF Alarm!AlertTypes, Alarm!PostType, Alarm!SeenType
<1>8. Alarm!Accounted'
  <2>1. Alarm!Flying' + s7[src].count = Alarm!Flying + x.count /\ Alarm!Flying \in Nat
          /\ Alarm!Flying' \in Nat
    BY <1>2, <1>4, <1>6, FlyingChanges
  <2>2. Alarm!Held' + s8[f].held = Alarm!Held + y.held /\ Alarm!Held \in Nat
          /\ Alarm!Held' \in Nat
    BY <1>2, <1>3, <1>4, <1>5, HeldChanges
  <2>3. Alarm!Flying' = Alarm!Flying + 1 + s8[f].held + s10
          /\ Alarm!Held' + s8[f].held = Alarm!Held
    BY <1>2, <1>5, <1>6, <2>1, <2>2
  <2>4. s13' = s14' + s15' + s10' + Alarm!Held' + Alarm!Flying'
    BY <1>2, <1>4, <1>5, <1>t, <2>1, <2>2, <2>3 DEF Alarm!Accounted
  <2> QED BY <2>4 DEF Alarm!Accounted
<1>9. ASSUME src \in AlarmConditions PROVE Alarm!Chat(src)'
  <2>1. Alarm!Chat(src) /\ f = src BY <1>3, <1>9 DEF Alarm!IInv
  <2>2. s7'[src] = x /\ s8'[src] = y BY <1>2, <1>4, <2>1, <1>9
  <2>3. x # Alarm!NoPost BY <1>6, NoPostIs
  <2>4. Alarm!Says(src)' BY <1>3, <1>4, <1>6, <2>1, <2>2 DEF Alarm!Chat, Alarm!Says
  <2>5. Alarm!Remembers(src)' BY <1>5, <1>6, <2>2 DEF Alarm!Remembers
  <2> QED BY <2>2, <2>3, <2>4, <2>5 DEF Alarm!Chat
<1>10. \A c \in AlarmConditions \ {src} :
         /\ s8'[c] = s8[c] /\ s11'[c] = s11[c] /\ s4'[c] = s4[c]
         /\ s12[c] => s12'[c]
  BY <1>2, <1>3, <1>4
<1>11. (src = "api" /\ x # Alarm!NoPost => x.f \in AlarmErrors)
         /\ (x.at # "admitted" => x.count = 0)
  BY <1>3, <1>6
<1> QED BY <1>4, <1>7, <1>8, <1>9, <1>10, <1>11, SourceMoves

(* The chat is told. *)
LEMMA ReportDelivered ==
  ASSUME Alarm!AlertsConstants, Alarm!IInv, NEW src \in Alarm!Sources, Alarm!Deliver(src)
  PROVE  Alarm!IInv'
<1>1. PICK x : x = Alarm!NoPost OBVIOUS
<1>t. Alarm!AlertTypes /\ Alarm!Accounted BY DEF Alarm!IInv
<1>2. /\ s7 \in [Alarm!Sources -> Alarm!PostType]
           /\ s8 \in [AlarmConditions \cup AlarmErrors -> Alarm!SeenType]
      /\ s10 \in Nat /\ s13 \in Nat /\ s14 \in Nat /\ s15 \in Nat
      /\ s11 \in [AlarmConditions -> BOOLEAN] /\ s12 \in [AlarmConditions -> BOOLEAN]
  BY <1>t DEF Alarm!AlertTypes, Alarm!PostType, Alarm!SeenType
<1>3. /\ s7[src].at = "admitted" /\ s7[src] # Alarm!NoPost /\ s7' = [s7 EXCEPT ![src] = x]
      /\ s11' = [c \in AlarmConditions |-> IF c = src THEN s7[src].level = "error"
                   ELSE s11[c]]
      /\ s12' = [c \in AlarmConditions |-> c # src /\ s12[c]]
      /\ s14' = s14 + s7[src].count
      /\ UNCHANGED <<s1, s2, s3, s4, s5, s6, s8, s10, s13, s15>>
  BY <1>1, NoPostIs DEF Alarm!Deliver, Alarm!sources, Alarm!relay
<1>4. x \in Alarm!PostType /\ x.count = 0 /\ x.at = "none" /\ x = Alarm!NoPost
        /\ s7[src].count \in Nat
  BY <1>1, <1>2, NoPostIs DEF Alarm!PostType
<1>5. /\ s11' \in [AlarmConditions -> BOOLEAN] /\ s12' \in [AlarmConditions -> BOOLEAN]
      /\ \A c \in AlarmConditions \ {src} : s11'[c] = s11[c] /\ (s12'[c] <=> s12[c])
      /\ src \in AlarmConditions => ~s12'[src] /\ (s11'[src] <=> s7[src].level = "error")
  <2>1. s11' \in [AlarmConditions -> BOOLEAN] BY <1>2, <1>3
  <2>2. s12' \in [AlarmConditions -> BOOLEAN] BY <1>2, <1>3
  <2> QED BY <1>2, <1>3, <2>1, <2>2
<1>6. Alarm!AlertTypes'
  <2>1. s7' \in [Alarm!Sources -> Alarm!PostType] BY <1>2, <1>3, <1>4
  <2>2. s14' \in Nat BY <1>2, <1>3, <1>4
  <2> QED BY <1>3, <1>5, <1>t, <2>1, <2>2 DEF Alarm!AlertTypes, Alarm!PostType
<1>7. Alarm!Accounted'
  <2>1. Alarm!Flying' + s7[src].count = Alarm!Flying + x.count /\ Alarm!Flying \in Nat
          /\ Alarm!Flying' \in Nat
    BY <1>2, <1>3, <1>4, FlyingChanges
  <2>2. Alarm!Held' = Alarm!Held /\ Alarm!Held \in Nat
    <3>1. Alarm!Held' = Alarm!Held BY <1>3, SumsRest
    <3> QED BY <1>2, <3>1, HeldNat
  <2>3. s13' = s14' + s15' + s10' + Alarm!Held' + Alarm!Flying'
    BY <1>2, <1>3, <1>4, <1>t, <2>1, <2>2 DEF Alarm!Accounted
  <2> QED BY <2>3 DEF Alarm!Accounted
<1>8. ASSUME src \in AlarmConditions PROVE Alarm!Chat(src)'
  <2>1. Alarm!Chat(src) BY <1>8 DEF Alarm!IInv
  <2>2. s7'[src] = x /\ s8'[src] = s8[src] /\ s4'[src] = s4[src] /\ s4[src] \in BOOLEAN
    BY <1>2, <1>3, <1>8, <1>t DEF Alarm!AlertTypes
  <2>3. s7[src].level = IF s4[src] THEN "error" ELSE "resolved"
    BY <1>3, <2>1 DEF Alarm!Chat, Alarm!Says
  <2>4. s11'[src] <=> s4'[src] BY <1>5, <1>8, <2>2, <2>3
  <2>5. s11'[src] \in BOOLEAN BY <1>5, <1>8
  <2>6. s11'[src] = s4'[src] BY <2>2, <2>4, <2>5
  <2>7. ~s11'[src] => s8[src].at = None
    BY <1>3, <2>1, <2>2, <2>3, <2>4 DEF Alarm!Chat, Alarm!Remembers
  <2>8. Alarm!Remembers(src)' BY <1>4, <2>2, <2>7 DEF Alarm!Remembers
  <2>9. Alarm!Says(src)' BY <1>4, <2>2 DEF Alarm!Says
  <2> QED BY <2>6, <2>8, <2>9 DEF Alarm!Chat
<1>9. \A c \in AlarmConditions \ {src} :
        /\ s8'[c] = s8[c] /\ s11'[c] = s11[c] /\ s4'[c] = s4[c]
        /\ s12[c] => s12'[c]
  BY <1>3, <1>5
<1>10. (src = "api" /\ x # Alarm!NoPost => x.f \in AlarmErrors)
         /\ (x.at # "admitted" => x.count = 0)
  BY <1>4
<1> QED BY <1>3, <1>6, <1>7, <1>8, <1>9, <1>10, SourceMoves

(* A report or a message fails. *)
LEMMA ReportLost ==
  ASSUME Alarm!AlertsConstants, Alarm!IInv, NEW src \in Alarm!Sources, Alarm!Lose(src)
  PROVE  Alarm!IInv'
<1>1. PICK f, x : f = s7[src].f /\ x = Alarm!NoPost OBVIOUS
<1>t. Alarm!AlertTypes /\ Alarm!Accounted BY DEF Alarm!IInv
<1>2. /\ s7 \in [Alarm!Sources -> Alarm!PostType]
           /\ s8 \in [AlarmConditions \cup AlarmErrors -> Alarm!SeenType]
      /\ s10 \in Nat /\ s13 \in Nat /\ s14 \in Nat /\ s15 \in Nat
      /\ s12 \in [AlarmConditions -> BOOLEAN]
  BY <1>t DEF Alarm!AlertTypes, Alarm!PostType, Alarm!SeenType
<1>3. /\ s7[src] # Alarm!NoPost /\ s7' = [s7 EXCEPT ![src] = x] /\ s12' = Alarm!Missed(f)
      /\ s15' = s15 + s7[src].count
      /\ UNCHANGED <<s1, s2, s3, s4, s5, s6, s8, s10, s11, s13, s14>>
  BY <1>1 DEF Alarm!Lose, Alarm!sources, Alarm!relay
<1>4. x \in Alarm!PostType /\ x.count = 0 /\ x.at = "none" /\ x = Alarm!NoPost
        /\ s7[src].count \in Nat
  BY <1>1, <1>2, NoPostIs DEF Alarm!PostType
<1>5. /\ s12' \in [AlarmConditions -> BOOLEAN] /\ (src \in AlarmConditions => f = src)
      /\ \A c \in AlarmConditions : s12'[c] <=> c = f \/ s12[c]
  BY <1>1, <1>2, <1>3, ReportGoes DEF Alarm!Missed
<1>6. Alarm!AlertTypes'
  <2>1. s7' \in [Alarm!Sources -> Alarm!PostType] BY <1>2, <1>3, <1>4
  <2>2. s15' \in Nat BY <1>2, <1>3, <1>4
  <2> QED BY <1>3, <1>5, <1>t, <2>1, <2>2 DEF Alarm!AlertTypes, Alarm!PostType
<1>7. Alarm!Accounted'
  <2>1. Alarm!Flying' + s7[src].count = Alarm!Flying + x.count /\ Alarm!Flying \in Nat
          /\ Alarm!Flying' \in Nat
    BY <1>2, <1>3, <1>4, FlyingChanges
  <2>2. Alarm!Held' = Alarm!Held /\ Alarm!Held \in Nat
    <3>1. Alarm!Held' = Alarm!Held BY <1>3, SumsRest
    <3> QED BY <1>2, <3>1, HeldNat
  <2>3. s13' = s14' + s15' + s10' + Alarm!Held' + Alarm!Flying'
    BY <1>2, <1>3, <1>4, <1>t, <2>1, <2>2 DEF Alarm!Accounted
  <2> QED BY <2>3 DEF Alarm!Accounted
<1>8. ASSUME src \in AlarmConditions PROVE Alarm!Chat(src)'
  <2>1. s12'[src] /\ s7'[src] = x BY <1>2, <1>3, <1>5, <1>8
  <2> QED BY <1>4, <2>1 DEF Alarm!Chat, Alarm!Says, Alarm!Remembers
<1>9. \A c \in AlarmConditions \ {src} :
        /\ s8'[c] = s8[c] /\ s11'[c] = s11[c] /\ s4'[c] = s4[c]
        /\ s12[c] => s12'[c]
  BY <1>3, <1>5
<1>10. (src = "api" /\ x # Alarm!NoPost => x.f \in AlarmErrors)
         /\ (x.at # "admitted" => x.count = 0)
  BY <1>4
<1> QED BY <1>3, <1>6, <1>7, <1>8, <1>9, <1>10, SourceMoves

(* A new relay process: everything held or admitted is lost. *)
LEMMA RelayRestarts ==
  ASSUME Alarm!AlertsConstants, Alarm!IInv, Alarm!RestartRelay
  PROVE  Alarm!IInv'
<1>t. Alarm!AlertTypes /\ Alarm!Accounted BY DEF Alarm!IInv
<1>2. /\ s7 \in [Alarm!Sources -> Alarm!PostType]
           /\ s8 \in [AlarmConditions \cup AlarmErrors -> Alarm!SeenType]
      /\ s10 \in Nat /\ s13 \in Nat /\ s14 \in Nat /\ s15 \in Nat
      /\ s12 \in [AlarmConditions -> BOOLEAN]
  BY <1>t DEF Alarm!AlertTypes, Alarm!PostType, Alarm!SeenType
<1>3. /\ s8' = [f \in AlarmConditions \cup AlarmErrors |-> Alarm!Unseen] /\ s10' = 0
      /\ s15' = s15 + Alarm!Held + s10 + Alarm!Flying
      /\ s12' = [c \in AlarmConditions |-> s12[c] \/ s7[c].at = "admitted"]
      /\ s7' = [src \in Alarm!Sources |-> IF s7[src].at = "admitted" THEN Alarm!NoPost
                  ELSE s7[src]]
      /\ UNCHANGED <<s1, s2, s3, s4, s5, s6, s11, s13, s14>>
  BY <1>2 DEF Alarm!RestartRelay, Alarm!sources
<1>4. Alarm!Held \in Nat /\ Alarm!Flying \in Nat BY <1>2, HeldNat, FlyingNat
<1>5. /\ s7' \in [Alarm!Sources -> Alarm!PostType]
      /\ \A src \in Alarm!Sources :
           /\ s7'[src].at # "admitted" /\ s7'[src].count = 0
           /\ s7'[src] = Alarm!NoPost \/ s7'[src] = s7[src]
  <2>1. \A src \in Alarm!Sources : s7[src].at # "admitted" => s7[src].count = 0
    BY DEF Alarm!IInv, Alarm!Counts
  <2> QED BY <1>2, <1>3, <2>1, NoPostIs
<1>6. /\ s8' \in [AlarmConditions \cup AlarmErrors -> Alarm!SeenType]
      /\ \A f \in AlarmConditions \cup AlarmErrors : s8'[f].at = None /\ s8'[f].held = 0
  BY <1>3 DEF Alarm!SeenType, Alarm!Unseen
<1>7. s12' \in [AlarmConditions -> BOOLEAN] BY <1>2, <1>3
<1>8. Alarm!AlertTypes'
  <2>1. s15' \in Nat /\ s10' \in Nat BY <1>2, <1>3, <1>4
  <2> QED
    BY <1>3, <1>5, <1>6, <1>7, <1>t, <2>1 DEF Alarm!AlertTypes, Alarm!PostType,
       Alarm!SeenType
<1>9. Alarm!Accounted'
  <2>1. Alarm!Flying' = 0 BY <1>5, FlyingNone
  <2>2. Alarm!Held' = 0 BY <1>6, HeldNone
  <2>3. s13' = s14' + s15' + s10' + Alarm!Held' + Alarm!Flying'
    BY <1>2, <1>3, <1>4, <1>t, <2>1, <2>2 DEF Alarm!Accounted
  <2> QED BY <2>3 DEF Alarm!Accounted
<1>10. \A src \in Alarm!Sources : Alarm!Counts(src)' BY <1>5 DEF Alarm!Counts
<1>11. s7'["api"] # Alarm!NoPost => s7'["api"].f \in AlarmErrors
  <2>1. "api" \in Alarm!Sources BY DEF Alarm!Sources
  <2> QED BY <1>5, <2>1 DEF Alarm!IInv
<1>12. ASSUME NEW c \in AlarmConditions PROVE Alarm!Chat(c)'
  <2>1. Alarm!Chat(c) /\ c \in Alarm!Sources BY DEF Alarm!IInv, Alarm!Sources
  <2>2. Alarm!Says(c)' BY <1>3, <1>5, <2>1 DEF Alarm!Chat, Alarm!Says
  <2>3. Alarm!Remembers(c)' BY <1>5, <1>6, <2>1 DEF Alarm!Remembers
  <2>4. s7'[c] = Alarm!NoPost /\ ~s12'[c] => s11'[c] = s4'[c]
    <3>1. s12'[c] <=> s12[c] \/ s7[c].at = "admitted" BY <1>2, <1>3
    <3>2. s7[c].at # "admitted" => s7'[c] = s7[c] BY <1>3, <2>1
    <3> QED BY <1>3, <2>1, <3>1, <3>2 DEF Alarm!Chat
  <2> QED BY <2>2, <2>3, <2>4 DEF Alarm!Chat
<1> QED BY <1>8, <1>9, <1>10, <1>11, <1>12 DEF Alarm!IInv

(* Every step keeps it. *)
LEMMA AlarmNext ==
  ASSUME Alarm!AlertsConstants, Alarm!IInv, [Alarm!Next]_(Alarm!vars)
  PROVE  Alarm!IInv'
<1>1. ASSUME NEW src \in Alarm!Sources, Alarm!Arrive(src) PROVE Alarm!IInv'
  BY <1>1, ReportHeld, ReportDropped, ReportAdmitted DEF Alarm!Arrive
<1>2. ASSUME NEW src \in Alarm!Sources, Alarm!Deliver(src) \/ Alarm!Lose(src)
      PROVE  Alarm!IInv'
  BY <1>2, ReportDelivered, ReportLost
<1>3. ASSUME NEW c \in AlarmConditions,
             Alarm!Changes(c) \/ Alarm!Check(c) \/ Alarm!RestartWatchdog(c)
      PROVE  Alarm!IInv'
  BY <1>3, AlarmApart, ConditionChecked, WatchdogRestarts
<1>4. ASSUME NEW err \in AlarmErrors, Alarm!Log(err) PROVE Alarm!IInv' BY <1>4, AlarmApart
<1>5. ASSUME Alarm!Tick \/ Alarm!Drain \/ Alarm!RestartRelay PROVE Alarm!IInv'
  BY <1>5, AlarmApart, ApiReports, RelayRestarts
<1>6. ASSUME UNCHANGED Alarm!vars PROVE Alarm!IInv'
  <2>1. /\ UNCHANGED <<s1, s2, s3, s4, s5, s6, s7, s8, s9, s10>>
        /\ UNCHANGED <<s11, s12, s13, s14, s15>>
    BY <1>6 DEF Alarm!vars, Alarm!relay, Alarm!sources, Alarm!chat
  <2>2. Alarm!AlertTypes' BY <2>1 DEF Alarm!IInv, Alarm!AlertTypes
  <2>3. \A c \in AlarmConditions : Alarm!Chat(c)'
    <3> SUFFICES ASSUME NEW c \in AlarmConditions PROVE Alarm!Chat(c)' OBVIOUS
    <3>1. Alarm!Chat(c) BY DEF Alarm!IInv
    <3> QED BY <2>1, <3>1, ChatRest
  <2> QED BY <2>1, <2>2, <2>3, Unreported
<1> QED BY <1>1, <1>2, <1>3, <1>4, <1>5, <1>6 DEF Alarm!Next

-----------------------------------------------------------------------------
(* Notices. Here s1 to s11 are status, lock, req, told, untold, day,       *)
(* stamp, call, sent, failed and late.                                     *)
NoticeNames == {"payments", "daily"}

(* It holds at first. *)
LEMMA NoticeInit ==
  ASSUME NEW name \in NoticeNames, Notice(name)!NoticesConstants, Notice(name)!Init
  PROVE  Notice(name)!IInv
<1>1. Notice(name)!Quiet.queue = << >> /\ Notice(name)!Quiet.at = "idle"
        /\ Notice(name)!Quiet.queue \in Seq(NoticeIntents[name])
  BY DEF Notice!Quiet
<1>2. Notice(name)!PaymentsInv
  <2>0. Notice(name)!IsInjective(<< >>) BY DEF Notice!IsInjective
  <2>1. \A r \in NoticeRequests[name] : Notice(name)!Draft(r)
    BY <1>1, <2>0 DEF Notice!Init, Notice!Draft, Notice!Holding, Notice!Waits,
       Notice!NoticesConstants
  <2>2. Notice(name)!PaymentsTold BY DEF Notice!Init, Notice!PaymentsTold
  <2> QED
    BY <1>1, <2>1, <2>2 DEF Notice!Init, Notice!PaymentsInv, Notice!ReqType, Notice!Open,
       Notice!Quiet
<1>3. Notice(name)!AlarmsInv
  <2>1. \A a \in NoticeAlarms[name] : \A d \in 1 .. NoticeDays[name] :
          Notice(name)!Claimed(a, d)
    BY DEF Notice!Init, Notice!Claimed, Notice!Sends, Notice!Calm
  <2> QED
    BY <2>1 DEF Notice!Init, Notice!AlarmsInv, Notice!CallType, Notice!OnceADay,
       Notice!Claims, Notice!Calm, Notice!NoticesConstants
<1> QED BY <1>2, <1>3 DEF Notice!IInv

(* A queue with an intent more, and one less. *)
LEMMA Lengthens ==
  ASSUME NEW name \in NoticeNames, NEW S, NEW q \in Seq(S),
         Notice(name)!IsInjective(q), NEW i \in S, i \notin Notice(name)!Range(q)
  PROVE  /\ Append(q, i) \in Seq(S) /\ Append(q, i) # << >>
              /\ Notice(name)!IsInjective(Append(q, i))
         /\ Notice(name)!Range(Append(q, i)) = Notice(name)!Range(q) \cup {i}
<1>1. PICK n \in Nat : n = Len(q) OBVIOUS
<1>2. PICK w : w = Append(q, i) OBVIOUS
<1>3. /\ w \in Seq(S) /\ Len(w) = n + 1 /\ w[n + 1] = i
      /\ \A k \in 1 .. n : w[k] = q[k]
  BY <1>1, <1>2
<1>4. \A k \in 1 .. n : q[k] \in Notice(name)!Range(q) /\ k \in 1 .. n + 1
  BY <1>1 DEF Notice!Range
<1>5. Notice(name)!IsInjective(w)
  <2> SUFFICES ASSUME NEW k \in 1 .. n + 1, NEW l \in 1 .. n + 1, w[k] = w[l] PROVE k = l
    BY <1>3 DEF Notice!IsInjective
  <2>1. CASE k \in 1 .. n /\ l \in 1 .. n BY <1>1, <1>3, <2>1 DEF Notice!IsInjective
  <2>2. CASE k = n + 1 \/ l = n + 1 BY <1>3, <1>4, <2>2
  <2> QED BY <1>1, <2>1, <2>2
<1>6. Notice(name)!Range(w) = Notice(name)!Range(q) \cup {i}
  <2>1. DOMAIN w = 1 .. n + 1 /\ DOMAIN q = 1 .. n BY <1>1, <1>3
  <2>2. 1 .. n + 1 = 1 .. n \cup {n + 1} BY <1>1
  <2> QED BY <1>3, <2>1, <2>2 DEF Notice!Range
<1>7. w # << >> BY <1>1, <1>3
<1> QED BY <1>2, <1>3, <1>5, <1>6, <1>7

LEMMA Shortens ==
  ASSUME NEW name \in NoticeNames, NEW S, NEW q \in Seq(S), Notice(name)!IsInjective(q), q # << >>
  PROVE  /\ Tail(q) \in Seq(S) /\ Notice(name)!IsInjective(Tail(q)) /\ Head(q) \in S
         /\ Notice(name)!Range(Tail(q)) = Notice(name)!Range(q) \ {Head(q)}
              /\ Head(q) \in Notice(name)!Range(q)
         /\ Len(q) = 1 => Notice(name)!Range(q) = {Head(q)}
         /\ Len(q) # 1 => Tail(q) # << >>
<1>1. PICK n \in Nat : n + 1 = Len(q) /\ n + 1 > 0
  <2>1. Len(q) \in Nat /\ Len(q) # 0 OBVIOUS
  <2>2. PICK n \in Nat : n = Len(q) - 1 BY <2>1
  <2>3. n + 1 = Len(q) /\ n + 1 > 0 BY <2>1, <2>2
  <2> QED BY <2>3
<1>2. PICK w : w = Tail(q) OBVIOUS
<1>3. /\ w \in Seq(S) /\ Len(w) = n /\ Head(q) = q[1] /\ q[1] \in S
      /\ \A k \in 1 .. n : w[k] = q[k + 1] /\ k + 1 \in 1 .. n + 1
  <2>1. w \in Seq(S) BY <1>2
  <2>2. Len(w) = n BY <1>1, <1>2
  <2>3. Head(q) = q[1] /\ q[1] \in S BY <1>1
  <2>4. ASSUME NEW k \in 1 .. n PROVE w[k] = q[k + 1] /\ k + 1 \in 1 .. n + 1
    BY <1>1, <1>2, <2>4
  <2> QED BY <2>1, <2>2, <2>3, <2>4
<1>4. DOMAIN w = 1 .. n /\ DOMAIN q = 1 .. n + 1 /\ 1 \in 1 .. n + 1 BY <1>1, <1>3
<1>5. Notice(name)!IsInjective(w)
  <2> SUFFICES ASSUME NEW k \in 1 .. n, NEW l \in 1 .. n, w[k] = w[l] PROVE k = l
    BY <1>4 DEF Notice!IsInjective
  <2>1. k + 1 = l + 1 BY <1>3, <1>4 DEF Notice!IsInjective
  <2> QED BY <2>1
<1>6. Notice(name)!Range(w) = Notice(name)!Range(q) \ {q[1]}
  <2>1. ASSUME NEW x \in Notice(name)!Range(w) PROVE x \in Notice(name)!Range(q) \ {q[1]}
    <3>1. PICK k \in 1 .. n : x = w[k] BY <1>4, <2>1 DEF Notice!Range
    <3>2. x = q[k + 1] /\ k + 1 \in 1 .. n + 1 /\ k + 1 # 1 BY <1>3, <3>1
    <3>3. q[k + 1] # q[1] BY <1>4, <3>2 DEF Notice!IsInjective
    <3> QED BY <1>4, <3>2, <3>3 DEF Notice!Range
  <2>2. ASSUME NEW x \in Notice(name)!Range(q), x # q[1] PROVE x \in Notice(name)!Range(w)
    <3>1. PICK k \in 1 .. n + 1 : x = q[k] BY <1>4, <2>2 DEF Notice!Range
    <3>2. k # 1 BY <2>2, <3>1
    <3>3. k - 1 \in 1 .. n /\ (k - 1) + 1 = k BY <3>1, <3>2
    <3>4. w[k - 1] = x BY <1>3, <3>1, <3>3
    <3> QED BY <1>4, <3>3, <3>4 DEF Notice!Range
  <2> QED BY <2>1, <2>2
<1>7. Len(q) = 1 => Notice(name)!Range(q) = {q[1]} BY <1>4, <1>1 DEF Notice!Range
<1>8. Len(q) # 1 => w # << >> BY <1>1, <1>3
<1>9. q[1] \in Notice(name)!Range(q) BY <1>4 DEF Notice!Range
<1> QED BY <1>2, <1>3, <1>5, <1>6, <1>7, <1>8, <1>9

(* The two halves share nothing. *)
LEMMA PaymentsRest ==
  ASSUME NEW name \in NoticeNames, Notice(name)!PaymentsInv, UNCHANGED Notice(name)!payments
  PROVE  Notice(name)!PaymentsInv'
  BY DEF Notice!PaymentsInv, Notice!ReqType, Notice!payments, Notice!PaymentsTold,
     Notice!Draft, Notice!Waits, Notice!Open, Notice!Queued, Notice!Holding

LEMMA AlarmsRest ==
  ASSUME NEW name \in NoticeNames, Notice(name)!AlarmsInv, UNCHANGED Notice(name)!alarms
  PROVE  Notice(name)!AlarmsInv'
  BY DEF Notice!AlarmsInv, Notice!CallType, Notice!alarms, Notice!OnceADay, Notice!Claims,
     Notice!Claimed, Notice!Sends

LEMMA QuietIs ==
  ASSUME NEW name \in NoticeNames
  PROVE  /\ Notice(name)!Quiet \in Notice(name)!ReqType
         /\ Notice(name)!Quiet.at = "idle" /\ Notice(name)!Quiet.route = None
              /\ Notice(name)!Quiet.queue = << >>
         /\ Notice(name)!IsInjective(<< >>) /\ Notice(name)!Range(<< >>) = {}
<1>1. << >> \in Seq(NoticeIntents[name]) OBVIOUS
<1>2. Notice(name)!IsInjective(<< >>) /\ Notice(name)!Range(<< >>) = {}
  BY DEF Notice!IsInjective, Notice!Range
<1> QED BY <1>1, <1>2 DEF Notice!Quiet, Notice!ReqType

(* A step of the request r that leaves it x: what has to be shown of it. *)
LEMMA RequestMoves ==
  ASSUME NEW name \in NoticeNames, Notice(name)!PaymentsInv, NEW r \in NoticeRequests[name],
         NEW x, s3' = [s3 EXCEPT ![r] = x],
         x \in Notice(name)!ReqType,
         s1' \in [NoticeIntents[name] -> {"pending", "succeeded"}],
         s2' \in [NoticeIntents[name] -> NoticeRequests[name] \cup {None}],
         s4' \in [NoticeIntents[name] -> Nat], s5' \in SUBSET NoticeIntents[name],
         \A i \in NoticeIntents[name] : Notice(name)!Open(i)', Notice(name)!PaymentsTold',
         Notice(name)!IsInjective(x.queue), x.at = "idle" => x = Notice(name)!Quiet,
         x.at # "open" => Notice(name)!Holding(r)' = {},
         x.at = "open" => Notice(name)!Range(x.queue) \subseteq Notice(name)!Holding(r)',
         x.at = "flush" => x.queue # << >>,
         \A i \in NoticeIntents[name] : x.at = "flush"
           /\ i \in Notice(name)!Range(x.queue) =>
           /\ s1'[i] = "succeeded" /\ i \notin s5'
           /\ \A o \in NoticeRequests[name] : Notice(name)!Waits(o, i) => o = r,
         \A o \in NoticeRequests[name] \ {r} :
           Notice(name)!Holding(o)' = Notice(name)!Holding(o),
         \A i \in NoticeIntents[name] :
           (\E o \in NoticeRequests[name] \ {r} : Notice(name)!Waits(o, i)) =>
           s1'[i] = s1[i] /\ (i \notin s5 => i \notin s5')
  PROVE  Notice(name)!PaymentsInv'
<1>1. s3' \in [NoticeRequests[name] -> Notice(name)!ReqType]
  BY DEF Notice!PaymentsInv, Notice!ReqType
<1>2. s3'[r] = x /\ \A o \in NoticeRequests[name] : o # r => s3'[o] = s3[o]
  BY DEF Notice!PaymentsInv, Notice!ReqType
<1>3. \A o \in NoticeRequests[name] : \A i : Notice(name)!Waits(o, i)' <=>
        IF o = r THEN x.at = "flush" /\ i \in Notice(name)!Range(x.queue)
          ELSE Notice(name)!Waits(o, i)
  BY <1>2 DEF Notice!Waits, Notice!Queued
<1>4. Notice(name)!Draft(r)'
  BY <1>2, <1>3 DEF Notice!Draft, Notice!Queued
<1>5. ASSUME NEW o \in NoticeRequests[name] \ {r} PROVE Notice(name)!Draft(o)'
  <2>1. Notice(name)!Draft(o) /\ s3'[o] = s3[o]
    BY <1>2 DEF Notice!PaymentsInv, Notice!ReqType
  <2>2. \A i \in NoticeIntents[name] : Notice(name)!Waits(o, i)' =>
          /\ s1'[i] = "succeeded" /\ i \notin s5'
          /\ \A q \in NoticeRequests[name] : Notice(name)!Waits(q, i)' => q = o
    BY <1>3, <2>1 DEF Notice!Draft
  <2> QED BY <2>1, <2>2 DEF Notice!Draft, Notice!Queued
<1>6. \A o \in NoticeRequests[name] : Notice(name)!Draft(o)' BY <1>4, <1>5
<1> QED BY <1>1, <1>6 DEF Notice!PaymentsInv, Notice!ReqType

(* A request begins, *)
LEMMA NoticeBegins ==
  ASSUME NEW name \in NoticeNames, Notice(name)!NoticesConstants,
         Notice(name)!PaymentsInv, NEW r \in NoticeRequests[name],
         NEW route \in Notice(name)!Routes,
         Notice(name)!Begin(r, route)
  PROVE  Notice(name)!PaymentsInv'
<1>1. PICK x : x = [Notice(name)!Quiet EXCEPT !.at = "open", !.route = route] OBVIOUS
<1>2. /\ s3' = [s3 EXCEPT ![r] = x] /\ UNCHANGED <<s1, s2, s4, s5>>
      /\ s3[r] = Notice(name)!Quiet
  BY <1>1 DEF Notice!Begin, Notice!PaymentsInv, Notice!ReqType
<1>3. /\ x \in Notice(name)!ReqType
      /\ x.at = "open" /\ x.queue = << >>
  BY <1>1, QuietIs DEF Notice!ReqType
<1>4. Notice(name)!IsInjective(x.queue) /\ Notice(name)!Range(x.queue) = {}
  BY <1>3 DEF Notice!IsInjective, Notice!Range
<1>5. \A o \in NoticeRequests[name] : \A i \in NoticeIntents[name] :
        Notice(name)!Waits(o, i)' <=> Notice(name)!Waits(o, i)
  BY <1>2, <1>3 DEF Notice!Waits, Notice!PaymentsInv, Notice!ReqType, Notice!Quiet,
     Notice!Queued
<1>6. Notice(name)!PaymentsTold'
  BY <1>2, <1>5 DEF Notice!PaymentsTold, Notice!PaymentsInv, Notice!ReqType, Notice!Waits
<1>7. \A i \in NoticeIntents[name] : Notice(name)!Open(i)'
  BY <1>2 DEF Notice!Open, Notice!PaymentsInv, Notice!ReqType
<1>8. \A o \in NoticeRequests[name] : Notice(name)!Holding(o)' = Notice(name)!Holding(o)
  BY <1>2 DEF Notice!Holding
<1>9. /\ s1' \in [NoticeIntents[name] -> {"pending", "succeeded"}]
      /\ s2' \in [NoticeIntents[name] -> NoticeRequests[name] \cup {None}]
      /\ s4' \in [NoticeIntents[name] -> Nat] /\ s5' \in SUBSET NoticeIntents[name]
  BY <1>2 DEF Notice!PaymentsInv, Notice!ReqType
<1> QED BY <1>2, <1>3, <1>4, <1>6, <1>7, <1>8, <1>9, RequestMoves

(* takes one more intent, *)
LEMMA NoticeFulfils ==
  ASSUME NEW name \in NoticeNames, Notice(name)!NoticesConstants,
         Notice(name)!PaymentsInv, NEW r \in NoticeRequests[name],
         NEW i \in NoticeIntents[name],
         Notice(name)!Fulfil(r, i) \/ Notice(name)!FulfilFails(r, i)
  PROVE  Notice(name)!PaymentsInv'
<1>t. /\ s3[r].at = "open" /\ s2[i] = None /\ s1[i] = "pending" /\ Notice(name)!Draft(r)
      /\ Notice(name)!Queued(r) \subseteq Notice(name)!Holding(r)
      /\ s3[r] \in Notice(name)!ReqType
  BY DEF Notice!Fulfil, Notice!FulfilFails, Notice!PaymentsInv, Notice!ReqType, Notice!Draft
<1>1. /\ s2' = [s2 EXCEPT ![i] = r] /\ UNCHANGED <<s1, s4, s5>>
  BY DEF Notice!Fulfil, Notice!FulfilFails, Notice!Queue
<1>2. i \notin Notice(name)!Queued(r) BY <1>t DEF Notice!Holding, Notice!NoticesConstants
<1>3. PICK q : /\ s3' = [s3 EXCEPT ![r] = [s3[r] EXCEPT !.queue = q]]
               /\ q = s3[r].queue \/ q = Append(s3[r].queue, i)
  <2>1. CASE Notice(name)!Fulfil(r, i)
    <3>1. PICK q : q = Append(s3[r].queue, i) OBVIOUS
    <3>2. s3' = [s3 EXCEPT ![r] = [s3[r] EXCEPT !.queue = q]]
      BY <2>1, <3>1 DEF Notice!Fulfil, Notice!Queue, Notice!PaymentsInv, Notice!ReqType
    <3> QED BY <3>1, <3>2
  <2>2. CASE Notice(name)!FulfilFails(r, i)
    <3>1. PICK q : q = s3[r].queue OBVIOUS
    <3>2. [s3[r] EXCEPT !.queue = q] = s3[r] BY <1>t, <3>1 DEF Notice!ReqType
    <3>3. s3' = [s3 EXCEPT ![r] = [s3[r] EXCEPT !.queue = q]]
      BY <2>2, <3>2 DEF Notice!FulfilFails, Notice!PaymentsInv, Notice!ReqType
    <3> QED BY <3>1, <3>3
  <2> QED BY <2>1, <2>2
<1>4. q \in Seq(NoticeIntents[name]) /\ Notice(name)!IsInjective(q)
        /\ Notice(name)!Range(q) \subseteq Notice(name)!Queued(r) \cup {i}
  <2>1. PICK w : w = s3[r].queue OBVIOUS
  <2>2. w \in Seq(NoticeIntents[name]) /\ Notice(name)!IsInjective(w)
          /\ i \notin Notice(name)!Range(w)
               /\ Notice(name)!Range(w) = Notice(name)!Queued(r)
    BY <1>t, <1>2, <2>1 DEF Notice!Draft, Notice!Queued, Notice!ReqType
  <2>3. CASE q = w BY <2>2, <2>3
  <2>4. CASE q = Append(w, i) BY <2>2, <2>4, Lengthens
  <2> QED BY <1>3, <2>1, <2>3, <2>4
<1>5. PICK x : x = [s3[r] EXCEPT !.queue = q] OBVIOUS
<1>6. /\ x \in Notice(name)!ReqType
      /\ x.at = "open" /\ x.queue = q
  BY <1>t, <1>4, <1>5 DEF Notice!ReqType
<1>7. \A o \in NoticeRequests[name] : \A k \in NoticeIntents[name] :
        Notice(name)!Waits(o, k)' <=> Notice(name)!Waits(o, k)
  BY <1>t, <1>3, <1>5, <1>6 DEF Notice!Waits, Notice!PaymentsInv, Notice!ReqType,
     Notice!Queued
<1>8. Notice(name)!PaymentsTold'
  BY <1>1, <1>7 DEF Notice!PaymentsTold, Notice!PaymentsInv, Notice!ReqType, Notice!Waits
<1>9. \A k \in NoticeIntents[name] : Notice(name)!Open(k)'
  BY <1>1, <1>t DEF Notice!Open, Notice!PaymentsInv, Notice!ReqType
<1>10. /\ Notice(name)!Holding(r)' = Notice(name)!Holding(r) \cup {i}
       /\ \A o \in NoticeRequests[name] \ {r} :
            Notice(name)!Holding(o)' = Notice(name)!Holding(o)
  BY <1>1, <1>t DEF Notice!Holding, Notice!PaymentsInv, Notice!ReqType,
     Notice!NoticesConstants
<1>11. /\ s1' \in [NoticeIntents[name] -> {"pending", "succeeded"}]
       /\ s2' \in [NoticeIntents[name] -> NoticeRequests[name] \cup {None}]
       /\ s4' \in [NoticeIntents[name] -> Nat] /\ s5' \in SUBSET NoticeIntents[name]
  BY <1>1 DEF Notice!PaymentsInv, Notice!ReqType
<1>12. Notice(name)!Range(x.queue) \subseteq Notice(name)!Holding(r)'
  BY <1>t, <1>4, <1>6, <1>10
<1>13. s3' = [s3 EXCEPT ![r] = x] BY <1>3, <1>5
<1> QED BY <1>1, <1>4, <1>6, <1>8, <1>9, <1>10, <1>11, <1>12, <1>13, RequestMoves

(* commits and tells the first of what it took, *)
LEMMA NoticeCommitted ==
  ASSUME NEW name \in NoticeNames, Notice(name)!NoticesConstants,
         Notice(name)!PaymentsInv, NEW r \in NoticeRequests[name],
         Notice(name)!CommitWithTelegram(r) \/ Notice(name)!CommitPlayback(r)
  PROVE  Notice(name)!PaymentsInv'
<1>t. /\ s3[r].at = "open" /\ Notice(name)!Queued(r) # {} /\ Notice(name)!Draft(r)
           /\ Notice(name)!Queued(r) \subseteq Notice(name)!Holding(r)
      /\ s3[r] \in Notice(name)!ReqType
      /\ None \notin NoticeRequests[name]
  BY DEF Notice!CommitWithTelegram, Notice!CommitPlayback, Notice!Commits,
     Notice!PaymentsInv, Notice!ReqType, Notice!Draft, Notice!NoticesConstants
<1>1. /\ s1' = [i \in NoticeIntents[name] |->
                  IF i \in Notice(name)!Holding(r) THEN "succeeded" ELSE s1[i]]
      /\ s2' = [i \in NoticeIntents[name] |-> IF s2[i] = r THEN None ELSE s2[i]]
      /\ UNCHANGED s4
  BY DEF Notice!CommitWithTelegram, Notice!CommitPlayback, Notice!Commits, Notice!Release
<1>2. PICK x : /\ s3' = [s3 EXCEPT ![r] = x]
               /\ \/ x = Notice(name)!Quiet /\ s5' = s5 \cup Notice(name)!Holding(r)
                  \/ x = [s3[r] EXCEPT !.at = "flush"]
                     /\ s5' = s5 \cup (Notice(name)!Holding(r) \ Notice(name)!Queued(r))
  <2>1. CASE Notice(name)!CommitWithTelegram(r)
    <3>1. PICK x : x = [s3[r] EXCEPT !.at = "flush"] OBVIOUS
    <3>2. s3' = [s3 EXCEPT ![r] = x]
      BY <2>1, <3>1 DEF Notice!CommitWithTelegram, Notice!PaymentsInv, Notice!ReqType
    <3> QED BY <2>1, <3>1, <3>2 DEF Notice!CommitWithTelegram
  <2>2. CASE Notice(name)!CommitPlayback(r) BY <2>2 DEF Notice!CommitPlayback
  <2> QED BY <2>1, <2>2
<1>3. /\ x \in Notice(name)!ReqType
      /\ x = Notice(name)!Quiet \/ (x.at = "flush" /\ x.queue = s3[r].queue)
      /\ Notice(name)!Quiet.at = "idle" /\ Notice(name)!Quiet.queue = << >>
  BY <1>t, <1>2, QuietIs DEF Notice!ReqType
<1>4. Notice(name)!IsInjective(<< >>) /\ Notice(name)!Range(<< >>) = {} BY QuietIs
<1>5. Notice(name)!IsInjective(x.queue) /\ x.at # "open"
        /\ (x.at = "idle" => x = Notice(name)!Quiet)
      /\ (x.at = "flush"
            => x.queue # << >> /\ Notice(name)!Range(x.queue) = Notice(name)!Queued(r))
  BY <1>t, <1>3, <1>4 DEF Notice!Draft, Notice!Queued
<1>6. \A i \in Notice(name)!Holding(r) : /\ i \in NoticeIntents[name] /\ s1[i] = "pending"
                                           /\ i \notin s5
                                         /\ s4[i] = 0 /\ \A o \in NoticeRequests[name] :
                                              ~Notice(name)!Waits(o, i)
  <2> SUFFICES ASSUME NEW i \in Notice(name)!Holding(r)
               PROVE  /\ i \in NoticeIntents[name] /\ s1[i] = "pending" /\ i \notin s5
                      /\ s4[i] = 0 /\ \A o \in NoticeRequests[name] :
                           ~Notice(name)!Waits(o, i)
    OBVIOUS
  <2>1. i \in NoticeIntents[name] /\ s2[i] = r BY DEF Notice!Holding
  <2>2. s1[i] = "pending" /\ i \notin s5
    BY <1>t, <2>1 DEF Notice!PaymentsInv, Notice!ReqType, Notice!Open
  <2>3. s4[i] = 0 BY <2>1, <2>2 DEF Notice!PaymentsInv, Notice!ReqType, Notice!PaymentsTold
  <2>4. \A o \in NoticeRequests[name] : ~Notice(name)!Waits(o, i)
    BY <2>1, <2>2 DEF Notice!PaymentsInv, Notice!ReqType, Notice!Draft
  <2> QED BY <2>1, <2>2, <2>3, <2>4
<1>7. \A o \in NoticeRequests[name] : \A i \in NoticeIntents[name] :
        Notice(name)!Waits(o, i)' <=>
        Notice(name)!Waits(o, i)
          \/ (o = r /\ x.at = "flush" /\ i \in Notice(name)!Queued(r))
  <2>1. \A i : ~Notice(name)!Waits(r, i) BY <1>t DEF Notice!Waits
  <2>2. \A i : Notice(name)!Waits(r, i)' <=> x.at = "flush"
          /\ i \in Notice(name)!Range(x.queue)
    BY <1>2 DEF Notice!Waits, Notice!Queued, Notice!PaymentsInv, Notice!ReqType
  <2>3. \A o \in NoticeRequests[name] \ {r} : \A i :
          Notice(name)!Waits(o, i)' <=> Notice(name)!Waits(o, i)
    BY <1>2 DEF Notice!Waits, Notice!Queued, Notice!PaymentsInv, Notice!ReqType
  <2> QED BY <1>5, <2>1, <2>2, <2>3
<1>8. /\ s5 \subseteq s5' /\ s5' \subseteq s5 \cup Notice(name)!Holding(r)
      /\ \A i \in Notice(name)!Holding(r) :
           i \in s5' <=> ~(x.at = "flush" /\ i \in Notice(name)!Queued(r))
  BY <1>2, <1>3, <1>6 DEF Notice!ReqType
<1>9. Notice(name)!PaymentsTold'
  <2> SUFFICES ASSUME NEW i \in NoticeIntents[name]
               PROVE  IF s1'[i] = "succeeded"
                        THEN IF (\E o \in NoticeRequests[name] : Notice(name)!Waits(o, i)')
                          \/ i \in s5'
                               THEN s4'[i] = 0 ELSE s4'[i] = 1
                        ELSE s4'[i] = 0
    BY DEF Notice!PaymentsTold, Notice!Waits
  <2>1. CASE i \in Notice(name)!Holding(r) BY <1>1, <1>6, <1>7, <1>8, <2>1
  <2>2. CASE i \notin Notice(name)!Holding(r)
    <3>1. (i \in s5' <=> i \in s5) /\ s1'[i] = s1[i] /\ s4'[i] = s4[i]
      BY <1>1, <1>8, <2>2
    <3>2. \A o \in NoticeRequests[name] :
            Notice(name)!Waits(o, i)' <=> Notice(name)!Waits(o, i)
      BY <1>t, <1>7, <2>2
    <3> QED
      BY <3>1, <3>2 DEF Notice!PaymentsInv, Notice!ReqType, Notice!PaymentsTold,
         Notice!Waits
  <2> QED BY <2>1, <2>2
<1>10. \A i \in NoticeIntents[name] : Notice(name)!Open(i)'
  BY <1>1, <1>8 DEF Notice!Open, Notice!PaymentsInv, Notice!ReqType, Notice!Holding
<1>11. /\ Notice(name)!Holding(r)' = {}
       /\ \A o \in NoticeRequests[name] \ {r} :
            Notice(name)!Holding(o)' = Notice(name)!Holding(o)
  BY <1>1, <1>t DEF Notice!Holding
<1>12. /\ s1' \in [NoticeIntents[name] -> {"pending", "succeeded"}]
       /\ s2' \in [NoticeIntents[name] -> NoticeRequests[name] \cup {None}]
       /\ s4' \in [NoticeIntents[name] -> Nat] /\ s5' \in SUBSET NoticeIntents[name]
  BY <1>1, <1>6, <1>8 DEF Notice!PaymentsInv, Notice!ReqType
<1>13. \A i \in NoticeIntents[name] : x.at = "flush" /\ i \in Notice(name)!Range(x.queue) =>
         /\ s1'[i] = "succeeded" /\ i \notin s5'
         /\ \A o \in NoticeRequests[name] : Notice(name)!Waits(o, i) => o = r
  BY <1>t, <1>1, <1>5, <1>6, <1>8
<1>14. \A i \in NoticeIntents[name] :
         (\E o \in NoticeRequests[name] \ {r} : Notice(name)!Waits(o, i)) =>
         s1'[i] = s1[i] /\ (i \notin s5 => i \notin s5')
  BY <1>1, <1>6, <1>8
<1> QED BY <1>2, <1>3, <1>5, <1>9, <1>10, <1>11, <1>12, <1>13, <1>14, RequestMoves

(* The head of the queue is told or lost. *)
LEMMA NoticeFlushed ==
  ASSUME NEW name \in NoticeNames, Notice(name)!NoticesConstants,
         Notice(name)!PaymentsInv, NEW r \in NoticeRequests[name], NEW ok \in BOOLEAN,
         Notice(name)!Flush(r, ok)
  PROVE  Notice(name)!PaymentsInv'
<1>1. PICK q, i : q = s3[r].queue /\ i = Head(q) OBVIOUS
<1>t. /\ s3[r].at = "flush" /\ q \in Seq(NoticeIntents[name]) /\ q # << >>
           /\ Notice(name)!Draft(r)
      /\ Notice(name)!IsInjective(q) /\ Notice(name)!Range(q) = Notice(name)!Queued(r)
           /\ Notice(name)!Holding(r) = {}
      /\ s3[r] \in Notice(name)!ReqType
      /\ UNCHANGED <<s1, s2>>
      /\ s4' = IF ok THEN [s4 EXCEPT ![i] = @ + 1] ELSE s4
      /\ s5' = IF ok THEN s5 ELSE s5 \cup {i}
  BY <1>1 DEF Notice!Flush, Notice!PaymentsInv, Notice!ReqType, Notice!Draft, Notice!Queued
<1>2. /\ Tail(q) \in Seq(NoticeIntents[name]) /\ Notice(name)!IsInjective(Tail(q))
           /\ i \in NoticeIntents[name]
      /\ Notice(name)!Range(Tail(q)) = Notice(name)!Queued(r) \ {i}
           /\ i \in Notice(name)!Queued(r)
      /\ Len(q) = 1 => Notice(name)!Queued(r) = {i}
      /\ Len(q) # 1 => Tail(q) # << >>
  <2>1. /\ Tail(q) \in Seq(NoticeIntents[name]) /\ Notice(name)!IsInjective(Tail(q))
             /\ Head(q) \in NoticeIntents[name]
        /\ Notice(name)!Range(Tail(q)) = Notice(name)!Range(q) \ {Head(q)}
             /\ Head(q) \in Notice(name)!Range(q)
        /\ Len(q) = 1 => Notice(name)!Range(q) = {Head(q)}
        /\ Len(q) # 1 => Tail(q) # << >>
    BY <1>t, Shortens
  <2> QED BY <1>1, <1>t, <2>1
<1>3. PICK x : /\ s3' = [s3 EXCEPT ![r] = x]
               /\ x = IF Len(q) = 1 THEN Notice(name)!Quiet
                    ELSE [s3[r] EXCEPT !.queue = Tail(q)]
  <2>1. PICK x : x = IF Len(q) = 1 THEN Notice(name)!Quiet
                   ELSE [s3[r] EXCEPT !.queue = Tail(q)]
    OBVIOUS
  <2>2. x = IF Len(s3[r].queue) = 1 THEN Notice(name)!Quiet
            ELSE [s3[r] EXCEPT !.queue = Tail(s3[r].queue)]
    BY <1>1, <2>1
  <2>3. s3' = [s3 EXCEPT ![r] = x] BY ONLY <2>2, Notice(name)!Flush(r, ok) DEF Notice!Flush
  <2> QED BY <2>1, <2>3
<1>4. /\ x \in Notice(name)!ReqType
      /\ Notice(name)!IsInjective(x.queue) /\ x.at # "open"
           /\ (x.at = "idle" => x = Notice(name)!Quiet)
      /\ (x.at = "flush"
            => x.queue # << >>
              /\ Notice(name)!Range(x.queue) = Notice(name)!Queued(r) \ {i})
      /\ (x.at = "idle" => Notice(name)!Queued(r) = {i})
  <2>1. CASE Len(q) = 1 BY <1>2, <1>3, <2>1, QuietIs
  <2>2. CASE Len(q) # 1 BY <1>t, <1>2, <1>3, <2>2 DEF Notice!ReqType
  <2> QED BY <2>1, <2>2
<1>5. /\ \A k \in Notice(name)!Queued(r) : k \in NoticeIntents[name]
      /\ \A k \in NoticeIntents[name] : k \in Notice(name)!Queued(r) =>
           /\ s1[k] = "succeeded" /\ k \notin s5 /\ s4[k] = 0
           /\ \A o \in NoticeRequests[name] : Notice(name)!Waits(o, k) => o = r
  <2>1. \A k \in Notice(name)!Queued(r) : k \in NoticeIntents[name]
    <3>1. \A k \in Notice(name)!Range(Tail(q)) : k \in NoticeIntents[name]
      BY <1>2 DEF Notice!Range
    <3> QED BY <1>2, <3>1
  <2>2. ASSUME NEW k \in NoticeIntents[name], k \in Notice(name)!Queued(r)
        PROVE  /\ s1[k] = "succeeded" /\ k \notin s5 /\ s4[k] = 0
               /\ \A o \in NoticeRequests[name] : Notice(name)!Waits(o, k) => o = r
    <3>1. Notice(name)!Waits(r, k) BY <1>t, <2>2 DEF Notice!Waits
    <3>2. s1[k] = "succeeded" /\ k \notin s5 /\ \A o \in NoticeRequests[name] :
            Notice(name)!Waits(o, k) => o = r
      BY <1>t, <3>1 DEF Notice!Draft
    <3>3. s4[k] = 0
      BY <3>1, <3>2 DEF Notice!PaymentsInv, Notice!ReqType, Notice!PaymentsTold,
         Notice!Waits
    <3> QED BY <3>2, <3>3
  <2> QED BY <2>1, <2>2
<1>6. \A o \in NoticeRequests[name] : \A k \in NoticeIntents[name] :
        Notice(name)!Waits(o, k)' <=> Notice(name)!Waits(o, k) /\ k # i
  <2>1. \A k \in NoticeIntents[name] : Notice(name)!Waits(r, k)' <=> x.at = "flush"
          /\ k \in Notice(name)!Range(x.queue)
    BY <1>3 DEF Notice!Waits, Notice!Queued, Notice!PaymentsInv, Notice!ReqType
  <2>2. \A k \in NoticeIntents[name] :
          Notice(name)!Waits(r, k)' <=> Notice(name)!Waits(r, k) /\ k # i
    BY <1>t, <1>4, <2>1 DEF Notice!Waits, Notice!ReqType
  <2>3. \A o \in NoticeRequests[name] \ {r} : \A k :
          Notice(name)!Waits(o, k)' <=> Notice(name)!Waits(o, k)
    BY <1>3 DEF Notice!Waits, Notice!Queued, Notice!PaymentsInv, Notice!ReqType
  <2>4. \A o \in NoticeRequests[name] \ {r} : ~Notice(name)!Waits(o, i) BY <1>2, <1>5
  <2> QED BY <2>2, <2>3, <2>4
<1>7. /\ s4' \in [NoticeIntents[name] -> Nat] /\ s5' \in SUBSET NoticeIntents[name]
      /\ s4'[i] = IF ok THEN 1 ELSE 0
      /\ i \in s5' <=> ~ok
      /\ \A k \in NoticeIntents[name] \ {i} : s4'[k] = s4[k] /\ (k \in s5' <=> k \in s5)
  BY <1>t, <1>2, <1>5 DEF Notice!PaymentsInv, Notice!ReqType
<1>8. Notice(name)!PaymentsTold'
  <2> SUFFICES ASSUME NEW k \in NoticeIntents[name]
               PROVE  IF s1'[k] = "succeeded"
                        THEN IF (\E o \in NoticeRequests[name] : Notice(name)!Waits(o, k)')
                          \/ k \in s5'
                               THEN s4'[k] = 0 ELSE s4'[k] = 1
                        ELSE s4'[k] = 0
    BY DEF Notice!PaymentsTold, Notice!Waits
  <2>1. CASE k = i
    <3>1. s1'[k] = "succeeded" /\ ~\E o \in NoticeRequests[name] : Notice(name)!Waits(o, k)'
      BY <1>t, <1>2, <1>5, <1>6, <2>1
    <3> QED BY <1>7, <2>1, <3>1
  <2>2. CASE k # i
    <3>1. (k \in s5' <=> k \in s5) /\ s1'[k] = s1[k] /\ s4'[k] = s4[k]
      BY <1>t, <1>7, <2>2
    <3>2. \A o \in NoticeRequests[name] :
            Notice(name)!Waits(o, k)' <=> Notice(name)!Waits(o, k)
      BY <1>6, <2>2
    <3> QED
      BY <3>1, <3>2 DEF Notice!PaymentsInv, Notice!ReqType, Notice!PaymentsTold,
         Notice!Waits
  <2> QED BY <2>1, <2>2
<1>9. \A k \in NoticeIntents[name] : Notice(name)!Open(k)'
  <2>1. s1[i] = "succeeded" BY <1>2, <1>5
  <2> QED BY <1>t, <1>7, <2>1 DEF Notice!Open, Notice!PaymentsInv, Notice!ReqType
<1>10. \A o \in NoticeRequests[name] : Notice(name)!Holding(o)' = Notice(name)!Holding(o)
  BY <1>t DEF Notice!Holding
<1>11. \A k \in NoticeIntents[name] : x.at = "flush" /\ k \in Notice(name)!Range(x.queue) =>
         /\ s1'[k] = "succeeded" /\ k \notin s5'
         /\ \A o \in NoticeRequests[name] : Notice(name)!Waits(o, k) => o = r
  BY <1>t, <1>4, <1>5, <1>7
<1>12. \A k \in NoticeIntents[name] :
         (\E o \in NoticeRequests[name] \ {r} : Notice(name)!Waits(o, k)) =>
         s1'[k] = s1[k] /\ (k \notin s5 => k \notin s5')
  BY <1>t, <1>2, <1>5, <1>7
<1>13. s1' \in [NoticeIntents[name] -> {"pending", "succeeded"}]
       /\ s2' \in [NoticeIntents[name] -> NoticeRequests[name] \cup {None}]
  BY <1>t DEF Notice!PaymentsInv, Notice!ReqType
<1>14. /\ x.at # "open" => Notice(name)!Holding(r)' = {}
       /\ x.at = "open" => Notice(name)!Range(x.queue) \subseteq Notice(name)!Holding(r)'
       /\ x.at = "flush" => x.queue # << >>
       /\ \A o \in NoticeRequests[name] \ {r} :
            Notice(name)!Holding(o)' = Notice(name)!Holding(o)
  BY <1>t, <1>4, <1>10
<1>15. s4' \in [NoticeIntents[name] -> Nat] /\ s5' \in SUBSET NoticeIntents[name] BY <1>7
<1>16. Notice(name)!IsInjective(x.queue) /\ (x.at = "idle" => x = Notice(name)!Quiet)
  BY <1>4
<1>17. s3' = [s3 EXCEPT ![r] = x]
       /\ x \in Notice(name)!ReqType
  BY <1>3, <1>4
<1> QED BY <1>8, <1>9, <1>11, <1>12, <1>13, <1>14, <1>15, <1>16, <1>17, RequestMoves

(* and ends or dies. *)
LEMMA NoticeEnded ==
  ASSUME NEW name \in NoticeNames, Notice(name)!NoticesConstants,
         Notice(name)!PaymentsInv, NEW r \in NoticeRequests[name], Notice(name)!End(r)
  PROVE  Notice(name)!PaymentsInv'
<1>t. /\ Notice(name)!Draft(r) /\ None \notin NoticeRequests[name] /\ UNCHANGED <<s1, s4>>
      /\ s2' = [i \in NoticeIntents[name] |-> IF s2[i] = r THEN None ELSE s2[i]]
      /\ s5' = IF s3[r].at = "flush" THEN s5 \cup Notice(name)!Queued(r) ELSE s5
      /\ s3' = [s3 EXCEPT ![r] = Notice(name)!Quiet]
      /\ s3[r].queue \in Seq(NoticeIntents[name])
  BY DEF Notice!End, Notice!Release, Notice!PaymentsInv, Notice!ReqType,
     Notice!NoticesConstants
<1>1. /\ \A k \in Notice(name)!Queued(r) : k \in NoticeIntents[name]
      /\ s5' \in SUBSET NoticeIntents[name] /\ s5 \subseteq s5'
      /\ \A k \in NoticeIntents[name] : k \in s5' <=> k \in s5 \/ Notice(name)!Waits(r, k)
  <2>1. \A k \in Notice(name)!Queued(r) : k \in NoticeIntents[name]
    BY <1>t DEF Notice!Queued, Notice!Range
  <2> QED BY <1>t, <2>1 DEF Notice!Waits, Notice!PaymentsInv, Notice!ReqType
<1>2. \A k \in NoticeIntents[name] : Notice(name)!Waits(r, k) =>
         s1[k] = "succeeded" /\ \A o \in NoticeRequests[name] : Notice(name)!Waits(o, k)
           => o = r
  BY <1>t DEF Notice!Draft
<1>3. \A o \in NoticeRequests[name] : \A k \in NoticeIntents[name] :
        Notice(name)!Waits(o, k)' <=> Notice(name)!Waits(o, k) /\ o # r
  <2>1. \A k : ~Notice(name)!Waits(r, k)'
    BY <1>t, QuietIs DEF Notice!Waits, Notice!PaymentsInv, Notice!ReqType
  <2>2. \A o \in NoticeRequests[name] \ {r} : \A k :
          Notice(name)!Waits(o, k)' <=> Notice(name)!Waits(o, k)
    BY <1>t DEF Notice!Waits, Notice!Queued, Notice!PaymentsInv, Notice!ReqType
  <2> QED BY <2>1, <2>2
<1>4. Notice(name)!PaymentsTold'
  <2> SUFFICES ASSUME NEW k \in NoticeIntents[name]
               PROVE  IF s1'[k] = "succeeded"
                        THEN IF (\E o \in NoticeRequests[name] : Notice(name)!Waits(o, k)')
                          \/ k \in s5'
                               THEN s4'[k] = 0 ELSE s4'[k] = 1
                        ELSE s4'[k] = 0
    BY DEF Notice!PaymentsTold, Notice!Waits
  <2>1. s1'[k] = s1[k] /\ s4'[k] = s4[k] BY <1>t
  <2>2. ((\E o \in NoticeRequests[name] : Notice(name)!Waits(o, k)') \/ k \in s5')
          <=> ((\E o \in NoticeRequests[name] : Notice(name)!Waits(o, k)) \/ k \in s5)
    BY <1>1, <1>3
  <2> QED
    BY <2>1, <2>2 DEF Notice!PaymentsInv, Notice!ReqType, Notice!PaymentsTold, Notice!Waits
<1>5. \A k \in NoticeIntents[name] : Notice(name)!Open(k)'
  BY <1>t, <1>1, <1>2 DEF Notice!Open, Notice!PaymentsInv, Notice!ReqType
<1>6. /\ Notice(name)!Holding(r)' = {}
      /\ \A o \in NoticeRequests[name] \ {r} :
           Notice(name)!Holding(o)' = Notice(name)!Holding(o)
  BY <1>t DEF Notice!Holding
<1>7. /\ s1' \in [NoticeIntents[name] -> {"pending", "succeeded"}]
      /\ s2' \in [NoticeIntents[name] -> NoticeRequests[name] \cup {None}]
           /\ s4' \in [NoticeIntents[name] -> Nat]
  BY <1>t DEF Notice!PaymentsInv, Notice!ReqType
<1>8. \A k \in NoticeIntents[name] :
        (\E o \in NoticeRequests[name] \ {r} : Notice(name)!Waits(o, k)) =>
         s1'[k] = s1[k] /\ (k \notin s5 => k \notin s5')
  BY <1>t, <1>1, <1>2
<1>9. PICK x : x = Notice(name)!Quiet OBVIOUS
<1>10. /\ x \in Notice(name)!ReqType
       /\ x.at = "idle" /\ Notice(name)!IsInjective(x.queue) /\ x = Notice(name)!Quiet
  BY <1>9, QuietIs
<1>11. s3' = [s3 EXCEPT ![r] = x] BY <1>t, <1>9
<1>12. s5' \in SUBSET NoticeIntents[name] BY <1>1
<1>13. /\ x.at # "open" => Notice(name)!Holding(r)' = {}
       /\ x.at = "open" => Notice(name)!Range(x.queue) \subseteq Notice(name)!Holding(r)'
       /\ x.at = "flush" => x.queue # << >>
       /\ \A i \in NoticeIntents[name] : x.at = "flush"
            /\ i \in Notice(name)!Range(x.queue) =>
            /\ s1'[i] = "succeeded" /\ i \notin s5'
            /\ \A o \in NoticeRequests[name] : Notice(name)!Waits(o, i) => o = r
  BY <1>6, <1>10
<1> QED BY <1>4, <1>5, <1>6, <1>7, <1>8, <1>10, <1>11, <1>12, <1>13, RequestMoves

-----------------------------------------------------------------------------
LEMMA SendsIs ==
  ASSUME NEW name \in NoticeNames, NEW x \in Notice(name)!CallType, NEW a, NEW d
  PROVE  x = [at |-> "send", alarm |-> a, day |-> d] <=> x.at = "send" /\ x.alarm = a
           /\ x.day = d
  BY DEF Notice!CallType

LEMMA OnceIs ==
  ASSUME NEW name \in NoticeNames, Notice(name)!AlarmsInv,
         NEW a \in NoticeAlarms[name] \ s11, NEW d \in 1 .. NoticeDays[name]
  PROVE  Notice(name)!Kept(a, d) /\ Notice(name)!Claimed(a, d)
<1>1. \A c \in NoticeCallers[name] : s8[c] = [at |-> "send", alarm |-> a, day |-> d]
        => Notice(name)!Sends(c, a, d)
  BY DEF Notice!Sends
<1> QED BY <1>1 DEF Notice!AlarmsInv, Notice!CallType, Notice!OnceADay, Notice!Kept

(* At most one notice for an alarm and a day, whoever sends it. *)
LEMMA OnceNext ==
  ASSUME NEW name \in NoticeNames, s8' \in [NoticeCallers[name] -> Notice(name)!CallType],
         \A a \in NoticeAlarms[name] \ s11' : \A d \in 1 .. NoticeDays[name] :
           Notice(name)!Kept(a, d)'
  PROVE  Notice(name)!OnceADay'
<1> SUFFICES ASSUME NEW a \in NoticeAlarms[name] \ s11', NEW d \in 1 .. NoticeDays[name]
             PROVE  /\ s9'[a][d] <= 1
                    /\ s7'[a] = d =>
                         s9'[a][d] = 1 \/ <<a, d>> \in s10' \/
                         \E c \in NoticeCallers[name] :
                           s8'[c] = [at |-> "send", alarm |-> a, day |-> d]
  BY DEF Notice!OnceADay
<1>1. \A c \in NoticeCallers[name] : Notice(name)!Sends(c, a, d)'
        => s8'[c] = [at |-> "send", alarm |-> a, day |-> d]
  BY SendsIs DEF Notice!Sends
<1> QED BY <1>1 DEF Notice!Kept

(* A step of the call c that leaves it x. *)
LEMMA CallMoves ==
  ASSUME NEW name \in NoticeNames, Notice(name)!NoticesConstants,
         Notice(name)!AlarmsInv, NEW c \in NoticeCallers[name], NEW x,
         s8' = [s8 EXCEPT ![c] = x], s6' = s6,
         x = Notice(name)!Calm
           \/ x \in [at : {"claim", "send"}, alarm : NoticeAlarms[name], day : 1 .. s6],
         s7' \in [NoticeAlarms[name] -> 0 .. NoticeDays[name]],
         s9' \in [NoticeAlarms[name] -> [1 .. NoticeDays[name] -> Nat]],
         \A a \in NoticeAlarms[name] : s7'[a] <= s6,
         \A a \in NoticeAlarms[name] \ s11' : \A d \in 1 .. NoticeDays[name] :
           Notice(name)!Kept(a, d)' /\ Notice(name)!Claimed(a, d)'
  PROVE  Notice(name)!AlarmsInv'
<1>1. s6 \in 1 .. NoticeDays[name] /\ 1 .. s6 \subseteq 1 .. NoticeDays[name]
        /\ 1 .. s6 \subseteq 0 .. NoticeDays[name]
      /\ NoticeDays[name] \in Int
  <2>1. NoticeDays[name] \in Nat /\ s6 \in 1 .. NoticeDays[name]
    BY DEF Notice!AlarmsInv, Notice!CallType, Notice!NoticesConstants
  <2> QED BY <2>1
<1>2. x \in Notice(name)!CallType
  <2>1. CASE x = Notice(name)!Calm
    <3>1. 0 \in 0 .. NoticeDays[name] BY <1>1
    <3> QED BY <2>1, <3>1 DEF Notice!Calm, Notice!CallType
  <2>2. CASE x \in [at : {"claim", "send"}, alarm : NoticeAlarms[name], day : 1 .. s6]
    BY <1>1, <2>2 DEF Notice!CallType
  <2> QED BY <2>1, <2>2
<1>3. s8' \in [NoticeCallers[name] -> Notice(name)!CallType]
  BY <1>2 DEF Notice!AlarmsInv, Notice!CallType
<1>4. Notice(name)!Claims(c)'
  BY DEF Notice!AlarmsInv, Notice!CallType, Notice!Claims, Notice!Calm
<1>5. \A o \in NoticeCallers[name] \ {c} : Notice(name)!Claims(o)'
  BY DEF Notice!AlarmsInv, Notice!CallType, Notice!Claims
<1>6. Notice(name)!OnceADay' BY <1>3, OnceNext
<1> QED BY <1>1, <1>3, <1>4, <1>5, <1>6 DEF Notice!AlarmsInv, Notice!CallType

(* What another call sends is as it was. *)
LEMMA OthersSend ==
  ASSUME NEW name \in NoticeNames, Notice(name)!AlarmsInv,
         NEW c \in NoticeCallers[name], NEW x, s8' = [s8 EXCEPT ![c] = x], NEW a, NEW d
  PROVE  /\ Notice(name)!Sends(c, a, d)' <=> x.at = "send" /\ x.alarm = a /\ x.day = d
         /\ \A o \in NoticeCallers[name] \ {c} :
              Notice(name)!Sends(o, a, d)' <=> Notice(name)!Sends(o, a, d)
  BY DEF Notice!Sends, Notice!AlarmsInv, Notice!CallType

(* A caller notices the limit. *)
LEMMA LimitNoticed ==
  ASSUME NEW name \in NoticeNames, Notice(name)!NoticesConstants,
         Notice(name)!AlarmsInv, NEW c \in NoticeCallers[name],
         NEW a \in NoticeAlarms[name], Notice(name)!Notice(c, a)
  PROVE  Notice(name)!AlarmsInv'
<1>1. PICK x : x = [at |-> "claim", alarm |-> a, day |-> s6] OBVIOUS
<1>2. /\ s8' = [s8 EXCEPT ![c] = x] /\ s6 \in 1 .. s6 /\ x.at = "claim"
      /\ UNCHANGED <<s6, s7, s9, s10, s11>>
  BY <1>1 DEF Notice!Notice, Notice!AlarmsInv, Notice!CallType
<1>3. x \in [at : {"claim", "send"}, alarm : NoticeAlarms[name], day : 1 .. s6]
  BY <1>1, <1>2
<1>4. ASSUME NEW b \in NoticeAlarms[name] \ s11', NEW d \in 1 .. NoticeDays[name]
      PROVE  Notice(name)!Kept(b, d)' /\ Notice(name)!Claimed(b, d)'
  <2>1. \A o \in NoticeCallers[name] :
          Notice(name)!Sends(o, b, d)' <=> Notice(name)!Sends(o, b, d)
    <3>1. ~Notice(name)!Sends(c, b, d) BY DEF Notice!Notice, Notice!Calm, Notice!Sends
    <3>2. /\ Notice(name)!Sends(c, b, d)' <=> x.at = "send" /\ x.alarm = b /\ x.day = d
          /\ \A o \in NoticeCallers[name] \ {c} :
               Notice(name)!Sends(o, b, d)' <=> Notice(name)!Sends(o, b, d)
      BY <1>2, OthersSend
    <3> QED BY <1>2, <3>1, <3>2
  <2>2. Notice(name)!Kept(b, d) /\ Notice(name)!Claimed(b, d) BY <1>2, OnceIs
  <2>3. Notice(name)!Kept(b, d)' BY <1>2, <2>1, <2>2 DEF Notice!Kept
  <2>4. Notice(name)!Claimed(b, d)' BY <1>2, <2>1, <2>2 DEF Notice!Claimed
  <2> QED BY <2>3, <2>4
<1>5. /\ s7' \in [NoticeAlarms[name] -> 0 .. NoticeDays[name]]
           /\ s9' \in [NoticeAlarms[name] -> [1 .. NoticeDays[name] -> Nat]]
      /\ \A b \in NoticeAlarms[name] : s7'[b] <= s6
  BY <1>2 DEF Notice!AlarmsInv, Notice!CallType
<1> QED BY <1>2, <1>3, <1>4, <1>5, CallMoves

(* A first claim that counts is for today, which nobody has sent or is to  *)
(* send.                                                                   *)
LEMMA ClaimsToday ==
  ASSUME NEW name \in NoticeNames, Notice(name)!NoticesConstants,
         Notice(name)!AlarmsInv, NEW c \in NoticeCallers[name], s8[c].at = "claim",
         Notice(name)!First(c), Notice(name)!Belated(c)
  PROVE  /\ s8[c].alarm \in NoticeAlarms[name] /\ s8[c].day \in 1 .. s6
              /\ s11 \subseteq s11'
         /\ s8[c].alarm \notin s11' =>
              /\ s8[c].day = s6 /\ s7[s8[c].alarm] # s6 /\ s9[s8[c].alarm][s6] = 0
              /\ \A o \in NoticeCallers[name] : ~Notice(name)!Sends(o, s8[c].alarm, s6)
<1>1. s8[c].alarm \in NoticeAlarms[name] /\ s8[c].day \in 1 .. s6
        /\ s6 \in 1 .. NoticeDays[name] /\ s6 \in Nat
      /\ NoticeDays[name] \in Nat
  BY DEF Notice!AlarmsInv, Notice!CallType, Notice!Claims, Notice!NoticesConstants
<1>2. s11 \subseteq s11' BY DEF Notice!Belated
<1>3. ASSUME s8[c].alarm \notin s11'
      PROVE  /\ s8[c].day = s6 /\ s7[s8[c].alarm] # s6 /\ s9[s8[c].alarm][s6] = 0
             /\ \A o \in NoticeCallers[name] : ~Notice(name)!Sends(o, s8[c].alarm, s6)
  <2>1. ~(s8[c].day < s6) BY <1>3 DEF Notice!Belated
  <2>2. s8[c].day = s6 BY <1>1, <2>1
  <2>3. s7[s8[c].alarm] # s6 BY <2>2 DEF Notice!First
  <2>4. Notice(name)!Claimed(s8[c].alarm, s6)
    BY <1>1, <1>2, <1>3 DEF Notice!AlarmsInv, Notice!CallType
  <2> QED BY <1>1, <2>2, <2>3, <2>4 DEF Notice!Claimed
<1> QED BY <1>1, <1>2, <1>3

(* The first to claim the day is to send, *)
LEMMA ClaimFirst ==
  ASSUME NEW name \in NoticeNames, Notice(name)!NoticesConstants,
         Notice(name)!AlarmsInv, NEW c \in NoticeCallers[name], Notice(name)!Claim(c),
         Notice(name)!First(c)
  PROVE  Notice(name)!AlarmsInv'
<1>1. PICK a, t : a = s8[c].alarm /\ t = s8[c].day OBVIOUS
<1>2. PICK x : x = [s8[c] EXCEPT !.at = "send"] OBVIOUS
<1>3. /\ s8[c] \in Notice(name)!CallType
      /\ s8[c].at = "claim" /\ Notice(name)!Belated(c)
      /\ UNCHANGED <<s6, s9, s10>> /\ s7' = [s7 EXCEPT ![a] = t]
      /\ s8' = [s8 EXCEPT ![c] = x]
  BY <1>1, <1>2 DEF Notice!Claim, Notice!AlarmsInv, Notice!CallType
<1>4. x.at = "send" /\ x.alarm = a /\ x.day = t BY <1>1, <1>2, <1>3
<1>5. /\ a \in NoticeAlarms[name] /\ t \in 1 .. s6 /\ s11 \subseteq s11'
      /\ a \notin s11' =>
           /\ t = s6 /\ s7[a] # s6 /\ s9[a][s6] = 0
           /\ \A o \in NoticeCallers[name] : ~Notice(name)!Sends(o, a, s6)
  BY <1>1, <1>3, ClaimsToday
<1>6. x \in [at : {"claim", "send"}, alarm : NoticeAlarms[name], day : 1 .. s6]
  BY <1>1, <1>2, <1>3, <1>5 DEF Notice!CallType
<1>7. s6 \in 1 .. NoticeDays[name] /\ t \in 0 .. NoticeDays[name] /\ t <= s6 /\ t \in Nat
        /\ NoticeDays[name] \in Nat
  BY <1>5 DEF Notice!AlarmsInv, Notice!CallType, Notice!NoticesConstants
<1>8. ASSUME NEW b \in NoticeAlarms[name] \ s11', NEW d \in 1 .. NoticeDays[name]
      PROVE  Notice(name)!Kept(b, d)' /\ Notice(name)!Claimed(b, d)'
  <2>1. Notice(name)!Kept(b, d) /\ Notice(name)!Claimed(b, d) BY <1>5, OnceIs
  <2>o. /\ Notice(name)!Sends(c, b, d)' <=> x.at = "send" /\ x.alarm = b /\ x.day = d
        /\ \A o \in NoticeCallers[name] \ {c} :
             Notice(name)!Sends(o, b, d)' <=> Notice(name)!Sends(o, b, d)
    BY <1>3, OthersSend
  <2>c. Notice(name)!Sends(c, b, d)' <=> a = b /\ t = d BY <1>4, <2>o
  <2>2. CASE b = a /\ d = s6
    <3>0. t = s6 /\ \A o \in NoticeCallers[name] : ~Notice(name)!Sends(o, b, d)
      BY <1>5, <2>2
    <3>1. Notice(name)!Sends(c, b, d)' /\ \A o \in NoticeCallers[name] \ {c} :
            ~Notice(name)!Sends(o, b, d)'
      BY <2>2, <2>c, <2>o, <3>0
    <3>2. s7'[a] = s6 /\ s9'[a][s6] = 0
      BY <1>3, <1>5, <2>2 DEF Notice!AlarmsInv, Notice!CallType
    <3>3. Notice(name)!Kept(b, d)' BY <1>7, <2>2, <3>1, <3>2 DEF Notice!Kept
    <3>4. Notice(name)!Claimed(b, d)' BY <1>3, <2>2, <3>1, <3>2 DEF Notice!Claimed
    <3> QED BY <3>3, <3>4
  <2>3. CASE ~(b = a /\ d = s6)
    <3>1. ~Notice(name)!Sends(c, b, d) BY <1>3 DEF Notice!Sends
    <3>2. ~Notice(name)!Sends(c, b, d)' BY <1>5, <2>3, <2>c
    <3>3. \A o \in NoticeCallers[name] :
            Notice(name)!Sends(o, b, d)' <=> Notice(name)!Sends(o, b, d)
      BY <2>o, <3>1, <3>2
    <3>4. s9' = s9 /\ s10' = s10 /\ s6' = s6 BY <1>3
    <3>5. /\ b # a => s7'[b] = s7[b]
          /\ b = a => s7'[b] = s6 /\ s7[b] # s6 /\ d # s6
      BY <1>3, <1>5, <2>3 DEF Notice!AlarmsInv, Notice!CallType
    <3>6. Notice(name)!Kept(b, d)' BY <2>1, <3>3, <3>4, <3>5 DEF Notice!Kept
    <3>7. Notice(name)!Claimed(b, d)' BY <2>1, <3>3, <3>4, <3>5 DEF Notice!Claimed
    <3> QED BY <3>6, <3>7
  <2> QED BY <2>2, <2>3
<1>9. /\ s7' \in [NoticeAlarms[name] -> 0 .. NoticeDays[name]]
           /\ s9' \in [NoticeAlarms[name] -> [1 .. NoticeDays[name] -> Nat]]
      /\ \A b \in NoticeAlarms[name] : s7'[b] <= s6
  BY <1>3, <1>7 DEF Notice!AlarmsInv, Notice!CallType
<1> QED BY <1>3, <1>6, <1>8, <1>9, CallMoves

(* the others are not. *)
LEMMA ClaimPassed ==
  ASSUME NEW name \in NoticeNames, Notice(name)!NoticesConstants,
         Notice(name)!AlarmsInv, NEW c \in NoticeCallers[name], Notice(name)!Claim(c),
         ~Notice(name)!First(c)
  PROVE  Notice(name)!AlarmsInv'
<1>1. PICK x : x = Notice(name)!Calm OBVIOUS
<1>2. /\ s8[c].at = "claim" /\ s11' = s11 /\ UNCHANGED <<s6, s9, s10>>
      /\ s8' = [s8 EXCEPT ![c] = x] /\ x.at = "idle"
  BY <1>1 DEF Notice!Claim, Notice!Belated, Notice!Calm
<1>3. s7' = s7
  <2>1. s7' = [s7 EXCEPT ![s8[c].alarm] = s7[s8[c].alarm]] BY DEF Notice!Claim, Notice!First
  <2> QED BY <2>1 DEF Notice!AlarmsInv, Notice!CallType
<1>4. ASSUME NEW b \in NoticeAlarms[name] \ s11', NEW d \in 1 .. NoticeDays[name]
      PROVE  Notice(name)!Kept(b, d)' /\ Notice(name)!Claimed(b, d)'
  <2>1. \A o \in NoticeCallers[name] :
          Notice(name)!Sends(o, b, d)' <=> Notice(name)!Sends(o, b, d)
    <3>1. ~Notice(name)!Sends(c, b, d) BY <1>2 DEF Notice!Sends
    <3>2. /\ Notice(name)!Sends(c, b, d)' <=> x.at = "send" /\ x.alarm = b /\ x.day = d
          /\ \A o \in NoticeCallers[name] \ {c} :
               Notice(name)!Sends(o, b, d)' <=> Notice(name)!Sends(o, b, d)
      BY <1>2, OthersSend
    <3> QED BY <1>2, <3>1, <3>2
  <2>2. Notice(name)!Kept(b, d) /\ Notice(name)!Claimed(b, d) BY <1>2, OnceIs
  <2>3. Notice(name)!Kept(b, d)' BY <1>2, <1>3, <2>1, <2>2 DEF Notice!Kept
  <2>4. Notice(name)!Claimed(b, d)' BY <1>2, <1>3, <2>1, <2>2 DEF Notice!Claimed
  <2> QED BY <2>3, <2>4
<1>5. /\ s7' \in [NoticeAlarms[name] -> 0 .. NoticeDays[name]]
           /\ s9' \in [NoticeAlarms[name] -> [1 .. NoticeDays[name] -> Nat]]
      /\ \A b \in NoticeAlarms[name] : s7'[b] <= s6
  BY <1>2, <1>3 DEF Notice!AlarmsInv, Notice!CallType
<1> QED BY <1>1, <1>2, <1>4, <1>5, CallMoves

(* A caller dies, *)
LEMMA ClaimDies ==
  ASSUME NEW name \in NoticeNames, Notice(name)!NoticesConstants,
         Notice(name)!AlarmsInv, NEW c \in NoticeCallers[name], Notice(name)!Die(c)
  PROVE  Notice(name)!AlarmsInv'
<1>1. PICK x, a : x = Notice(name)!Calm /\ a = s8[c].alarm OBVIOUS
<1>2. /\ s8[c].at = "claim" /\ Notice(name)!First(c) /\ Notice(name)!Belated(c)
           /\ UNCHANGED <<s6, s9, s10>>
      /\ s8' = [s8 EXCEPT ![c] = x] /\ x.at = "idle" /\ s7' = [s7 EXCEPT ![a] = 0]
  BY <1>1 DEF Notice!Die, Notice!Calm
<1>3. a \in NoticeAlarms[name] /\ s11 \subseteq s11' /\ (a \notin s11' => s7[a] # s6)
  BY <1>1, <1>2, ClaimsToday
<1>4. s6 \in 1 .. NoticeDays[name] /\ s6 \in Nat /\ NoticeDays[name] \in Nat
  BY DEF Notice!AlarmsInv, Notice!CallType, Notice!NoticesConstants
<1>5. ASSUME NEW b \in NoticeAlarms[name] \ s11', NEW d \in 1 .. NoticeDays[name]
      PROVE  Notice(name)!Kept(b, d)' /\ Notice(name)!Claimed(b, d)'
  <2>1. \A o \in NoticeCallers[name] :
          Notice(name)!Sends(o, b, d)' <=> Notice(name)!Sends(o, b, d)
    <3>1. ~Notice(name)!Sends(c, b, d) BY <1>2 DEF Notice!Sends
    <3>2. /\ Notice(name)!Sends(c, b, d)' <=> x.at = "send" /\ x.alarm = b /\ x.day = d
          /\ \A o \in NoticeCallers[name] \ {c} :
               Notice(name)!Sends(o, b, d)' <=> Notice(name)!Sends(o, b, d)
      BY <1>2, OthersSend
    <3> QED BY <1>2, <3>1, <3>2
  <2>2. Notice(name)!Kept(b, d) /\ Notice(name)!Claimed(b, d) BY <1>3, OnceIs
  <2>3. d # 0 /\ (b # a => s7'[b] = s7[b]) /\ (b = a => s7'[b] = 0 /\ s7[b] # s6)
    BY <1>2, <1>3, <1>4 DEF Notice!AlarmsInv, Notice!CallType
  <2>4. Notice(name)!Kept(b, d)' BY <1>2, <2>1, <2>2, <2>3 DEF Notice!Kept
  <2>5. Notice(name)!Claimed(b, d)' BY <1>2, <2>1, <2>2, <2>3 DEF Notice!Claimed
  <2> QED BY <2>4, <2>5
<1>6. /\ s7' \in [NoticeAlarms[name] -> 0 .. NoticeDays[name]]
           /\ s9' \in [NoticeAlarms[name] -> [1 .. NoticeDays[name] -> Nat]]
      /\ \A b \in NoticeAlarms[name] : s7'[b] <= s6
  <2>1. 0 \in 0 .. NoticeDays[name] /\ 0 <= s6 BY <1>4
  <2>2. s7' \in [NoticeAlarms[name] -> 0 .. NoticeDays[name]]
    BY <1>2, <2>1 DEF Notice!AlarmsInv, Notice!CallType
  <2>3. \A b \in NoticeAlarms[name] : s7'[b] <= s6
    BY <1>2, <2>1 DEF Notice!AlarmsInv, Notice!CallType
  <2> QED BY <1>2, <2>2, <2>3 DEF Notice!AlarmsInv, Notice!CallType
<1> QED BY <1>1, <1>2, <1>5, <1>6, CallMoves

(* or sends what it claimed. *)
LEMMA ClaimSent ==
  ASSUME NEW name \in NoticeNames, Notice(name)!NoticesConstants,
         Notice(name)!AlarmsInv, NEW c \in NoticeCallers[name], NEW ok \in BOOLEAN,
         Notice(name)!Send(c, ok)
  PROVE  Notice(name)!AlarmsInv'
<1>1. PICK x, a, t : x = Notice(name)!Calm /\ a = s8[c].alarm /\ t = s8[c].day OBVIOUS
<1>2. /\ s8[c].at = "send" /\ UNCHANGED <<s6, s7, s11>>
      /\ s8' = [s8 EXCEPT ![c] = x] /\ x.at = "idle"
      /\ s9' = IF ok THEN [s9 EXCEPT ![a][t] = @ + 1] ELSE s9
      /\ s10' = IF ok THEN s10 ELSE s10 \cup {<<a, t>>}
  BY <1>1 DEF Notice!Send, Notice!Calm
<1>3. /\ a \in NoticeAlarms[name] /\ t \in 1 .. s6 /\ s6 \in 1 .. NoticeDays[name]
           /\ NoticeDays[name] \in Nat
      /\ s9 \in [NoticeAlarms[name] -> [1 .. NoticeDays[name] -> Nat]]
  BY <1>1, <1>2 DEF Notice!AlarmsInv, Notice!CallType, Notice!Claims, Notice!Calm,
     Notice!NoticesConstants
<1>4. t \in 1 .. NoticeDays[name] BY <1>3
<1>5. /\ s9' \in [NoticeAlarms[name] -> [1 .. NoticeDays[name] -> Nat]]
      /\ \A b \in NoticeAlarms[name] : \A d \in 1 .. NoticeDays[name] :
           s9'[b][d] = IF ok /\ b = a /\ d = t THEN s9[b][d] + 1 ELSE s9[b][d]
  <2>1. CASE ok BY <1>2, <1>3, <1>4, <2>1
  <2>2. CASE ~ok BY <1>2, <1>3, <2>2
  <2> QED BY <2>1, <2>2
<1>6. ASSUME NEW b \in NoticeAlarms[name] \ s11', NEW d \in 1 .. NoticeDays[name]
      PROVE  Notice(name)!Kept(b, d)' /\ Notice(name)!Claimed(b, d)'
  <2>1. Notice(name)!Kept(b, d) /\ Notice(name)!Claimed(b, d) BY <1>2, OnceIs
  <2>2. ~Notice(name)!Sends(c, b, d)' /\ \A o \in NoticeCallers[name] \ {c} :
          Notice(name)!Sends(o, b, d)' <=> Notice(name)!Sends(o, b, d)
    BY <1>2, OthersSend
  <2>3. Notice(name)!Sends(c, b, d) <=> b = a /\ d = t BY <1>1, <1>2 DEF Notice!Sends
  <2>4. CASE b = a /\ d = t
    <3>1. s9[b][d] = 0 /\ \A o \in NoticeCallers[name] : Notice(name)!Sends(o, b, d)
            => o = c
      BY <2>1, <2>3, <2>4 DEF Notice!Claimed
    <3>2. \A o \in NoticeCallers[name] : ~Notice(name)!Sends(o, b, d)' BY <2>2, <3>1
    <3>3. s9'[b][d] = (IF ok THEN 1 ELSE 0) /\ (~ok => <<b, d>> \in s10')
      BY <1>2, <1>5, <2>4, <3>1
    <3>4. Notice(name)!Kept(b, d)' BY <3>3 DEF Notice!Kept
    <3>5. d < s6 \/ (d = s6 /\ s7[b] = d) BY <2>1, <2>3, <2>4 DEF Notice!Claimed
    <3>6. Notice(name)!Claimed(b, d)' BY <1>2, <3>2, <3>5 DEF Notice!Claimed
    <3> QED BY <3>4, <3>6
  <2>5. CASE ~(b = a /\ d = t)
    <3>1. s9'[b][d] = s9[b][d] BY <1>5, <2>5
    <3>2. \A o \in NoticeCallers[name] :
            Notice(name)!Sends(o, b, d)' <=> Notice(name)!Sends(o, b, d)
      BY <2>2, <2>3, <2>5
    <3>3. <<b, d>> \in s10 => <<b, d>> \in s10' BY <1>2
    <3>4. Notice(name)!Kept(b, d)' BY <1>2, <2>1, <3>1, <3>2, <3>3 DEF Notice!Kept
    <3>5. Notice(name)!Claimed(b, d)' BY <1>2, <2>1, <3>1, <3>2 DEF Notice!Claimed
    <3> QED BY <3>4, <3>5
  <2> QED BY <2>4, <2>5
<1>7. /\ s7' \in [NoticeAlarms[name] -> 0 .. NoticeDays[name]]
           /\ \A b \in NoticeAlarms[name] : s7'[b] <= s6
  BY <1>2 DEF Notice!AlarmsInv, Notice!CallType
<1> QED BY <1>1, <1>2, <1>5, <1>6, <1>7, CallMoves

(* A new day, which nobody has claimed. *)
LEMMA DayBegins ==
  ASSUME NEW name \in NoticeNames, Notice(name)!NoticesConstants,
         Notice(name)!AlarmsInv, Notice(name)!Midnight
  PROVE  Notice(name)!AlarmsInv'
<1>1. /\ s6 \in 1 .. NoticeDays[name] /\ NoticeDays[name] \in Nat /\ s6 < NoticeDays[name]
           /\ s6' = s6 + 1
      /\ UNCHANGED <<s7, s8, s9, s10, s11>>
  BY DEF Notice!Midnight, Notice!AlarmsInv, Notice!CallType, Notice!NoticesConstants
<1>2. s6' \in 1 .. NoticeDays[name] /\ s6 < s6' /\ s6 \in Nat BY <1>1
<1>3. \A a \in NoticeAlarms[name] : s7'[a] <= s6'
  <2> SUFFICES ASSUME NEW a \in NoticeAlarms[name] PROVE s7[a] <= s6' BY <1>1
  <2>1. s7[a] \in 0 .. NoticeDays[name] /\ s7[a] <= s6
    BY DEF Notice!AlarmsInv, Notice!CallType
  <2> QED BY <1>1, <2>1
<1>4. \A c \in NoticeCallers[name] : Notice(name)!Claims(c)'
  <2>1. 1 .. s6 \subseteq 1 .. s6' BY <1>1
  <2> QED BY <1>1, <2>1 DEF Notice!Claims, Notice!AlarmsInv, Notice!CallType
<1>5. ASSUME NEW a \in NoticeAlarms[name] \ s11', NEW d \in 1 .. NoticeDays[name]
      PROVE  Notice(name)!Kept(a, d)' /\ Notice(name)!Claimed(a, d)'
  <2>1. Notice(name)!Kept(a, d) /\ Notice(name)!Claimed(a, d) BY <1>1, OnceIs
  <2>2. d \in Nat OBVIOUS
  <2>3. \A c \in NoticeCallers[name] :
          Notice(name)!Sends(c, a, d)' <=> Notice(name)!Sends(c, a, d)
    BY <1>1 DEF Notice!Sends
  <2>4. d <= s6 => d < s6' BY <1>1
  <2>5. Notice(name)!Claimed(a, d)' BY <1>1, <2>1, <2>3, <2>4 DEF Notice!Claimed
  <2>6. Notice(name)!Kept(a, d)' BY <1>1, <2>1, <2>3 DEF Notice!Kept
  <2> QED BY <2>5, <2>6
<1>6. Notice(name)!OnceADay'
  <2>1. s8' \in [NoticeCallers[name] -> Notice(name)!CallType]
    BY <1>1 DEF Notice!AlarmsInv, Notice!CallType
  <2> QED BY <1>5, <2>1, OnceNext
<1> QED BY <1>1, <1>2, <1>3, <1>4, <1>5, <1>6 DEF Notice!AlarmsInv, Notice!CallType

(* Every step keeps it. *)
LEMMA NoticeNext ==
  ASSUME NEW name \in NoticeNames, Notice(name)!NoticesConstants,
         Notice(name)!IInv, [Notice(name)!Next]_(Notice(name)!vars)
  PROVE  Notice(name)!IInv'
<1>i. Notice(name)!PaymentsInv /\ Notice(name)!AlarmsInv BY DEF Notice!IInv
<1>1. ASSUME NEW r \in NoticeRequests[name], NEW route \in Notice(name)!Routes,
             Notice(name)!Begin(r, route)
      PROVE  Notice(name)!IInv'
  <2>1. UNCHANGED Notice(name)!alarms BY <1>1 DEF Notice!Begin
  <2> QED BY <1>i, <1>1, <2>1, NoticeBegins, AlarmsRest DEF Notice!IInv
<1>2. ASSUME NEW r \in NoticeRequests[name], NEW i \in NoticeIntents[name],
             Notice(name)!Fulfil(r, i) \/ Notice(name)!FulfilFails(r, i)
      PROVE  Notice(name)!IInv'
  <2>1. UNCHANGED Notice(name)!alarms BY <1>2 DEF Notice!Fulfil, Notice!FulfilFails
  <2> QED BY <1>i, <1>2, <2>1, NoticeFulfils, AlarmsRest DEF Notice!IInv
<1>3. ASSUME NEW r \in NoticeRequests[name],
             Notice(name)!CommitWithTelegram(r) \/ Notice(name)!CommitPlayback(r)
      PROVE  Notice(name)!IInv'
  <2>1. UNCHANGED Notice(name)!alarms
    BY <1>3 DEF Notice!CommitWithTelegram, Notice!CommitPlayback
  <2> QED BY <1>i, <1>3, <2>1, NoticeCommitted, AlarmsRest DEF Notice!IInv
<1>4. ASSUME NEW r \in NoticeRequests[name], NEW ok \in BOOLEAN, Notice(name)!Flush(r, ok)
      PROVE  Notice(name)!IInv'
  <2>1. UNCHANGED Notice(name)!alarms BY <1>4 DEF Notice!Flush
  <2> QED BY <1>i, <1>4, <2>1, NoticeFlushed, AlarmsRest DEF Notice!IInv
<1>5. ASSUME NEW r \in NoticeRequests[name], Notice(name)!End(r) PROVE Notice(name)!IInv'
  <2>1. UNCHANGED Notice(name)!alarms BY <1>5 DEF Notice!End
  <2> QED BY <1>i, <1>5, <2>1, NoticeEnded, AlarmsRest DEF Notice!IInv
<1>6. ASSUME NEW c \in NoticeCallers[name], NEW a \in NoticeAlarms[name],
             Notice(name)!Notice(c, a)
      PROVE  Notice(name)!IInv'
  <2>1. UNCHANGED Notice(name)!payments BY <1>6 DEF Notice!Notice
  <2> QED BY <1>i, <1>6, <2>1, LimitNoticed, PaymentsRest DEF Notice!IInv
<1>7. ASSUME NEW c \in NoticeCallers[name], Notice(name)!Claim(c) PROVE Notice(name)!IInv'
  <2>1. UNCHANGED Notice(name)!payments BY <1>7 DEF Notice!Claim
  <2>2. Notice(name)!AlarmsInv' BY <1>i, <1>7, ClaimFirst, ClaimPassed
  <2> QED BY <1>i, <2>1, <2>2, PaymentsRest DEF Notice!IInv
<1>8. ASSUME NEW c \in NoticeCallers[name], Notice(name)!Die(c) PROVE Notice(name)!IInv'
  <2>1. UNCHANGED Notice(name)!payments BY <1>8 DEF Notice!Die
  <2> QED BY <1>i, <1>8, <2>1, ClaimDies, PaymentsRest DEF Notice!IInv
<1>9. ASSUME NEW c \in NoticeCallers[name], NEW ok \in BOOLEAN, Notice(name)!Send(c, ok)
      PROVE  Notice(name)!IInv'
  <2>1. UNCHANGED Notice(name)!payments BY <1>9 DEF Notice!Send
  <2> QED BY <1>i, <1>9, <2>1, ClaimSent, PaymentsRest DEF Notice!IInv
<1>10. ASSUME Notice(name)!Midnight PROVE Notice(name)!IInv'
  <2>1. UNCHANGED Notice(name)!payments BY <1>10 DEF Notice!Midnight
  <2> QED BY <1>i, <1>10, <2>1, DayBegins, PaymentsRest DEF Notice!IInv
<1>11. ASSUME UNCHANGED Notice(name)!vars PROVE Notice(name)!IInv'
  <2>1. UNCHANGED Notice(name)!payments /\ UNCHANGED Notice(name)!alarms
    BY <1>11 DEF Notice!vars
  <2> QED BY <1>i, <2>1, AlarmsRest, PaymentsRest DEF Notice!IInv
<1> QED
  BY <1>1, <1>2, <1>3, <1>4, <1>5, <1>6, <1>7, <1>8, <1>9, <1>10, <1>11 DEF Notice!Next

-----------------------------------------------------------------------------
(* Checks. Here s1 to s12 are now, paid, cache, blocked, shared, pause,    *)
(* used, call, batch, heard, asks and resets.                              *)
ChecksNames == {"checks", "codes"}

(* The part counts as the composition does. *)
LEMMA ChecksCount ==
  ASSUME NEW name \in ChecksNames, NEW S
  PROVE  /\ Checks(name)!Cardinality(S) = Cardinality(S)
         /\ Checks(name)!IsFiniteSet(S) <=> IsFiniteSet(S)
  BY DEF Checks!Cardinality, Cardinality, Checks!IsFiniteSet, IsFiniteSet

(* What the typing says, and the constants. *)
LEMMA ChecksTypes ==
  ASSUME NEW name \in ChecksNames, Checks(name)!ProbesConstants, Checks(name)!TypeOK
  PROVE  /\ s1 \in Nat /\ s4 \in Nat /\ s5 \in Nat /\ s10 \in SUBSET Nat
         /\ ChecksQuota \in Nat /\ ChecksBrief \in Nat /\ ChecksLag \in Nat
         /\ ChecksMax[name] \in Nat \ {0} /\ ChecksWindow \in Nat \ {0}
         /\ \A i \in Checks(name)!Intents :
              /\ s7[i].n \in Nat /\ s7[i].since \in Nat
              /\ s11[i] \in SUBSET (Nat \X Nat) /\ s12[i] \in SUBSET (Nat \X Nat)
         /\ \A p \in Checks(name)!Calls : s8[p].at \in Nat
  BY DEF Checks!TypeOK, Checks!ProbesConstants, Checks!CallType, Checks!CallRec

(* Block takes the later of two deadlines. *)
LEMMA LongerIs ==
  ASSUME NEW name \in ChecksNames, s1 \in Nat, NEW d \in Nat, NEW k \in Nat
  PROVE  /\ Checks(name)!Longer(d, k) \in Nat
         /\ Checks(name)!Longer(d, k) >= d /\ Checks(name)!Longer(d, k) >= s1 + k
<1>1. PICK x : x = s1 + k OBVIOUS
<1>2. PICK S : S = {d, x} OBVIOUS
<1>3. \E y \in S : \A z \in S : y >= z
  <2>1. CASE d >= x BY <1>1, <1>2, <2>1
  <2>2. CASE ~(d >= x)
    <3>1. x >= d /\ x >= x BY <1>1, <2>2
    <3> QED BY <1>2, <3>1
  <2> QED BY <2>1, <2>2
<1>4. PICK y : y = CHOOSE z \in S : \A w \in S : z >= w OBVIOUS
<1>5. y \in S /\ \A z \in S : y >= z BY <1>3, <1>4
<1>6. Checks(name)!Longer(d, k) = y BY <1>1, <1>2, <1>4 DEF Checks!Longer, Checks!Max
<1> QED BY <1>1, <1>2, <1>5, <1>6

(* A part of a finite set. *)
LEMMA PartCounts ==
  ASSUME NEW S, IsFiniteSet(S), NEW T \in SUBSET S
  PROVE  /\ IsFiniteSet(T) /\ Cardinality(T) \in Nat /\ Cardinality(S) \in Nat
         /\ Cardinality(T) <= Cardinality(S)
         /\ \A x \in S \ T : Cardinality(T) < Cardinality(S)
<1>1. IsFiniteSet(T) BY FS_Subset
<1>2. Cardinality(T) \in Nat /\ Cardinality(S) \in Nat BY <1>1, FS_CardinalityType
<1>3. Cardinality(T) <= Cardinality(S) /\ (Cardinality(T) = Cardinality(S) => T = S)
  BY <1>1, FS_Subset
<1> QED BY <1>1, <1>2, <1>3

(* What a list of times tells: how many there are since t, and none since  *)
(* the last.                                                               *)
LEMMA SinceCounts ==
  ASSUME NEW name \in ChecksNames, NEW S \in SUBSET (Nat \X Nat), s1 \in Nat,
         Checks(name)!Listed(S), NEW t \in Int
  PROVE  /\ Cardinality(Checks(name)!Since(S, t)) \in Nat
         /\ IsFiniteSet(Checks(name)!Since(S, t))
         /\ t >= s1 => Cardinality(Checks(name)!Since(S, t)) = 0
<1>1. PICK T : T = Checks(name)!Since(S, t) OBVIOUS
<1>2. T \in SUBSET S BY <1>1 DEF Checks!Since
<1>3. IsFiniteSet(S) /\ \A a \in S : a[1] \in Nat /\ a[1] <= s1
  BY ChecksCount DEF Checks!Listed
<1>4. t >= s1 => T = {}
  <2> SUFFICES ASSUME t >= s1, NEW a \in T PROVE FALSE OBVIOUS
  <2>1. a[1] > t /\ a \in S BY <1>1 DEF Checks!Since
  <2>2. a[1] \in Nat /\ a[1] <= s1 BY <1>3, <2>1
  <2> QED BY <2>1, <2>2
<1> QED BY <1>1, <1>2, <1>3, <1>4, PartCounts, FS_EmptySet

(* What a list is with one entry more. *)
OneMore(name, S, z) ==
  /\ S \cup {z} \in SUBSET (Nat \X Nat)
  /\ IsFiniteSet(S \cup {z})
  /\ \A a \in S \cup {z} : a[1] <= s1' /\ a[2] < Cardinality(S \cup {z})
  /\ \A t \in Int : t < s1 =>
       Cardinality(Checks(name)!Since(S \cup {z}, t))
         = Cardinality(Checks(name)!Since(S, t)) + 1
  /\ \A t \in Int : t >= s1 => Cardinality(Checks(name)!Since(S \cup {z}, t)) = 0

LEMMA SinceOne ==
  ASSUME NEW name \in ChecksNames, NEW S \in SUBSET (Nat \X Nat), s1 \in Nat,
         s1' = s1, Checks(name)!Listed(S), NEW z, z = <<s1, Cardinality(S)>>
  PROVE  OneMore(name, S, z)
<1>1. PICK k : k = Cardinality(S) OBVIOUS
<1>2. IsFiniteSet(S) /\ \A a \in S : a[1] <= s1 /\ a[2] < k
  BY <1>1, ChecksCount DEF Checks!Listed
<1>3. k \in Nat BY <1>1, <1>2, FS_CardinalityType
<1>4. z \in Nat \X Nat /\ z[1] = s1 /\ z[2] = k BY <1>1, <1>3
<1>5. z \notin S BY <1>2, <1>3, <1>4
<1>6. IsFiniteSet(S \cup {z}) /\ Cardinality(S \cup {z}) = k + 1
  BY <1>1, <1>2, <1>5, FS_AddElement
<1>7. \A a \in S \cup {z} : a[1] \in Nat /\ a[2] \in Nat BY <1>4
<1>8. \A a \in S \cup {z} : a[1] <= s1' /\ a[2] < Cardinality(S \cup {z})
  <2>1. \A a \in S : a[1] <= s1 /\ a[2] < k + 1 BY <1>2, <1>3, <1>7
  <2>2. z[1] <= s1 /\ z[2] < k + 1 BY <1>3, <1>4
  <2> QED BY <1>6, <2>1, <2>2
<1>9. ASSUME NEW t \in Int, t < s1
      PROVE  Cardinality(Checks(name)!Since(S \cup {z}, t))
               = Cardinality(Checks(name)!Since(S, t)) + 1
  <2>1. PICK T : T = Checks(name)!Since(S, t) OBVIOUS
  <2>2. T \in SUBSET S BY <2>1 DEF Checks!Since
  <2>3. IsFiniteSet(T) /\ z \notin T BY <1>2, <1>5, <2>2, PartCounts
  <2>4. Checks(name)!Since(S \cup {z}, t) = T \cup {z}
    BY <1>4, <1>9, <2>1 DEF Checks!Since
  <2> QED BY <2>1, <2>3, <2>4, FS_AddElement
<1>10. ASSUME NEW t \in Int, t >= s1
       PROVE  Cardinality(Checks(name)!Since(S \cup {z}, t)) = 0
  <2>1. Checks(name)!Since(S \cup {z}, t) = {}
    <3> SUFFICES ASSUME NEW a \in S \cup {z}, a[1] > t PROVE FALSE BY DEF Checks!Since
    <3>1. a[1] \in Nat /\ a[1] <= s1 BY <1>7, <1>8
    <3> QED BY <1>10, <3>1
  <2> QED BY <2>1, FS_EmptySet
<1> QED BY <1>4, <1>6, <1>8, <1>9, <1>10 DEF OneMore

(* It holds at first. *)
LEMMA ChecksInit ==
  ASSUME NEW name \in ChecksNames, Checks(name)!ProbesConstants, Checks(name)!Init
  PROVE  Checks(name)!IInv
<1>1. Checks(name)!TypeOK
  BY DEF Checks!Init, Checks!TypeOK, Checks!Quiet, Checks!CallType, Checks!CallRec
<1>2. Checks(name)!Noted BY DEF Checks!Init, Checks!Noted, Checks!Quiet
<1>3. IsFiniteSet({}) /\ Cardinality({}) = 0 BY FS_EmptySet
<1>4. ChecksMax[name] \in Nat \ {0} /\ ChecksMax[name] * 0 = 0
  BY DEF Checks!ProbesConstants
<1>5. ASSUME NEW i \in Checks(name)!Intents PROVE Checks(name)!Counted(i)
  <2>1. /\ s7[i].n = 0 /\ s7[i].since = 0 /\ s11[i] = {} /\ s12[i] = {} /\ s1 = 0
    BY DEF Checks!Init
  <2>2. Checks(name)!Listed({}) BY <1>3, ChecksCount DEF Checks!Listed
  <2>3. ASSUME NEW t \in Int PROVE Checks(name)!Within(i, t)
    <3>1. Checks(name)!Since({}, t) = {} BY DEF Checks!Since
    <3>2. PICK k : k = Cardinality({}) OBVIOUS
    <3>3. k = 0 /\ ChecksMax[name] * k = 0 BY <1>3, <1>4, <3>2
    <3>4. k < ChecksMax[name] * k + 0 + ChecksMax[name] BY <1>4, <3>3
    <3>5. ~(s7[i].n > 0) BY <2>1
    <3> QED BY <2>1, <3>1, <3>2, <3>4, <3>5, ChecksCount DEF Checks!Within
  <2> QED BY <1>4, <2>1, <2>2, <2>3 DEF Checks!Counted
<1> QED BY <1>1, <1>2, <1>5 DEF Checks!IInv

(* A step of the clock, and of whatever takes no check. *)
LEMMA CountedRest ==
  ASSUME NEW name \in ChecksNames, Checks(name)!ProbesConstants,
         Checks(name)!TypeOK, NEW i \in Checks(name)!Intents, Checks(name)!Counted(i),
         s7'[i] = s7[i], s11'[i] = s11[i], s12'[i] = s12[i], s1' \in Nat, s1' >= s1
  PROVE  Checks(name)!Counted(i)'
<1>1. PICK A, R, u, M, W :
         /\ A = s11[i] /\ R = s12[i] /\ u = s7[i] /\ M = ChecksMax[name] /\ W = ChecksWindow
  OBVIOUS
<1>2. /\ s1 \in Nat /\ u.n \in Nat /\ u.since \in Nat /\ M \in Nat \ {0} /\ W \in Nat \ {0}
      /\ A \in SUBSET (Nat \X Nat) /\ R \in SUBSET (Nat \X Nat)
  BY <1>1, ChecksTypes
<1>3. /\ Checks(name)!Listed(A) /\ Checks(name)!Listed(R) /\ u.n <= M /\ u.since <= s1
  BY <1>1 DEF Checks!Counted
<1>4. Checks(name)!Listed(s11[i])' /\ Checks(name)!Listed(s12[i])'
  <2>1. \A S \in {A, R} : \A a \in S : a[1] \in Nat /\ (a[1] <= s1 => a[1] <= s1')
    BY <1>2
  <2> QED BY <1>1, <1>3, <2>1 DEF Checks!Listed
<1>5. ASSUME NEW t \in Int, s1' - W <= t, t <= s1' PROVE Checks(name)!Within(i, t)'
  <2>1. CASE t <= s1
    <3>1. s1 - W <= t
      <4>1. PICK b : b = s1' OBVIOUS
      <4>2. b \in Nat /\ b >= s1 /\ b - W <= t BY <1>5, <4>1
      <4> QED BY <1>2, <1>5, <4>2
    <3>2. Checks(name)!Within(i, t) BY <1>1, <2>1, <3>1 DEF Checks!Counted
    <3> QED BY <3>2 DEF Checks!Within
  <2>2. CASE t > s1
    <3>1. PICK n, r : /\ n = Cardinality(Checks(name)!Since(A, t))
                      /\ r = Cardinality(Checks(name)!Since(R, t)) OBVIOUS
    <3>2. n = 0 /\ r \in Nat BY <1>2, <1>3, <2>2, <3>1, SinceCounts
    <3>3. M * r \in Nat BY <1>2, <3>2
    <3>4. u.n > 0 \/ n < M * r + u.n + M BY <1>2, <3>2, <3>3
    <3>5. IF u.n > 0 /\ u.since <= t THEN n < M * r + u.n ELSE n < M * r + u.n + M
      BY <1>2, <1>3, <2>2, <3>2, <3>3
    <3> QED BY <1>1, <3>1, <3>5, ChecksCount DEF Checks!Within
  <2> QED BY <1>2, <1>5, <2>1, <2>2
<1>6. s7'[i].n <= M /\ s7'[i].since <= s1' BY <1>1, <1>2, <1>3
<1> QED BY <1>1, <1>4, <1>5, <1>6 DEF Checks!Counted

(* What a check changes: z is the check. *)
LEMMA CheckTaken ==
  ASSUME NEW name \in ChecksNames, Checks(name)!ProbesConstants,
         Checks(name)!TypeOK, NEW i \in Checks(name)!Intents,
         Checks(name)!Counted(i), Checks(name)!Room(i), NEW z,
         z = <<s1, Cardinality(s11[i])>>, s1' = s1, s12'[i] = s12[i],
         s7'[i] = IF Checks(name)!Running(i) THEN [s7[i] EXCEPT !.n = @ + 1]
           ELSE [n |-> 1, since |-> s1],
         s11'[i] = s11[i] \cup {z}, s7[i] \in [n : Nat, since : Nat]
  PROVE  Checks(name)!Counted(i)' /\ s11'[i] \in SUBSET (Nat \X Nat)
<1>1. PICK A, R, u, M, W :
         /\ A = s11[i] /\ R = s12[i] /\ u = s7[i] /\ M = ChecksMax[name] /\ W = ChecksWindow
  OBVIOUS
<1>2. /\ s1 \in Nat /\ u \in [n : Nat, since : Nat] /\ M \in Nat \ {0} /\ W \in Nat \ {0}
      /\ A \in SUBSET (Nat \X Nat) /\ R \in SUBSET (Nat \X Nat)
  BY <1>1, ChecksTypes
<1>3. /\ Checks(name)!Listed(A) /\ Checks(name)!Listed(R) /\ u.n <= M /\ u.since <= s1
  BY <1>1 DEF Checks!Counted
<1>4. /\ A \cup {z} \in SUBSET (Nat \X Nat) /\ IsFiniteSet(A \cup {z})
      /\ \A a \in A \cup {z} : a[1] <= s1' /\ a[2] < Cardinality(A \cup {z})
      /\ \A t \in Int : t < s1 =>
           Cardinality(Checks(name)!Since(A \cup {z}, t))
             = Cardinality(Checks(name)!Since(A, t)) + 1
      /\ \A t \in Int : t >= s1 => Cardinality(Checks(name)!Since(A \cup {z}, t)) = 0
  <2>1. z = <<s1, Cardinality(A)>> BY <1>1
  <2>2. s1 \in Nat /\ A \in SUBSET (Nat \X Nat) /\ Checks(name)!Listed(A) BY <1>2, <1>3
  <2>3. OneMore(name, A, z) BY <2>1, <2>2, SinceOne
  <2> QED BY <2>3 DEF OneMore
<1>5. Checks(name)!Listed(s11[i])' /\ Checks(name)!Listed(s12[i])'
  BY <1>1, <1>3, <1>4, ChecksCount DEF Checks!Listed
<1>6. PICK v : v = s7'[i] OBVIOUS
<1>7. \/ u.n > 0 /\ s1 - u.since < W /\ u.n < M /\ v.n = u.n + 1 /\ v.since = u.since
      \/ (u.n = 0 \/ s1 - u.since >= W) /\ v.n = 1 /\ v.since = s1
  <2>1. CASE Checks(name)!Running(i)
    BY <1>1, <1>2, <1>6, <2>1 DEF Checks!Running, Checks!Room
  <2>2. CASE ~Checks(name)!Running(i)
    <3>1. v.n = 1 /\ v.since = s1 BY <1>6, <2>2
    <3>2. ~(u.n > 0 /\ s1 - u.since < W) BY <1>1, <2>2 DEF Checks!Running
    <3> QED BY <1>2, <3>1, <3>2
  <2> QED BY <2>1, <2>2
<1>8. PICK un, us, vn, vs : un = u.n /\ us = u.since /\ vn = v.n /\ vs = v.since OBVIOUS
<1>9. /\ un \in Nat /\ us \in Nat /\ un <= M /\ us <= s1
      /\ \/ un > 0 /\ s1 - us < W /\ un < M /\ vn = un + 1 /\ vs = us
         \/ (un = 0 \/ s1 - us >= W) /\ vn = 1 /\ vs = s1
  BY <1>2, <1>3, <1>7, <1>8
<1>10. vn \in Nat /\ vs \in Nat /\ vn > 0 /\ vn <= M /\ vs <= s1 BY <1>2, <1>9
<1>11. ASSUME NEW t \in Int, s1' - W <= t, t <= s1' PROVE Checks(name)!Within(i, t)'
  <2>1. PICK n, n1, r : /\ n = Cardinality(Checks(name)!Since(A, t))
                        /\ n1 = Cardinality(Checks(name)!Since(A \cup {z}, t))
                        /\ r = Cardinality(Checks(name)!Since(R, t)) OBVIOUS
  <2>2. n \in Nat /\ r \in Nat BY <1>2, <1>3, <2>1, SinceCounts
  <2>3. PICK w : w = M * r OBVIOUS
  <2>4. w \in Nat BY <1>2, <2>2, <2>3
  <2>5. IF un > 0 /\ us <= t THEN n < w + un ELSE n < w + un + M
    <3>1. Checks(name)!Within(i, t) BY <1>1, <1>11 DEF Checks!Counted
    <3> QED BY <1>1, <1>8, <2>1, <2>3, <3>1, ChecksCount DEF Checks!Within
  <2>6. (t < s1 => n1 = n + 1) /\ (t >= s1 => n1 = 0) BY <1>4, <2>1
  <2>7. IF vn > 0 /\ vs <= t THEN n1 < w + vn ELSE n1 < w + vn + M
    <3>1. CASE t >= s1 BY <1>2, <1>9, <1>10, <2>4, <2>6, <3>1
    <3>2. CASE t < s1
      <4>1. s1 - W <= t BY <1>11
      <4> QED BY <1>2, <1>9, <1>10, <2>2, <2>4, <2>5, <2>6, <3>2, <4>1
    <3> QED BY <1>2, <3>1, <3>2
  <2> QED BY <1>1, <1>6, <1>8, <2>1, <2>3, <2>7, ChecksCount DEF Checks!Within
<1> QED BY <1>1, <1>4, <1>5, <1>6, <1>8, <1>10, <1>11 DEF Checks!Counted

(* What a new code changes. *)
LEMMA BudgetEmptied ==
  ASSUME NEW name \in ChecksNames, Checks(name)!ProbesConstants,
         Checks(name)!TypeOK, NEW i \in Checks(name)!Intents,
         Checks(name)!Counted(i), NEW z,
         z = <<s1, Cardinality(s12[i])>>, s1' = s1, s11'[i] = s11[i],
         s7'[i] = [n |-> 0, since |-> 0], s12'[i] = s12[i] \cup {z}
  PROVE  Checks(name)!Counted(i)' /\ s12'[i] \in SUBSET (Nat \X Nat)
<1>1. PICK A, R, u, M, W :
         /\ A = s11[i] /\ R = s12[i] /\ u = s7[i] /\ M = ChecksMax[name] /\ W = ChecksWindow
  OBVIOUS
<1>2. /\ s1 \in Nat /\ u.n \in Nat /\ u.since \in Nat /\ M \in Nat \ {0} /\ W \in Nat \ {0}
      /\ A \in SUBSET (Nat \X Nat) /\ R \in SUBSET (Nat \X Nat)
  BY <1>1, ChecksTypes
<1>3. /\ Checks(name)!Listed(A) /\ Checks(name)!Listed(R) /\ u.n <= M /\ u.since <= s1
  BY <1>1 DEF Checks!Counted
<1>4. /\ R \cup {z} \in SUBSET (Nat \X Nat) /\ IsFiniteSet(R \cup {z})
      /\ \A a \in R \cup {z} : a[1] <= s1' /\ a[2] < Cardinality(R \cup {z})
      /\ \A t \in Int : t < s1 =>
           Cardinality(Checks(name)!Since(R \cup {z}, t))
             = Cardinality(Checks(name)!Since(R, t)) + 1
      /\ \A t \in Int : t >= s1 => Cardinality(Checks(name)!Since(R \cup {z}, t)) = 0
  <2>1. z = <<s1, Cardinality(R)>> BY <1>1
  <2>2. s1 \in Nat /\ R \in SUBSET (Nat \X Nat) /\ Checks(name)!Listed(R) BY <1>2, <1>3
  <2>3. OneMore(name, R, z) BY <2>1, <2>2, SinceOne
  <2> QED BY <2>3 DEF OneMore
<1>5. Checks(name)!Listed(s11[i])' /\ Checks(name)!Listed(s12[i])'
  BY <1>1, <1>3, <1>4, ChecksCount DEF Checks!Listed
<1>6. s7'[i].n = 0 /\ s7'[i].since = 0 BY <1>1
<1>7. ASSUME NEW t \in Int, s1' - W <= t, t <= s1' PROVE Checks(name)!Within(i, t)'
  <2>1. PICK n, r, r1_ : /\ n = Cardinality(Checks(name)!Since(A, t))
                         /\ r = Cardinality(Checks(name)!Since(R, t))
                         /\ r1_ = Cardinality(Checks(name)!Since(R \cup {z}, t)) OBVIOUS
  <2>2. n \in Nat /\ r \in Nat /\ (t >= s1 => n = 0)
    BY <1>2, <1>3, <2>1, SinceCounts
  <2>3. (t < s1 => r1_ = r + 1) /\ (t >= s1 => r1_ = 0) BY <1>4, <2>1
  <2>4. PICK un, us : un = u.n /\ us = u.since OBVIOUS
  <2>5. un \in Nat /\ un <= M BY <1>2, <1>3, <2>4
  <2>6. IF un > 0 /\ us <= t THEN n < M * r + un ELSE n < M * r + un + M
    <3>1. Checks(name)!Within(i, t) BY <1>1, <1>7 DEF Checks!Counted
    <3> QED BY <1>1, <2>1, <2>4, <3>1, ChecksCount DEF Checks!Within
  <2>7. n < M * r1_ + M
    <3>1. CASE t >= s1 BY <1>2, <2>2, <2>3, <3>1
    <3>2. CASE t < s1
      <4>1. PICK w, w1_ : w = M * r /\ w1_ = M * r1_ OBVIOUS
      <4>2. w \in Nat /\ w1_ = w + M BY <1>2, <2>2, <2>3, <3>2, <4>1
      <4> QED BY <1>2, <2>2, <2>5, <2>6, <4>1, <4>2
    <3> QED BY <1>2, <3>1, <3>2
  <2>8. n < M * r1_ + 0 + M
    <3>1. PICK w : w = M * r1_ OBVIOUS
    <3>2. r1_ \in Nat BY <1>2, <2>2, <2>3
    <3>3. w \in Nat /\ n < w + M BY <1>2, <2>7, <3>1, <3>2
    <3>4. n < w + 0 + M BY <1>2, <3>3
    <3> QED BY <3>1, <3>4
  <2>9. ~(s7'[i].n > 0) BY <1>6
  <2> QED BY <1>1, <1>6, <2>1, <2>8, <2>9, ChecksCount DEF Checks!Within
<1>8. s7'[i].n <= M /\ s7'[i].since <= s1' BY <1>2, <1>6
<1>9. s12'[i] \in SUBSET (Nat \X Nat) BY <1>1, <1>4
<1> QED BY <1>1, <1>5, <1>7, <1>8, <1>9 DEF Checks!Counted

(* A step that takes no check and empties no budget. *)
LEMMA NoCheck ==
  ASSUME NEW name \in ChecksNames, Checks(name)!ProbesConstants, Checks(name)!IInv,
         s1' \in Nat, s1' >= s1, s7' = s7, s11' = s11, s12' = s12,
         s4' \in Nat, s5' \in Nat, s10' \in SUBSET Nat, Checks(name)!Noted',
         s8' \in Checks(name)!CallType
  PROVE  Checks(name)!IInv'
<1>1. Checks(name)!Intents' = Checks(name)!Intents BY DEF Checks!Intents
<1>2. Checks(name)!TypeOK' BY <1>1 DEF Checks!IInv, Checks!TypeOK, Checks!CallType, Checks!Calls
<1>3. ASSUME NEW i \in Checks(name)!Intents PROVE Checks(name)!Counted(i)'
  BY CountedRest DEF Checks!IInv
<1> QED BY <1>1, <1>2, <1>3 DEF Checks!IInv

(* The breaker closes for longer, never for less. *)
LEMMA BlockLengthens ==
  ASSUME NEW name \in ChecksNames, Checks(name)!ProbesConstants,
         Checks(name)!TypeOK, NEW k \in Nat, Checks(name)!Block(k)
  PROVE  s4' \in Nat /\ s5' \in Nat /\ s4' >= s4 /\ s4' >= s1 + k
<1>1. s1 \in Nat /\ s4 \in Nat /\ s5 \in Nat BY DEF Checks!TypeOK
<1>2. s4' = Checks(name)!Longer(s4, k) /\ (s5' = Checks(name)!Longer(s5, k) \/ s5' = 0)
  BY DEF Checks!Block
<1>3. s4' \in Nat /\ s4' >= s4 /\ s4' >= s1 + k BY <1>1, <1>2, LongerIs
<1>4. Checks(name)!Longer(s5, k) \in Nat BY <1>1, LongerIs
<1> QED BY <1>2, <1>3, <1>4

(* The calls are as they were. *)
LEMMA NotedSame ==
  ASSUME NEW name \in ChecksNames, Checks(name)!ProbesConstants,
         Checks(name)!TypeOK, Checks(name)!Noted,
         s1' = s1, s8' = s8, s10' = s10, s4' \in Nat, s4' >= s4
  PROVE  Checks(name)!Noted'
<1>1. s4 \in Nat /\ s10 \in SUBSET Nat /\ ChecksQuota \in Nat BY ChecksTypes
<1>2. \A d \in s10 : s4 >= d + ChecksQuota => s4' >= d + ChecksQuota BY <1>1
<1> QED BY <1>2 DEF Checks!Noted, Checks!Telling, Checks!Calls

(* One call goes on: what is heard of it is noted, or it tells of it. *)
LEMMA NotedStep ==
  ASSUME NEW name \in ChecksNames, Checks(name)!ProbesConstants,
         Checks(name)!TypeOK, Checks(name)!Noted, s1' = s1, s4' \in Nat, s10' \in SUBSET Nat,
         NEW p \in Checks(name)!Calls, NEW v \in Checks(name)!CallRec,
         s8' = [s8 EXCEPT ![p] = v],
         v.told # "no" => v.c # None /\ v.at = s1,
         \A d \in s10' : \/ s4' >= d + ChecksQuota
                         \/ /\ d \in s10 /\ s4' >= s4
                            /\ s8[p].told # "no" => s4' >= s1 + ChecksQuota
                         \/ v.told # "no" /\ v.at = d
  PROVE  Checks(name)!Noted' /\ s8' \in Checks(name)!CallType
<1>1. /\ s1 \in Nat /\ s4 \in Nat /\ s10 \in SUBSET Nat
      /\ ChecksQuota \in Nat /\ ChecksLag \in Nat
  BY ChecksTypes
<1>2. s8 \in Checks(name)!CallType BY DEF Checks!TypeOK
<1>3. s8' \in Checks(name)!CallType BY <1>2 DEF Checks!CallType
<1>4. s8'[p] = v /\ \A q \in Checks(name)!Calls : q # p => s8'[q] = s8[q]
  BY <1>2 DEF Checks!CallType
<1>5. ASSUME NEW d \in s10' PROVE s4' >= d + ChecksQuota \/ Checks(name)!Telling(d)'
  <2>1. CASE /\ d \in s10 /\ s4' >= s4
             /\ s8[p].told # "no" => s4' >= s1 + ChecksQuota
    <3>1. d \in Nat BY <1>1, <2>1
    <3>2. CASE s4 >= d + ChecksQuota BY <1>1, <2>1, <3>1, <3>2
    <3>3. CASE Checks(name)!Telling(d)
      <4>1. PICK q \in Checks(name)!Calls : s8[q].told # "no" /\ s8[q].at = d
        BY <3>3 DEF Checks!Telling
      <4>2. CASE q = p
        <5>1. d <= s1 /\ s4' >= s1 + ChecksQuota BY <2>1, <4>1, <4>2 DEF Checks!Noted
        <5> QED BY <1>1, <3>1, <5>1
      <4>3. CASE q # p
        <5>1. s8'[q].told # "no" /\ s8'[q].at = d BY <1>4, <4>1, <4>3
        <5> QED BY <5>1 DEF Checks!Telling, Checks!Calls
      <4> QED BY <4>2, <4>3
    <3> QED BY <2>1, <3>2, <3>3 DEF Checks!Noted
  <2>2. CASE v.told # "no" /\ v.at = d BY <1>4, <2>2 DEF Checks!Telling, Checks!Calls
  <2> QED BY <2>1, <2>2
<1>6. ASSUME NEW q \in Checks(name)!Calls, s8'[q].told # "no"
      PROVE  s8'[q].c # None /\ s8'[q].at <= s1' /\ s1' <= s8'[q].at + ChecksLag
  <2>1. CASE q = p BY <1>1, <1>4, <1>6, <2>1
  <2>2. CASE q # p BY <1>4, <1>6, <2>2 DEF Checks!Noted
  <2> QED BY <2>1, <2>2
<1> QED BY <1>3, <1>5, <1>6 DEF Checks!Noted, Checks!Calls

(* An answer, whatever it is. *)
LEMMA ChecksAnswer ==
  ASSUME NEW name \in ChecksNames, Checks(name)!ProbesConstants, Checks(name)!IInv,
         NEW p \in Checks(name)!Calls,
         Checks(name)!Answer(p) \/ Checks(name)!Alert(p) \/ Checks(name)!Told(p)
  PROVE  Checks(name)!IInv'
<1>1. Checks(name)!TypeOK /\ Checks(name)!Noted BY DEF Checks!IInv
<1>2. /\ s1 \in Nat /\ s4 \in Nat /\ s5 \in Nat /\ s10 \in SUBSET Nat
      /\ ChecksQuota \in Nat /\ ChecksBrief \in Nat
  BY <1>1, ChecksTypes
<1>3. s1' = s1 /\ s7' = s7 /\ s11' = s11 /\ s12' = s12
  BY DEF Checks!Answer, Checks!Alert, Checks!Told
<1>4. PICK q : q = [c |-> None, was |-> FALSE, told |-> "no", at |-> 0] OBVIOUS
<1>5. q \in Checks(name)!CallRec /\ q.told = "no" BY <1>4 DEF Checks!CallRec
<1>6. s8[p] \in Checks(name)!CallRec BY <1>1 DEF Checks!TypeOK, Checks!CallType
<1>7. CASE Checks(name)!Answer(p)
  <2>1. s8' = [s8 EXCEPT ![p] = q] /\ s8[p].told = "no"
    BY <1>4, <1>7 DEF Checks!Answer, Checks!Settled, Checks!Limited, Checks!Got, Checks!Quiet
  <2>2. \/ s4' = 0 /\ s5' = 0 /\ s10' = {}
        \/ UNCHANGED <<s4, s5, s10>>
        \/ Checks(name)!Block(ChecksQuota) /\ s10' = s10 \cup {s1}
        \/ \E k \in {ChecksQuota, ChecksBrief} : Checks(name)!Block(k) /\ s10' = s10
    BY <1>7 DEF Checks!Answer, Checks!Settled, Checks!Limited
  <2>3. /\ s4' \in Nat /\ s5' \in Nat /\ s10' \in SUBSET Nat
        /\ \A d \in s10' : s4' >= d + ChecksQuota \/ (d \in s10 /\ s4' >= s4)
    <3>1. CASE s4' = 0 /\ s5' = 0 /\ s10' = {} BY <3>1
    <3>2. CASE UNCHANGED <<s4, s5, s10>> BY <1>2, <3>2
    <3>3. CASE Checks(name)!Block(ChecksQuota) /\ s10' = s10 \cup {s1}
      BY <1>1, <1>2, <3>3, BlockLengthens
    <3>4. ASSUME NEW k \in {ChecksQuota, ChecksBrief}, Checks(name)!Block(k), s10' = s10
          PROVE  s4' \in Nat /\ s5' \in Nat /\ s4' >= s4
      <4>1. k \in Nat BY <1>2
      <4> QED BY <1>1, <3>4, <4>1, BlockLengthens
    <3> QED BY <1>2, <2>2, <3>1, <3>2, <3>3, <3>4
  <2>4. Checks(name)!Noted' /\ s8' \in Checks(name)!CallType
    BY <1>1, <1>3, <1>5, <2>1, <2>3, NotedStep
  <2> QED BY <1>2, <1>3, <2>3, <2>4, NoCheck
<1>8. CASE Checks(name)!Alert(p)
  <2>1. PICK x \in {"unknown", "paid"} : s8' = [s8 EXCEPT ![p].told = x, ![p].at = s1]
    BY <1>8 DEF Checks!Alert
  <2>2. PICK v : v = [s8[p] EXCEPT !.told = x, !.at = s1] OBVIOUS
  <2>3. /\ v \in Checks(name)!CallRec /\ v.told # "no" /\ v.at = s1 /\ v.c = s8[p].c
        /\ s8' = [s8 EXCEPT ![p] = v]
    BY <1>1, <1>2, <1>6, <2>1, <2>2 DEF Checks!CallRec, Checks!CallType, Checks!TypeOK
  <2>4. /\ s10' = s10 \cup {s1} /\ s4' = s4 /\ s5' = s5 /\ s8[p].c # None /\ s8[p].told = "no"
    BY <1>8 DEF Checks!Alert
  <2>5. s10' \in SUBSET Nat /\ \A d \in s10' : (d \in s10 /\ s4' >= s4) \/ v.at = d
    BY <1>2, <2>3, <2>4
  <2>6. Checks(name)!Noted' /\ s8' \in Checks(name)!CallType
    BY <1>1, <1>2, <1>3, <2>3, <2>4, <2>5, NotedStep
  <2> QED BY <1>2, <1>3, <2>4, <2>5, <2>6, NoCheck
<1>9. CASE Checks(name)!Told(p)
  <2>1. s8' = [s8 EXCEPT ![p] = q]
    BY <1>4, <1>9 DEF Checks!Told, Checks!Settled, Checks!Limited, Checks!Got, Checks!Quiet
  <2>2. \/ s4' = 0 /\ s5' = 0 /\ s10' = {}
        \/ Checks(name)!Block(ChecksQuota) /\ s10' = s10
    BY <1>9 DEF Checks!Told, Checks!Settled, Checks!Limited
  <2>3. /\ s4' \in Nat /\ s5' \in Nat /\ s10' \in SUBSET Nat
        /\ \A d \in s10' : d \in s10 /\ s4' >= s4 /\ s4' >= s1 + ChecksQuota
    <3>1. CASE s4' = 0 /\ s5' = 0 /\ s10' = {} BY <3>1
    <3>2. CASE Checks(name)!Block(ChecksQuota) /\ s10' = s10
      BY <1>1, <1>2, <3>2, BlockLengthens
    <3> QED BY <2>2, <3>1, <3>2
  <2>4. Checks(name)!Noted' /\ s8' \in Checks(name)!CallType
    BY <1>1, <1>3, <1>5, <2>1, <2>3, NotedStep
  <2> QED BY <1>2, <1>3, <2>3, <2>4, NoCheck
<1> QED BY <1>7, <1>8, <1>9

(* No check leaves: the cache, the breaker or the budget answers. *)
LEMMA ChecksRefuse ==
  ASSUME NEW name \in ChecksNames, Checks(name)!ProbesConstants, Checks(name)!IInv,
         NEW p \in Checks(name)!Calls, NEW c \in ChecksCodes[name],
         Checks(name)!Hit(p, c) \/ Checks(name)!Refuse(p, c)
  PROVE  Checks(name)!IInv'
<1>1. Checks(name)!TypeOK /\ Checks(name)!Noted BY DEF Checks!IInv
<1>2. /\ s1 \in Nat /\ s4 \in Nat /\ s5 \in Nat /\ s10 \in SUBSET Nat /\ ChecksQuota \in Nat
  BY <1>1, ChecksTypes
<1>3. PICK q : q = [c |-> None, was |-> FALSE, told |-> "no", at |-> 0] OBVIOUS
<1>4. q \in Checks(name)!CallRec /\ q.told = "no" BY <1>3 DEF Checks!CallRec
<1>5. /\ s1' = s1 /\ s7' = s7 /\ s11' = s11 /\ s12' = s12 /\ s10' = s10
      /\ s8' = [s8 EXCEPT ![p] = q] /\ s8[p].c = None
      /\ Checks(name)!Block(ChecksQuota) \/ UNCHANGED <<s4, s5>>
  BY <1>3 DEF Checks!Hit, Checks!Refuse, Checks!Got, Checks!Quiet, Checks!MayCall
<1>6. s8[p].told = "no" BY <1>1, <1>5 DEF Checks!Noted
<1>7. s4' \in Nat /\ s5' \in Nat /\ s4' >= s4 BY <1>1, <1>2, <1>5, BlockLengthens
<1>8. Checks(name)!Noted' /\ s8' \in Checks(name)!CallType
  BY <1>1, <1>2, <1>4, <1>5, <1>6, <1>7, NotedStep
<1>9. s1' \in Nat /\ s1' >= s1 /\ s10' \in SUBSET Nat BY <1>2, <1>5
<1> QED BY <1>5, <1>7, <1>8, <1>9, NoCheck

(* A check leaves, of a buyer's budget or the sweeper's. *)
LEMMA ChecksAsk ==
  ASSUME NEW name \in ChecksNames, Checks(name)!ProbesConstants, Checks(name)!IInv,
         NEW p \in Checks(name)!Calls, NEW c \in ChecksCodes[name], Checks(name)!Ask(p, c)
  PROVE  Checks(name)!IInv'
<1>1. PICK i : i = ChecksIntents[name][c] OBVIOUS
<1>2. i \in Checks(name)!Intents BY <1>1 DEF Checks!Intents
<1>3. Checks(name)!TypeOK /\ Checks(name)!Noted BY DEF Checks!IInv
<1>4. /\ s1 \in Nat /\ s4 \in Nat /\ s5 \in Nat /\ s10 \in SUBSET Nat
  BY <1>3, ChecksTypes
<1>5. PICK v : v = [c |-> c, was |-> c \in s2, told |-> "no", at |-> 0] OBVIOUS
<1>6. v \in Checks(name)!CallRec /\ v.told = "no" BY <1>5 DEF Checks!CallRec
<1>7. /\ s1' = s1 /\ s4' = s4 /\ s5' = s5 /\ s10' = s10 /\ s12' = s12
      /\ s8' = [s8 EXCEPT ![p] = v] /\ s8[p].c = None
  BY <1>5 DEF Checks!Ask, Checks!MayCall
<1>8. s8[p].told = "no" BY <1>3, <1>7 DEF Checks!Noted
<1>9. Checks(name)!Noted' /\ s8' \in Checks(name)!CallType
  <2>1. s4' \in Nat /\ s10' \in SUBSET Nat /\ \A d \in s10' : d \in s10 /\ s4' >= s4
    BY <1>4, <1>7
  <2> QED BY <1>3, <1>6, <1>7, <1>8, <2>1, NotedStep
<1>10. CASE p = ChecksSweeper
  <2>1. s7' = s7 /\ s11' = s11 BY <1>10 DEF Checks!Ask
  <2>2. /\ s1' \in Nat /\ s1' >= s1 /\ s4' \in Nat /\ s5' \in Nat /\ s10' \in SUBSET Nat
    BY <1>4, <1>7
  <2> QED BY <1>7, <1>9, <2>1, <2>2, NoCheck
<1>11. CASE p # ChecksSweeper
  <2>1. /\ Checks(name)!Room(i) /\ s7' = Checks(name)!Consumed(i)
        /\ s11' = [s11 EXCEPT ![i] = s11[i] \cup {<<s1, Checks(name)!Cardinality(s11[i])>>}]
    BY <1>1, <1>11 DEF Checks!Ask
  <2>2. PICK z : z = <<s1, Cardinality(s11[i])>> OBVIOUS
  <2>3. PICK u : u = IF Checks(name)!Running(i) THEN [s7[i] EXCEPT !.n = @ + 1]
                     ELSE [n |-> 1, since |-> s1] OBVIOUS
  <2>4. s11' = [s11 EXCEPT ![i] = s11[i] \cup {z}] BY <2>1, <2>2, ChecksCount
  <2>5. s7' = [s7 EXCEPT ![i] = u] BY <2>1, <2>3 DEF Checks!Consumed
  <2>6. /\ s7 \in [Checks(name)!Intents -> [n : Nat, since : Nat]]
        /\ s11 \in [Checks(name)!Intents -> SUBSET (Nat \X Nat)]
        /\ s12 \in [Checks(name)!Intents -> SUBSET (Nat \X Nat)]
    BY <1>3 DEF Checks!TypeOK
  <2>7. s7'[i] = u /\ s11'[i] = s11[i] \cup {z} BY <1>2, <2>4, <2>5, <2>6
  <2>8. \A j \in Checks(name)!Intents : Checks(name)!Counted(j) BY DEF Checks!IInv
  <2>9. Checks(name)!Counted(i)' /\ s11'[i] \in SUBSET (Nat \X Nat)
    BY <1>2, <1>3, <1>7, <2>1, <2>2, <2>3, <2>6, <2>7, <2>8, CheckTaken
  <2>10. ASSUME NEW j \in Checks(name)!Intents, j # i PROVE Checks(name)!Counted(j)'
    <3>1. s7'[j] = s7[j] /\ s11'[j] = s11[j] BY <2>4, <2>5, <2>6, <2>10
    <3>2. s1' \in Nat /\ s1' >= s1 BY <1>4, <1>7
    <3> QED BY <1>3, <1>7, <2>8, <3>1, <3>2, CountedRest
  <2>11. s7[i].n \in Nat /\ s7[i] \in [n : Nat, since : Nat] BY <1>2, <2>6
  <2>12. u \in [n : Nat, since : Nat] BY <1>4, <2>3, <2>11
  <2>13. Checks(name)!Intents' = Checks(name)!Intents BY DEF Checks!Intents
  <2>14. /\ s7' \in [Checks(name)!Intents -> [n : Nat, since : Nat]]
         /\ s11' \in [Checks(name)!Intents -> SUBSET (Nat \X Nat)]
    <3>1. s11[i] \cup {z} \in SUBSET (Nat \X Nat) BY <2>7, <2>9
    <3> QED BY <1>2, <2>4, <2>5, <2>6, <2>12, <3>1
  <2>15. Checks(name)!TypeOK'
    BY <1>4, <1>7, <1>9, <2>6, <2>13, <2>14 DEF Checks!TypeOK, Checks!CallType, Checks!Calls
  <2> QED BY <1>9, <2>9, <2>10, <2>13, <2>15 DEF Checks!IInv
<1> QED BY <1>10, <1>11

(* A regenerated code gives its intent a new budget. *)
LEMMA ChecksAgain ==
  ASSUME NEW name \in ChecksNames, Checks(name)!ProbesConstants, Checks(name)!IInv,
         NEW i \in Checks(name)!Intents, Checks(name)!Regenerate(i)
  PROVE  Checks(name)!IInv'
<1>1. PICK z : z = <<s1, Cardinality(s12[i])>> OBVIOUS
<1>2. /\ s7' = [s7 EXCEPT ![i] = [n |-> 0, since |-> 0]]
      /\ s12' = [s12 EXCEPT ![i] = s12[i] \cup {z}]
      /\ s1' = s1 /\ s4' = s4 /\ s5' = s5 /\ s8' = s8 /\ s10' = s10 /\ s11' = s11
  BY <1>1, ChecksCount DEF Checks!Regenerate
<1>3. Checks(name)!TypeOK /\ Checks(name)!Noted
        /\ \A j \in Checks(name)!Intents : Checks(name)!Counted(j)
  BY DEF Checks!IInv
<1>4. /\ s1 \in Nat /\ s4 \in Nat
      /\ s7 \in [Checks(name)!Intents -> [n : Nat, since : Nat]]
      /\ s11 \in [Checks(name)!Intents -> SUBSET (Nat \X Nat)]
      /\ s12 \in [Checks(name)!Intents -> SUBSET (Nat \X Nat)]
  BY <1>3 DEF Checks!TypeOK
<1>5. Checks(name)!Intents' = Checks(name)!Intents BY DEF Checks!Intents
<1>6. s7'[i] = [n |-> 0, since |-> 0] /\ s12'[i] = s12[i] \cup {z} /\ s11'[i] = s11[i]
  BY <1>2, <1>4
<1>7. Checks(name)!Counted(i)' /\ s12'[i] \in SUBSET (Nat \X Nat)
  BY <1>1, <1>2, <1>3, <1>6, BudgetEmptied
<1>8. ASSUME NEW j \in Checks(name)!Intents, j # i PROVE Checks(name)!Counted(j)'
  <2>1. s7'[j] = s7[j] /\ s12'[j] = s12[j] /\ s11'[j] = s11[j] BY <1>2, <1>4, <1>8
  <2>2. s1' \in Nat /\ s1' >= s1 BY <1>2, <1>4
  <2> QED BY <1>3, <2>1, <2>2, CountedRest
<1>9. /\ s7' \in [Checks(name)!Intents -> [n : Nat, since : Nat]]
      /\ s12' \in [Checks(name)!Intents -> SUBSET (Nat \X Nat)]
  <2>1. s12[i] \cup {z} \in SUBSET (Nat \X Nat) BY <1>6, <1>7
  <2> QED BY <1>2, <1>4, <2>1
<1>10. s4' \in Nat /\ s4' >= s4 BY <1>2, <1>4
<1>11. Checks(name)!Noted' BY <1>2, <1>3, <1>10, NotedSame
<1>12. Checks(name)!TypeOK'
  BY <1>2, <1>3, <1>5, <1>9 DEF Checks!TypeOK, Checks!CallType, Checks!Calls
<1> QED BY <1>5, <1>7, <1>8, <1>11, <1>12 DEF Checks!IInv

(* The clock waits for whoever tells. *)
LEMMA ChecksTick ==
  ASSUME NEW name \in ChecksNames, Checks(name)!ProbesConstants, Checks(name)!IInv,
         Checks(name)!Tick
  PROVE  Checks(name)!IInv'
<1>1. Checks(name)!TypeOK /\ Checks(name)!Noted BY DEF Checks!IInv
<1>2. /\ s1 \in Nat /\ s4 \in Nat /\ s5 \in Nat /\ s10 \in SUBSET Nat
      /\ ChecksQuota \in Nat /\ ChecksLag \in Nat
      /\ \A p \in Checks(name)!Calls : s8[p].at \in Nat
  BY <1>1, ChecksTypes
<1>3. /\ s1' = s1 + 1 /\ s4' = s4 /\ s5' = s5 /\ s7' = s7 /\ s8' = s8 /\ s11' = s11
      /\ s12' = s12 /\ s10' \in SUBSET s10
      /\ \A p \in Checks(name)!Calls : s8[p].told # "no" => s1 < s8[p].at + ChecksLag
  BY DEF Checks!Tick
<1>4. \A p \in Checks(name)!Calls : s8[p].told # "no" =>
        s8[p].c # None /\ s8[p].at <= s1 + 1 /\ s1 + 1 <= s8[p].at + ChecksLag
  <2> SUFFICES ASSUME NEW p \in Checks(name)!Calls, s8[p].told # "no"
               PROVE  s8[p].c # None /\ s8[p].at <= s1 + 1 /\ s1 + 1 <= s8[p].at + ChecksLag
    OBVIOUS
  <2>1. s8[p].c # None /\ s8[p].at <= s1 /\ s1 < s8[p].at + ChecksLag
    BY <1>1, <1>3 DEF Checks!Noted
  <2> QED BY <1>2, <2>1
<1>5. Checks(name)!Noted'
  BY <1>1, <1>3, <1>4 DEF Checks!Noted, Checks!Telling, Checks!Calls
<1>6. s8' \in Checks(name)!CallType BY <1>1, <1>3 DEF Checks!TypeOK
<1>7. s1' \in Nat /\ s1' >= s1 BY <1>2, <1>3
<1>8. s10' \in SUBSET Nat BY <1>2, <1>3
<1> QED BY <1>2, <1>3, <1>5, <1>6, <1>7, <1>8, NoCheck

(* Every step keeps it. *)
LEMMA ChecksNext ==
  ASSUME NEW name \in ChecksNames, Checks(name)!ProbesConstants, Checks(name)!IInv,
         [Checks(name)!Next]_(Checks(name)!vars)
  PROVE  Checks(name)!IInv'
<1>1. Checks(name)!TypeOK /\ Checks(name)!Noted BY DEF Checks!IInv
<1>2. /\ s1 \in Nat /\ s4 \in Nat /\ s5 \in Nat /\ s10 \in SUBSET Nat
      /\ ChecksQuota \in Nat /\ ChecksBrief \in Nat /\ s8 \in Checks(name)!CallType
  BY <1>1, ChecksTypes DEF Checks!TypeOK
<1>3. ASSUME s1' = s1, s7' = s7, s8' = s8, s10' = s10, s11' = s11, s12' = s12,
             s4' \in Nat, s4' >= s4, s5' \in Nat
      PROVE  Checks(name)!IInv'
  <2>1. Checks(name)!Noted' BY <1>1, <1>3, NotedSame
  <2>2. s1' \in Nat /\ s1' >= s1 /\ s10' \in SUBSET Nat /\ s8' \in Checks(name)!CallType
    BY <1>2, <1>3
  <2> QED BY <1>3, <2>1, <2>2, NoCheck
<1>4. CASE Checks(name)!Tick BY <1>4, ChecksTick
<1>5. CASE Checks(name)!Others
  <2>1. s5' \in Nat BY <1>2, <1>5 DEF Checks!Others
  <2>2. s4' \in Nat /\ s4' >= s4 BY <1>2, <1>5 DEF Checks!Others
  <2> QED BY <1>3, <1>5, <2>1, <2>2 DEF Checks!Others
<1>6. CASE Checks(name)!StopPass
  <2>1. /\ s1' = s1 /\ s7' = s7 /\ s8' = s8 /\ s11' = s11 /\ s12' = s12 /\ s10' = s10
        /\ Checks(name)!Block(ChecksQuota)
    BY <1>6 DEF Checks!StopPass
  <2>2. s4' \in Nat /\ s5' \in Nat /\ s4' >= s4 BY <1>1, <1>2, <2>1, BlockLengthens
  <2> QED BY <1>3, <2>1, <2>2
<1>7. ASSUME UNCHANGED <<s1, s4, s5, s7, s8, s10, s11, s12>> PROVE Checks(name)!IInv'
  <2>1. s4' \in Nat /\ s4' >= s4 /\ s5' \in Nat BY <1>2, <1>7
  <2> QED BY <1>3, <1>7, <2>1
<1>8. CASE \E c \in ChecksCodes[name] : Checks(name)!Pay(c)
  BY <1>7, <1>8 DEF Checks!Pay
<1>9. CASE \E cs \in SUBSET ChecksCodes[name] : Checks(name)!StartPass(cs)
  BY <1>7, <1>9 DEF Checks!StartPass
<1>10. CASE \E i \in Checks(name)!Intents : Checks(name)!Regenerate(i)
  BY <1>10, ChecksAgain
<1>11. CASE \E p \in Checks(name)!Calls :
              Checks(name)!Answer(p) \/ Checks(name)!Alert(p) \/ Checks(name)!Told(p)
  BY <1>11, ChecksAnswer
<1>12. CASE \E p \in Checks(name)!Calls : \E c \in ChecksCodes[name] :
              Checks(name)!Hit(p, c) \/ Checks(name)!Refuse(p, c)
  BY <1>12, ChecksRefuse
<1>13. CASE \E p \in Checks(name)!Calls : \E c \in ChecksCodes[name] : Checks(name)!Ask(p, c)
  BY <1>13, ChecksAsk
<1>14. CASE UNCHANGED Checks(name)!vars
  BY <1>7, <1>14 DEF Checks!vars
<1> QED
  BY <1>4, <1>5, <1>6, <1>8, <1>9, <1>10, <1>11, <1>12, <1>13, <1>14 DEF Checks!Next

(* Nobody asks NBC before the breaker of this process opens, which is      *)
(* closed unless the call that heard of the limit is still telling.        *)
LEMMA ChecksSilent ==
  ASSUME NEW name \in ChecksNames, Checks(name)!ProbesConstants, Checks(name)!IInv
  PROVE  Checks(name)!Silent
<1>1. Checks(name)!TypeOK /\ Checks(name)!Noted BY DEF Checks!IInv
<1>2. s1 \in Nat /\ s4 \in Nat /\ s10 \in SUBSET Nat /\ ChecksQuota \in Nat
  BY <1>1, ChecksTypes
<1> SUFFICES ASSUME NEW p \in Checks(name)!Calls, NEW c \in ChecksCodes[name],
                    Checks(name)!Ask(p, c), NEW d \in s10
             PROVE  \/ s1 >= d + ChecksQuota
                    \/ Checks(name)!Telling(d) /\ s1 <= d + ChecksLag
  BY DEF Checks!Silent
<1>3. s1 >= s4 BY <1>2 DEF Checks!Ask, Checks!Blocked
<1>4. CASE s4 >= d + ChecksQuota BY <1>2, <1>3, <1>4
<1>5. CASE Checks(name)!Telling(d) BY <1>1, <1>5 DEF Checks!Telling, Checks!Noted
<1> QED BY <1>1, <1>4, <1>5 DEF Checks!Noted

(* A stretch holds what is left of a window, a window, and one for each    *)
(* new code.                                                               *)
LEMMA ChecksFew ==
  ASSUME NEW name \in ChecksNames, Checks(name)!ProbesConstants, Checks(name)!IInv
  PROVE  Checks(name)!ChecksBounded
<1> SUFFICES ASSUME NEW i \in Checks(name)!Intents
             PROVE  Cardinality(Checks(name)!Since(s11[i], s1 - ChecksWindow))
                      < ChecksMax[name]
                        * (2 + Cardinality(Checks(name)!Since(s12[i], s1 - ChecksWindow)))
  BY ChecksCount DEF Checks!ChecksBounded
<1>1. PICK A, R, un, M, t :
         /\ A = s11[i] /\ R = s12[i] /\ un = s7[i].n /\ M = ChecksMax[name]
         /\ t = s1 - ChecksWindow
  OBVIOUS
<1>2. Checks(name)!TypeOK /\ Checks(name)!Counted(i) BY DEF Checks!IInv
<1>3. /\ s1 \in Nat /\ un \in Nat /\ M \in Nat \ {0} /\ ChecksWindow \in Nat
      /\ A \in SUBSET (Nat \X Nat) /\ R \in SUBSET (Nat \X Nat)
  BY <1>1, <1>2, ChecksTypes
<1>4. t \in Int /\ s1 - ChecksWindow <= t /\ t <= s1 BY <1>1, <1>3
<1>5. /\ Checks(name)!Listed(A) /\ Checks(name)!Listed(R) /\ un <= M
      /\ Checks(name)!Within(i, t)
  BY <1>1, <1>2, <1>4 DEF Checks!Counted
<1>6. PICK n, r : /\ n = Cardinality(Checks(name)!Since(A, t))
                  /\ r = Cardinality(Checks(name)!Since(R, t)) OBVIOUS
<1>7. n \in Nat /\ r \in Nat BY <1>3, <1>4, <1>5, <1>6, SinceCounts
<1>8. n < M * r + un + M \/ n < M * r + un
  BY <1>1, <1>5, <1>6, ChecksCount DEF Checks!Within
<1>9. PICK w : w = M * r OBVIOUS
<1>10. w \in Nat /\ M * (2 + r) = w + M + M BY <1>3, <1>7, <1>9
<1>11. n < w + M + M BY <1>3, <1>5, <1>7, <1>8, <1>9, <1>10
<1> QED BY <1>1, <1>6, <1>10, <1>11

-----------------------------------------------------------------------------
(* Uploads. Here s1 to s11 are slug, parts, url, export, file, video,      *)
(* images, row, req, mixed and loose.                                      *)
UploadNames == {"clips", "covers", "audio", "logos"}

(* Nothing is there yet. *)
LEMMA UploadInit ==
  ASSUME NEW name \in UploadNames, Upload(name)!UploadsConstants, Upload(name)!Init
  PROVE  Upload(name)!IInv
<1>1. /\ Upload(name)!Idle \in Upload(name)!ReqType
      /\ Upload(name)!Idle.at = "none" /\ Upload(name)!Idle.t = None
      /\ Upload(name)!Idle.f = None /\ Upload(name)!Idle.key = None
      /\ Upload(name)!Idle.video = FALSE
  BY DEF Upload!Idle, Upload!ReqType, Upload!Steps
<1>2. \A r \in UploadRequests[name] : s9[r] = Upload(name)!Idle BY DEF Upload!Init
<1>3. Upload(name)!TypeOK
  BY <1>1 DEF Upload!Init, Upload!TypeOK
<1>4. \A r \in UploadRequests[name] : Upload(name)!Drafts(r)
  BY <1>1, <1>2 DEF Upload!Drafts
<1>5. \A t \in UploadTitles[name] : s1[t] = None /\ s8[t] = None /\ s2[t] = "none"
  BY DEF Upload!Init
<1>6. Upload(name)!Pictures /\ Upload(name)!Streams /\ Upload(name)!Alone
  BY <1>5 DEF Upload!Pictures, Upload!Streams, Upload!Alone
<1>7. Upload(name)!Owned
  BY <1>1, <1>2, <1>5 DEF Upload!Owned, Upload!Owner, Upload!UploadsConstants
<1>8. Upload(name)!Started
  BY <1>1, <1>2, <1>5 DEF Upload!Started, Upload!Init, Upload!UploadsConstants
<1> QED BY <1>3, <1>4, <1>6, <1>7, <1>8 DEF Upload!IInv

(* A step that touches pictures only where nobody holds them. *)
LEMMA PicturesKept ==
  ASSUME NEW name \in UploadNames, Upload(name)!UploadsConstants, Upload(name)!IInv,
         s9' = s9, s11' = s11, s7 \subseteq s7',
         \A t \in UploadTitles[name] :
           s8'[t] = None \/ (s8[t] # None /\ s8'[t].image = s8[t].image),
         \A f \in UploadFiles[name] : s5[f] # None => s5'[f] = s5[f]
  PROVE  Upload(name)!Pictures' /\ \A r \in UploadRequests[name] : Upload(name)!Drafts(r)'
<1>1. ASSUME NEW f \in UploadFiles[name], s5[f] # None
      PROVE  Upload(name)!Sent(f)' = Upload(name)!Sent(f) /\ s5'[f] = s5[f]
  BY <1>1 DEF Upload!Sent
<1>2. ASSUME NEW t \in UploadTitles[name], NEW key, Upload(name)!Pictured(t, key)
      PROVE  Upload(name)!Pictured(t, key)'
  BY <1>1, <1>2 DEF Upload!Pictured
<1>3. Upload(name)!Pictures'
  BY <1>2 DEF Upload!IInv, Upload!Pictures
<1>4. ASSUME NEW r \in UploadRequests[name] PROVE Upload(name)!Drafts(r)'
  <2>1. Upload(name)!Drafts(r) /\ s9[r] \in Upload(name)!ReqType
    BY DEF Upload!IInv, Upload!TypeOK
  <2>2. s9[r].f \in UploadFiles[name] \cup {None} BY <2>1 DEF Upload!ReqType
  <2>3. CASE s9[r].f = None BY <2>1, <2>3 DEF Upload!Drafts
  <2>4. CASE s9[r].f # None
    <3>1. /\ s5[s9[r].f] # None /\ s9[r].f \in UploadFiles[name]
          /\ s9[r].t \in UploadTitles[name]
      BY <2>1, <2>2, <2>4 DEF Upload!Drafts
    <3>2. Upload(name)!Sent(s9[r].f)' = Upload(name)!Sent(s9[r].f)
            /\ s5'[s9[r].f] = s5[s9[r].f]
      BY <1>1, <3>1
    <3>3. Upload(name)!Holds(s9[r], s9[r].f) => Upload(name)!Holds(s9[r], s9[r].f)'
      BY <3>1, <3>2 DEF Upload!Holds
    <3> QED BY <2>1, <2>4, <3>1, <3>2, <3>3 DEF Upload!Drafts
  <2> QED BY <2>3, <2>4
<1> QED BY <1>3, <1>4

(* A step of one request: the others keep what they hold. *)
LEMMA PicturesHeld ==
  ASSUME NEW name \in UploadNames, Upload(name)!UploadsConstants, Upload(name)!IInv,
         NEW r \in UploadRequests[name], s5' = s5, s8' = s8, s7 \subseteq s7',
         s11 \subseteq s11',
         \A o \in UploadRequests[name] \ {r} : s9'[o] = s9[o],
         \/ s9'[r].f \in {None, s9[r].f} \cup s11'
         \/ \A o \in UploadRequests[name] : s9[o].f # s9'[r].f,
         Upload(name)!Drafts(r)'
  PROVE  Upload(name)!Pictures' /\ \A q \in UploadRequests[name] : Upload(name)!Drafts(q)'
<1>1. \A f : Upload(name)!Sent(f)' = Upload(name)!Sent(f) BY DEF Upload!Sent
<1>2. ASSUME NEW t \in UploadTitles[name], NEW key, Upload(name)!Pictured(t, key)
      PROVE  Upload(name)!Pictured(t, key)'
  BY <1>1, <1>2 DEF Upload!Pictured
<1>3. Upload(name)!Pictures'
  BY <1>2 DEF Upload!IInv, Upload!Pictures
<1>4. ASSUME NEW q \in UploadRequests[name] \ {r} PROVE Upload(name)!Drafts(q)'
  <2>1. Upload(name)!Drafts(q) /\ s9'[q] = s9[q] /\ Upload(name)!Drafts(r)
    BY DEF Upload!IInv
  <2>2. \A f : Upload(name)!Holds(s9[q], f) => Upload(name)!Holds(s9[q], f)'
    BY <1>1 DEF Upload!Holds
  <2>3. ASSUME s9[q].f # None, s9[q].f \notin s11'
        PROVE  s9'[r].f # s9[q].f
    <3>1. s9[r].f # s9[q].f
      BY <2>1, <2>3 DEF Upload!Drafts
    <3> QED BY <2>3, <3>1
  <2>4. ASSUME s9[q].f # None, s9[q].f \notin s11'
        PROVE  \A o \in UploadRequests[name] \ {q} : s9'[o].f # s9'[q].f
    <3>1. \A o \in UploadRequests[name] \ {q} : s9[o].f # s9[q].f
      BY <2>1, <2>4 DEF Upload!Drafts
    <3> QED BY <2>1, <2>3, <2>4, <3>1
  <2>5. Upload(name)!Holds(s9[q], s9[q].f) => Upload(name)!Holds(s9[q], s9[q].f)'
    BY <2>2
  <2> QED BY <1>1, <2>1, <2>4, <2>5 DEF Upload!Drafts
<1> QED BY <1>3, <1>4

(* It goes on with the same picture, *)
LEMMA PicturesTurn ==
  ASSUME NEW name \in UploadNames, Upload(name)!UploadsConstants, Upload(name)!IInv,
         NEW r \in UploadRequests[name], s5' = s5, s8' = s8, s7 \subseteq s7',
         s11 \subseteq s11', NEW x \in Upload(name)!ReqType, s9' = [s9 EXCEPT ![r] = x],
         x.t = s9[r].t, x.f = s9[r].f, x.video = s9[r].video,
         x.at # "none" => s9[r].at # "none",
         x.at \in {"get", "put", "delete"} => x.f # None,
         x.key # None => x.f # None /\ x.key \in {Upload(name)!Sent(x.f), <<x.f, "webp">>},
         x.at = "delete" => Upload(name)!Sent(x.f) # <<x.f, "webp">>,
         x.f # None /\ x.f \notin s11' => Upload(name)!Holds(x, x.f)'
  PROVE  Upload(name)!Pictures' /\ \A q \in UploadRequests[name] : Upload(name)!Drafts(q)'
<1>1. /\ s9'[r] = x /\ \A o \in UploadRequests[name] \ {r} : s9'[o] = s9[o]
      /\ Upload(name)!Drafts(r)
  BY DEF Upload!IInv, Upload!TypeOK
<1>2. \A f : Upload(name)!Sent(f)' = Upload(name)!Sent(f) BY DEF Upload!Sent
<1>3. x.f # None /\ x.f \notin s11' => \A o \in UploadRequests[name] \ {r} : s9'[o].f # x.f
  BY <1>1 DEF Upload!Drafts
<1>4. Upload(name)!Drafts(r)' BY <1>1, <1>2, <1>3 DEF Upload!Drafts
<1> QED BY <1>1, <1>4, PicturesHeld

(* or ends. *)
LEMMA PicturesDone ==
  ASSUME NEW name \in UploadNames, Upload(name)!UploadsConstants, Upload(name)!IInv,
         NEW r \in UploadRequests[name], s5' = s5, s8' = s8, s7 \subseteq s7',
         s11 \subseteq s11', s9' = [s9 EXCEPT ![r] = Upload(name)!Idle]
  PROVE  Upload(name)!Pictures' /\ \A q \in UploadRequests[name] : Upload(name)!Drafts(q)'
<1>1. /\ s9'[r] = Upload(name)!Idle
      /\ \A o \in UploadRequests[name] \ {r} : s9'[o] = s9[o]
  BY DEF Upload!IInv, Upload!TypeOK
<1>2. /\ Upload(name)!Idle.at = "none" /\ Upload(name)!Idle.f = None
      /\ Upload(name)!Idle.key = None /\ Upload(name)!Idle.video = FALSE
  BY DEF Upload!Idle
<1>3. Upload(name)!Drafts(r)' BY <1>1, <1>2 DEF Upload!Drafts
<1> QED BY <1>1, <1>2, <1>3, PicturesHeld

(* A request begins. *)
LEMMA PicturesBegun ==
  ASSUME NEW name \in UploadNames, Upload(name)!UploadsConstants, Upload(name)!IInv,
         NEW r \in UploadRequests[name], NEW op, NEW at, NEW t \in UploadTitles[name],
         NEW f \in UploadFiles[name] \cup {None}, NEW v,
         Upload(name)!Begin(r, op, at, t, f, v),
         v => UploadKinds[name][t] \in Upload(name)!Content,
         at \in {"assemble", "look"}
           \/ (at = "get" /\ f # None /\ UploadKinds[name][t] \in Upload(name)!Unchecked)
  PROVE  Upload(name)!Pictures' /\ \A q \in UploadRequests[name] : Upload(name)!Drafts(q)'
<1>1. /\ f \in Upload(name)!Of(t) \cup {None}
      /\ s11' = IF f # None /\ Upload(name)!Doubtful(t, f) THEN s11 \cup {f} ELSE s11
      /\ s5' = s5 /\ s7' = s7 /\ s8' = s8
  BY DEF Upload!Begin
<1>2. PICK x : /\ s9' = [s9 EXCEPT ![r] = x]
               /\ x.at = at /\ x.t = t /\ x.f = f /\ x.video = v /\ x.key = None
  <2> DEFINE x == [Upload(name)!Idle EXCEPT !.op = op, !.at = at, !.t = t, !.f = f,
                     !.video = v, !.was = IF s8[t] = None THEN None ELSE s8[t].stream]
  <2>1. x.at = at /\ x.t = t /\ x.f = f /\ x.video = v /\ x.key = None
    BY DEF Upload!Idle
  <2>2. s9' = [s9 EXCEPT ![r] = x] BY DEF Upload!Begin
  <2> HIDE DEF x
  <2> QED BY <2>1, <2>2
<1>3. s9'[r] = x /\ \A o \in UploadRequests[name] \ {r} : s9'[o] = s9[o]
  BY <1>2 DEF Upload!IInv, Upload!TypeOK
<1>4. f # None => s5[f] # None /\ s5[f][1] = t
  BY <1>1 DEF Upload!Of
<1>5. ASSUME f # None, f \notin s11' PROVE ~Upload(name)!Doubtful(t, f)
  BY <1>1, <1>5
<1>6. ASSUME f # None, f \notin s11'
      PROVE  \A o \in UploadRequests[name] : s9[o].f # f
  BY <1>5, <1>6 DEF Upload!Doubtful
<1>7. \A g : Upload(name)!Sent(g)' = Upload(name)!Sent(g) BY <1>1 DEF Upload!Sent
<1>8. ASSUME f # None, f \notin s11' PROVE Upload(name)!Holds(x, f)'
  <2>1. s8[t] = None \/ s8[t].image # Upload(name)!Sent(f) BY <1>5, <1>8 DEF Upload!Doubtful
  <2>2. at = "get" => Upload(name)!Sent(f) \in s7 BY <1>5, <1>8 DEF Upload!Doubtful
  <2> QED BY <1>1, <1>2, <1>7, <2>1, <2>2 DEF Upload!Holds
<1>9. Upload(name)!Drafts(r)'
  BY <1>1, <1>2, <1>3, <1>4, <1>6, <1>8 DEF Upload!Drafts
<1>10. s9'[r].f \in {None, s9[r].f} \cup s11' \/ \A o \in UploadRequests[name] :
         s9[o].f # s9'[r].f
  BY <1>2, <1>3, <1>6
<1> QED BY <1>1, <1>3, <1>9, <1>10, PicturesHeld

(* A draft has no picture. *)
LEMMA PicturesDrafted ==
  ASSUME NEW name \in UploadNames, Upload(name)!UploadsConstants, Upload(name)!IInv,
         NEW r \in UploadRequests[name], NEW t \in UploadTitles[name],
         Upload(name)!CheckDraft(r, t)
  PROVE  Upload(name)!Pictures' /\ \A q \in UploadRequests[name] : Upload(name)!Drafts(q)'
<1> DEFINE x == [Upload(name)!Idle EXCEPT !.op = "draft", !.at = "save", !.t = t]
<1>1. /\ s9' = [s9 EXCEPT ![r] = x] /\ s11' = s11 /\ s5' = s5 /\ s7' = s7 /\ s8' = s8
  BY DEF Upload!CheckDraft
<1>2. x.at = "save" /\ x.t = t /\ x.f = None /\ x.video = FALSE /\ x.key = None
  BY DEF Upload!Idle
<1> HIDE DEF x
<1>3. s9'[r] = x /\ \A o \in UploadRequests[name] \ {r} : s9'[o] = s9[o]
  BY <1>1 DEF Upload!IInv, Upload!TypeOK
<1>4. Upload(name)!Drafts(r)' BY <1>2, <1>3 DEF Upload!Drafts
<1> QED BY <1>1, <1>2, <1>3, <1>4, PicturesHeld

(* What a request turns into. *)
LEMMA UploadTurned ==
  ASSUME NEW name \in UploadNames, Upload(name)!IInv, NEW r \in UploadRequests[name],
         NEW at \in Upload(name)!Steps
  PROVE  \E x \in Upload(name)!ReqType :
           /\ Upload(name)!To(r, at) = [s9 EXCEPT ![r] = x] /\ x.at = at
           /\ x.t = s9[r].t /\ x.f = s9[r].f /\ x.video = s9[r].video /\ x.key = s9[r].key
<1>1. s9[r] \in Upload(name)!ReqType
        /\ s9 \in [UploadRequests[name] -> Upload(name)!ReqType]
  BY DEF Upload!IInv, Upload!TypeOK
<1> DEFINE x == [s9[r] EXCEPT !.at = at]
<1>2. /\ x \in Upload(name)!ReqType /\ x.at = at /\ x.t = s9[r].t /\ x.f = s9[r].f
      /\ x.video = s9[r].video /\ x.key = s9[r].key
  BY <1>1 DEF Upload!ReqType
<1>3. Upload(name)!To(r, at) = [s9 EXCEPT ![r] = x] BY <1>1 DEF Upload!To
<1> HIDE DEF x
<1> QED BY <1>2, <1>3

(* Its key is known, it goes on to the commit. *)
LEMMA UploadSaving ==
  ASSUME NEW name \in UploadNames, Upload(name)!IInv, NEW r \in UploadRequests[name],
         NEW key \in (UploadFiles[name] \X Upload(name)!Forms) \cup {None}
  PROVE  \E x \in Upload(name)!ReqType :
           /\ Upload(name)!SaveAs(r, key) = [s9 EXCEPT ![r] = x] /\ x.at = "save"
           /\ x.t = s9[r].t /\ x.f = s9[r].f /\ x.video = s9[r].video /\ x.key = key
<1>1. s9[r] \in Upload(name)!ReqType
        /\ s9 \in [UploadRequests[name] -> Upload(name)!ReqType]
  BY DEF Upload!IInv, Upload!TypeOK
<1> DEFINE y == [s9[r] EXCEPT !.at = "save", !.key = key]
<1>2. /\ y \in Upload(name)!ReqType /\ y.at = "save" /\ y.t = s9[r].t /\ y.f = s9[r].f
      /\ y.video = s9[r].video /\ y.key = key
  BY <1>1 DEF Upload!ReqType, Upload!Steps
<1>3. Upload(name)!SaveAs(r, key) = [s9 EXCEPT ![r] = y] BY <1>1 DEF Upload!SaveAs
<1> HIDE DEF y
<1> QED BY <1>2, <1>3

(* A key to save it finds in the bucket. *)
LEMMA PicturesSaving ==
  ASSUME NEW name \in UploadNames, Upload(name)!UploadsConstants, Upload(name)!IInv,
         NEW r \in UploadRequests[name], s5' = s5, s8' = s8, s7 \subseteq s7',
         s11 \subseteq s11', s9[r].f # None, s9[r].at # "none",
         NEW key \in {Upload(name)!Sent(s9[r].f), <<s9[r].f, "webp">>},
         s9' = Upload(name)!SaveAs(r, key), s9[r].f \notin s11' => key \in s7'
  PROVE  Upload(name)!Pictures' /\ \A q \in UploadRequests[name] : Upload(name)!Drafts(q)'
<1>1. Upload(name)!TypeOK /\ Upload(name)!Drafts(r) /\ s9[r] \in Upload(name)!ReqType
  BY DEF Upload!IInv, Upload!TypeOK
<1>2. s9[r].f \in UploadFiles[name]
        /\ s5[s9[r].f] \in UploadTitles[name] \X Upload(name)!Forms
  BY <1>1 DEF Upload!TypeOK, Upload!Drafts, Upload!ReqType
<1>3. key \in UploadFiles[name] \X Upload(name)!Forms
  BY <1>2 DEF Upload!Sent, Upload!Forms
<1>4. PICK x \in Upload(name)!ReqType :
        /\ Upload(name)!SaveAs(r, key) = [s9 EXCEPT ![r] = x] /\ x.at = "save"
        /\ x.t = s9[r].t /\ x.f = s9[r].f /\ x.video = s9[r].video /\ x.key = key
  BY <1>3, UploadSaving
<1>5. \A f : Upload(name)!Sent(f)' = Upload(name)!Sent(f) BY DEF Upload!Sent
<1>6. s9[r].f \notin s11 => Upload(name)!Holds(s9[r], s9[r].f) BY <1>1 DEF Upload!Drafts
<1>7. x.f # None /\ x.f \notin s11' => Upload(name)!Holds(x, x.f)'
  BY <1>4, <1>5, <1>6 DEF Upload!Holds
<1> QED BY <1>4, <1>7, PicturesTurn

(* Another step finds what it holds as it was. *)
LEMMA PicturesStep ==
  ASSUME NEW name \in UploadNames, Upload(name)!UploadsConstants, Upload(name)!IInv,
         NEW r \in UploadRequests[name], s5' = s5, s8' = s8, s7 \subseteq s7',
         s11 \subseteq s11', s9[r].at # "none", NEW at \in Upload(name)!Steps \ {"none"},
         s9' = Upload(name)!To(r, at),
         at \in {"get", "put", "delete"} =>
           s9[r].f # None /\ (s9[r].f \notin s11 => Upload(name)!Sent(s9[r].f) \in s7),
         at = "delete" => /\ Upload(name)!Sent(s9[r].f) # <<s9[r].f, "webp">>
                          /\ <<s9[r].f, "webp">> \in s7'
  PROVE  Upload(name)!Pictures' /\ \A q \in UploadRequests[name] : Upload(name)!Drafts(q)'
<1>1. Upload(name)!Drafts(r) /\ at \in Upload(name)!Steps BY DEF Upload!IInv
<1>2. PICK x \in Upload(name)!ReqType :
        /\ s9' = [s9 EXCEPT ![r] = x] /\ x.at = at
        /\ x.t = s9[r].t /\ x.f = s9[r].f /\ x.video = s9[r].video /\ x.key = s9[r].key
  BY <1>1, UploadTurned
<1>3. \A f : Upload(name)!Sent(f)' = Upload(name)!Sent(f) BY DEF Upload!Sent
<1>4. s9[r].f # None /\ s9[r].f \notin s11 => Upload(name)!Holds(s9[r], s9[r].f)
  BY <1>1 DEF Upload!Drafts
<1>5. x.f # None /\ x.f \notin s11' => Upload(name)!Holds(x, x.f)'
  BY <1>2, <1>3, <1>4 DEF Upload!Holds
<1>6. x.key # None => x.f # None /\ x.key \in {Upload(name)!Sent(x.f), <<x.f, "webp">>}
  BY <1>1, <1>2 DEF Upload!Drafts
<1> QED BY <1>2, <1>5, <1>6, PicturesTurn

(* Look, Get and Put leave what is there and find what they hold. *)
LEMMA PicturesLook ==
  ASSUME NEW name \in UploadNames, Upload(name)!UploadsConstants, Upload(name)!IInv,
         NEW r \in UploadRequests[name], Upload(name)!Look(r)
  PROVE  Upload(name)!Pictures' /\ \A q \in UploadRequests[name] : Upload(name)!Drafts(q)'
<1>1. /\ s9[r].at = "look" /\ s11' = s11 /\ s5' = s5 /\ s7' = s7 /\ s8' = s8
      /\ {"save", "get"} \subseteq Upload(name)!Steps
  BY DEF Upload!Look, Upload!Steps
<1>2. CASE s9' = Upload(name)!Fail(r) BY <1>1, <1>2, PicturesDone DEF Upload!Fail
<1>3. CASE s9' = Upload(name)!To(r, "save") BY <1>1, <1>3, PicturesStep
<1>4. CASE /\ s9[r].f # None /\ Upload(name)!Sent(s9[r].f) \in s7
           /\ s9' = Upload(name)!SaveAs(r, Upload(name)!Sent(s9[r].f))
  BY <1>1, <1>4, PicturesSaving
<1>5. CASE /\ s9[r].f # None /\ Upload(name)!Sent(s9[r].f) \in s7
           /\ s9' = Upload(name)!To(r, "get")
  BY <1>1, <1>5, PicturesStep
<1> QED BY <1>2, <1>3, <1>4, <1>5 DEF Upload!Look, Upload!Arrived

(* Get, *)
LEMMA PicturesGet ==
  ASSUME NEW name \in UploadNames, Upload(name)!UploadsConstants, Upload(name)!IInv,
         NEW r \in UploadRequests[name], NEW ok \in BOOLEAN, Upload(name)!Get(r, ok)
  PROVE  Upload(name)!Pictures' /\ \A q \in UploadRequests[name] : Upload(name)!Drafts(q)'
<1>1. /\ s9[r].at = "get" /\ s11' = s11 /\ s5' = s5 /\ s7' = s7 /\ s8' = s8
      /\ Upload(name)!Drafts(r) /\ "put" \in Upload(name)!Steps
  BY DEF Upload!Get, Upload!IInv, Upload!Steps
<1>2. s9[r].f # None /\ (s9[r].f \notin s11 => Upload(name)!Sent(s9[r].f) \in s7)
  BY <1>1 DEF Upload!Drafts, Upload!Holds
<1>3. CASE s9' = Upload(name)!To(r, "put") BY <1>1, <1>2, <1>3, PicturesStep
<1>4. CASE s9' = Upload(name)!SaveAs(r, Upload(name)!Sent(s9[r].f))
  BY <1>1, <1>2, <1>4, PicturesSaving
<1> QED BY <1>3, <1>4 DEF Upload!Get

(* Put. *)
LEMMA PicturesPut ==
  ASSUME NEW name \in UploadNames, Upload(name)!UploadsConstants, Upload(name)!IInv,
         NEW r \in UploadRequests[name], NEW ok \in BOOLEAN, Upload(name)!Put(r, ok)
  PROVE  Upload(name)!Pictures' /\ \A q \in UploadRequests[name] : Upload(name)!Drafts(q)'
<1>1. /\ s9[r].at = "put" /\ s11' = s11 /\ s5' = s5 /\ s8' = s8
      /\ Upload(name)!Drafts(r) /\ "delete" \in Upload(name)!Steps
  BY DEF Upload!Put, Upload!IInv, Upload!Steps
<1>2. s9[r].f # None /\ (s9[r].f \notin s11 => Upload(name)!Sent(s9[r].f) \in s7)
  BY <1>1 DEF Upload!Drafts, Upload!Holds
<1>3. s7' = IF ok THEN s7 \cup {<<s9[r].f, "webp">>} ELSE s7 BY DEF Upload!Put
<1>4. CASE /\ s9' = Upload(name)!To(r, "delete") /\ ok
           /\ Upload(name)!Sent(s9[r].f) # <<s9[r].f, "webp">>
  BY <1>1, <1>2, <1>3, <1>4, PicturesStep
<1>5. CASE s9' = Upload(name)!SaveAs(r, Upload(name)!Sent(s9[r].f))
  BY <1>1, <1>2, <1>3, <1>5, PicturesSaving
<1> QED BY <1>4, <1>5 DEF Upload!Put

(* What was sent is deleted. *)
LEMMA PicturesDelete ==
  ASSUME NEW name \in UploadNames, Upload(name)!UploadsConstants, Upload(name)!IInv,
         NEW r \in UploadRequests[name], NEW done \in BOOLEAN, NEW answered \in BOOLEAN,
         Upload(name)!Delete(r, done, answered)
  PROVE  Upload(name)!Pictures' /\ \A q \in UploadRequests[name] : Upload(name)!Drafts(q)'
<1>1. /\ s9[r].at = "delete" /\ s5' = s5 /\ s8' = s8 /\ (answered => done)
      /\ Upload(name)!Drafts(r) /\ Upload(name)!TypeOK /\ s9[r] \in Upload(name)!ReqType
  BY DEF Upload!Delete, Upload!IInv, Upload!TypeOK
<1>2. PICK f : f = s9[r].f OBVIOUS
<1>3. /\ s7' = IF done THEN s7 \ {Upload(name)!Sent(f)} ELSE s7
      /\ s11' = IF done /\ ~answered THEN s11 \cup {f} ELSE s11
      /\ s9' = Upload(name)!SaveAs(r, IF answered THEN <<f, "webp">>
                                     ELSE Upload(name)!Sent(f))
  BY <1>2 DEF Upload!Delete
<1>4. /\ f # None /\ Upload(name)!Sent(f) # <<f, "webp">> /\ s9[r].t \in UploadTitles[name]
      /\ f \in UploadFiles[name] /\ s5[f] # None /\ s5[f][1] = s9[r].t
      /\ f \notin s11 => Upload(name)!Holds(s9[r], f)
      /\ f \notin s11 => \A o \in UploadRequests[name] \ {r} : s9[o].f # f
  BY <1>1, <1>2 DEF Upload!Drafts, Upload!ReqType
<1>5. f \notin s11 => Upload(name)!Sent(f) \in s7 /\ <<f, "webp">> \in s7
  BY <1>1, <1>4 DEF Upload!Holds
<1>8. f \notin s11 => s8[s9[r].t] = None \/ s8[s9[r].t].image # Upload(name)!Sent(f)
  BY <1>1, <1>4 DEF Upload!Holds
<1>6. CASE ~done
  <2>1. s9' = Upload(name)!SaveAs(r, Upload(name)!Sent(s9[r].f)) BY <1>1, <1>2, <1>3, <1>6
  <2>2. s7' = s7 /\ s11' = s11 BY <1>3, <1>6
  <2>3. s9[r].at # "none" /\ s9[r].f # None BY <1>1, <1>2, <1>4
  <2>4. s9[r].f \notin s11' => Upload(name)!Sent(s9[r].f) \in s7'
    <3>1. f \notin s11 => Upload(name)!Sent(f) \in s7' BY <1>5, <2>2, Zenon
    <3> QED BY <1>2, <2>2, <3>1, Zenon
  <2> QED BY <1>1, <2>1, <2>2, <2>3, <2>4, PicturesSaving
<1>7. CASE done
  <2> DEFINE key == IF answered THEN <<f, "webp">> ELSE Upload(name)!Sent(f)
  <2>1. s5[f] \in UploadTitles[name] \X Upload(name)!Forms
    BY <1>1, <1>4 DEF Upload!TypeOK
  <2>2. key \in UploadFiles[name] \X Upload(name)!Forms
    BY <1>4, <2>1 DEF Upload!Sent, Upload!Forms
  <2>3. PICK x \in Upload(name)!ReqType :
          /\ s9' = [s9 EXCEPT ![r] = x] /\ x.at = "save" /\ x.t = s9[r].t /\ x.f = f
          /\ x.video = s9[r].video /\ x.key \in {<<f, "webp">>, Upload(name)!Sent(f)}
          /\ answered => x.key = <<f, "webp">>
    <3>1. s9' = Upload(name)!SaveAs(r, key) BY <1>3
    <3>2. key \in {<<f, "webp">>, Upload(name)!Sent(f)} /\ (answered => key = <<f, "webp">>)
      OBVIOUS
    <3> HIDE DEF key
    <3> QED BY <1>2, <2>2, <3>1, <3>2, UploadSaving
  <2>4. s9'[r] = x /\ \A o \in UploadRequests[name] \ {r} : s9'[o] = s9[o]
    BY <1>1, <2>3 DEF Upload!TypeOK
  <2>5. \A g : Upload(name)!Sent(g)' = Upload(name)!Sent(g) BY <1>1 DEF Upload!Sent
  <2>6. \A g, form : g # f => (<<g, form>> \in s7 <=> <<g, form>> \in s7')
    BY <1>3 DEF Upload!Sent
  <2>7. \A g : Upload(name)!Sent(g) = <<g, s5[g][2]>> BY DEF Upload!Sent
  <2>8. ASSUME NEW t \in UploadTitles[name], s8'[t] # None, s8'[t].image # None
        PROVE  Upload(name)!Pictured(t, s8[t].image)'
    <3>1. PICK g \in UploadFiles[name] :
            /\ s5[g] # None /\ s5[g][1] = t
            /\ s8[t].image \in {Upload(name)!Sent(g), <<g, "webp">>}
            /\ g \in s11 \/ s8[t].image \in s7
      BY <1>1, <2>8 DEF Upload!IInv, Upload!Pictures, Upload!Pictured
    <3>2. CASE g # f
      <4>1. g \in s11' \/ s8[t].image \in s7' BY <1>3, <2>6, <2>7, <3>1, <3>2
      <4> QED BY <1>1, <2>5, <3>1, <4>1 DEF Upload!Pictured
    <3>3. CASE g = f
      <4>1. g \in s11' \/ s8[t].image \in s7'
        BY <1>1, <1>3, <1>4, <1>5, <1>8, <2>8, <3>1, <3>3
      <4> QED BY <1>1, <2>5, <3>1, <4>1 DEF Upload!Pictured
    <3> QED BY <3>2, <3>3
  <2>9. Upload(name)!Pictures' BY <2>8 DEF Upload!Pictures
  <2>10. ASSUME NEW q \in UploadRequests[name] \ {r} PROVE Upload(name)!Drafts(q)'
    <3>1. Upload(name)!Drafts(q) /\ s9'[q] = s9[q] BY <2>4 DEF Upload!IInv
    <3>2. ASSUME s9[q].f # None, s9[q].f \notin s11'
          PROVE  /\ Upload(name)!Holds(s9[q], s9[q].f)'
                 /\ \A o \in UploadRequests[name] \ {q} : s9'[o].f # s9'[q].f
      <4>1. /\ Upload(name)!Holds(s9[q], s9[q].f) /\ s9[q].f # f
            /\ \A o \in UploadRequests[name] \ {q} : s9[o].f # s9[q].f
            /\ s9[q].key # None
                 => s9[q].key \in {Upload(name)!Sent(s9[q].f), <<s9[q].f, "webp">>}
        BY <1>2, <1>3, <3>1, <3>2 DEF Upload!Drafts
      <4>2. Upload(name)!Holds(s9[q], s9[q].f)'
        BY <1>1, <2>5, <2>6, <2>7, <3>1, <4>1 DEF Upload!Holds
      <4> QED BY <2>3, <2>4, <3>1, <4>1, <4>2
    <3> QED BY <1>1, <2>5, <3>1, <3>2 DEF Upload!Drafts
  <2>11. Upload(name)!Drafts(r)'
    <3>1. f \notin s11' => answered BY <1>3, <1>7
    <3>2. f \notin s11' => Upload(name)!Holds(x, f)'
      BY <1>1, <1>3, <1>4, <1>5, <2>3, <2>5, <3>1 DEF Upload!Holds
    <3>3. f \notin s11' => \A o \in UploadRequests[name] \ {r} : s9'[o].f # f
      BY <1>3, <1>4, <2>4
    <3> QED BY <1>1, <1>2, <1>4, <2>3, <2>4, <2>5, <3>2, <3>3 DEF Upload!Drafts
  <2> QED BY <2>9, <2>10, <2>11
<1> QED BY <1>6, <1>7

(* What a commit makes of a row. *)
LEMMA UploadSaved ==
  ASSUME NEW name \in UploadNames, Upload(name)!UploadsConstants, Upload(name)!IInv,
         NEW r \in UploadRequests[name], NEW ok \in BOOLEAN, Upload(name)!Save(r, ok),
         s8' # s8
  PROVE  /\ s9[r].t \in UploadTitles[name]
         /\ \E x \in Upload(name)!RowType, old \in Upload(name)!RowType :
              /\ s8' = [s8 EXCEPT ![s9[r].t] = x]
              /\ s8[s9[r].t] = None => old = Upload(name)!Blank
              /\ s8[s9[r].t] # None => old = s8[s9[r].t]
              /\ x.image = IF s9[r].key = None THEN old.image ELSE s9[r].key
              /\ x.stream \in {None, old.stream}
              /\ s9[r].video
                   \/ (x.job = old.job /\ x.audio = old.audio /\ x.stream = old.stream)
<1>1. /\ Upload(name)!TypeOK /\ Upload(name)!Drafts(r) /\ s9[r] \in Upload(name)!ReqType
      /\ s9[r].at = "save"
  BY DEF Upload!IInv, Upload!TypeOK, Upload!Save
<1>2. PICK t : t = s9[r].t OBVIOUS
<1>3. t \in UploadTitles[name] BY <1>1, <1>2 DEF Upload!Drafts
<1>4. PICK old : old = IF s8[t] = None THEN Upload(name)!Blank ELSE s8[t] OBVIOUS
<1>5. old \in Upload(name)!RowType
  BY <1>1, <1>3, <1>4 DEF Upload!TypeOK, Upload!Blank, Upload!RowType
<1>6. PICK image : image = IF s9[r].key = None THEN old.image ELSE s9[r].key OBVIOUS
<1>7. image \in (UploadFiles[name] \X Upload(name)!Forms) \cup {None}
  BY <1>1, <1>5, <1>6 DEF Upload!RowType, Upload!ReqType
<1>8. s8' = [s8 EXCEPT ![t] =
              IF ~s9[r].video THEN [old EXCEPT !.image = image]
              ELSE IF UploadKinds[name][t] = "podcast"
                THEN [old EXCEPT !.image = image, !.audio = TRUE]
              ELSE [old EXCEPT !.image = image, !.job = TRUE,
                      !.stream = IF s9[r].was = None THEN old.stream ELSE None]]
  BY <1>2, <1>4, <1>6 DEF Upload!Save
<1>9. PICK x \in Upload(name)!RowType :
        /\ s8' = [s8 EXCEPT ![t] = x] /\ x.image = image /\ x.stream \in {None, old.stream}
        /\ s9[r].video \/ (x.job = old.job /\ x.audio = old.audio /\ x.stream = old.stream)
  <2>1. CASE ~s9[r].video
    <3> DEFINE x == [old EXCEPT !.image = image]
    <3>1. /\ x \in Upload(name)!RowType /\ x.image = image /\ x.stream = old.stream
          /\ x.job = old.job /\ x.audio = old.audio
      BY <1>5, <1>7 DEF Upload!RowType
    <3>2. s8' = [s8 EXCEPT ![t] = x] BY <1>8, <2>1
    <3> HIDE DEF x
    <3> QED BY <3>1, <3>2
  <2>2. CASE s9[r].video /\ UploadKinds[name][t] = "podcast"
    <3> DEFINE x == [old EXCEPT !.image = image, !.audio = TRUE]
    <3>1. x \in Upload(name)!RowType /\ x.image = image /\ x.stream = old.stream
      BY <1>5, <1>7 DEF Upload!RowType
    <3>2. s8' = [s8 EXCEPT ![t] = x] BY <1>8, <2>2
    <3> HIDE DEF x
    <3> QED BY <2>2, <3>1, <3>2
  <2>3. CASE s9[r].video /\ UploadKinds[name][t] # "podcast"
    <3> DEFINE stream == IF s9[r].was = None THEN old.stream ELSE None
               x == [old EXCEPT !.image = image, !.job = TRUE, !.stream = stream]
    <3>0. stream \in UploadTitles[name] \cup {None} /\ stream \in {None, old.stream}
      BY <1>5 DEF Upload!RowType
    <3>2. s8' = [s8 EXCEPT ![t] = x] BY <1>8, <2>3
    <3> HIDE DEF stream
    <3>1. x \in Upload(name)!RowType /\ x.image = image /\ x.stream = stream
      BY <1>5, <1>7, <3>0 DEF Upload!RowType
    <3> HIDE DEF x
    <3> QED BY <2>3, <3>0, <3>1, <3>2
  <2> QED BY <2>1, <2>2, <2>3
<1> QED BY <1>2, <1>3, <1>4, <1>5, <1>6, <1>9

(* A picture the row gets is there. *)
LEMMA PicturesSaved ==
  ASSUME NEW name \in UploadNames, Upload(name)!UploadsConstants, Upload(name)!IInv,
         NEW r \in UploadRequests[name], NEW ok \in BOOLEAN, Upload(name)!Save(r, ok)
  PROVE  Upload(name)!Pictures' /\ \A q \in UploadRequests[name] : Upload(name)!Drafts(q)'
<1>1. /\ s9' = [s9 EXCEPT ![r] = Upload(name)!Idle] /\ s5' = s5 /\ s7' = s7 /\ s11' = s11
      /\ Upload(name)!Drafts(r) /\ Upload(name)!TypeOK
      /\ s9[r] \in Upload(name)!ReqType
  BY DEF Upload!Save, Upload!Fail, Upload!IInv, Upload!TypeOK
<1>2. CASE s8' = s8 BY <1>1, <1>2, PicturesDone
<1>3. CASE s8' # s8
  <2>1. PICK t : t = s9[r].t OBVIOUS
  <2>2. PICK x \in Upload(name)!RowType, old \in Upload(name)!RowType :
              /\ s8' = [s8 EXCEPT ![t] = x]
              /\ s8[t] = None => old = Upload(name)!Blank
              /\ s8[t] # None => old = s8[t]
              /\ x.image = IF s9[r].key = None THEN old.image ELSE s9[r].key
    BY <1>3, <2>1, UploadSaved
  <2>3. t \in UploadTitles[name] BY <1>3, <2>1, UploadSaved
  <2>4. Upload(name)!Blank.image = None BY DEF Upload!Blank
  <2>5. /\ s8'[t] = x /\ \A k \in UploadTitles[name] \ {t} : s8'[k] = s8[k]
    BY <1>1, <2>2, <2>3 DEF Upload!TypeOK
  <2>6. /\ s9'[r] = Upload(name)!Idle
        /\ \A o \in UploadRequests[name] \ {r} : s9'[o] = s9[o]
    BY <1>1 DEF Upload!TypeOK
  <2>7. \A g : Upload(name)!Sent(g)' = Upload(name)!Sent(g) BY <1>1 DEF Upload!Sent
  <2>8. \A g : Upload(name)!Sent(g) = <<g, s5[g][2]>> BY DEF Upload!Sent
  <2>9. ASSUME s9[r].key # None
        PROVE  /\ s9[r].f \in UploadFiles[name] /\ s5[s9[r].f] # None /\ s5[s9[r].f][1] = t
               /\ s9[r].key \in {Upload(name)!Sent(s9[r].f), <<s9[r].f, "webp">>}
               /\ s9[r].f \in s11 \/ s9[r].key \in s7
    BY <1>1, <2>1, <2>9 DEF Upload!Drafts, Upload!Holds, Upload!ReqType
  <2>10. ASSUME NEW k \in UploadTitles[name], s8'[k] # None, s8'[k].image # None
         PROVE  Upload(name)!Pictured(k, s8[k].image)'
    <3>1. CASE k = t /\ s9[r].key # None
      BY <1>1, <2>2, <2>5, <2>7, <2>9, <3>1 DEF Upload!Pictured
    <3>2. CASE ~(k = t /\ s9[r].key # None)
      <4>1. s8[k] # None /\ s8'[k].image = s8[k].image
        BY <2>2, <2>4, <2>5, <2>10, <3>2
      <4>2. Upload(name)!Pictured(k, s8[k].image)
        BY <2>10, <4>1 DEF Upload!IInv, Upload!Pictures
      <4> QED BY <1>1, <2>7, <4>1, <4>2 DEF Upload!Pictured
    <3> QED BY <3>1, <3>2
  <2>11. Upload(name)!Pictures' BY <2>10 DEF Upload!Pictures
  <2>12. ASSUME NEW q \in UploadRequests[name] \ {r} PROVE Upload(name)!Drafts(q)'
    <3>1. Upload(name)!Drafts(q) /\ s9'[q] = s9[q] /\ s9[q] \in Upload(name)!ReqType
      BY <1>1, <2>6 DEF Upload!IInv, Upload!TypeOK
    <3>2. PICK f : f = s9[q].f OBVIOUS
    <3>3. ASSUME f # None, f \notin s11
          PROVE  /\ Upload(name)!Holds(s9[q], s9[q].f)'
                 /\ \A o \in UploadRequests[name] \ {q} : s9'[o].f # s9'[q].f
      <4>1. /\ Upload(name)!Holds(s9[q], f) /\ s9[r].f # f /\ f \in UploadFiles[name]
            /\ \A o \in UploadRequests[name] \ {q} : s9[o].f # f
            /\ s9[q].t \in UploadTitles[name] /\ s5[f] # None
        BY <3>1, <3>2, <3>3 DEF Upload!Drafts, Upload!ReqType
      <4>2. Upload(name)!Sent(f) \in UploadFiles[name] \X Upload(name)!Forms
        BY <1>1, <4>1 DEF Upload!Sent, Upload!TypeOK
      <4>3. s9[r].key # Upload(name)!Sent(f)
        BY <2>8, <2>9, <4>1, <4>2 DEF Upload!UploadsConstants
      <4>4. s8'[s9[q].t] = None \/ s8'[s9[q].t].image # Upload(name)!Sent(f)
        <5>1. CASE s9[q].t # t BY <2>5, <4>1, <5>1 DEF Upload!Holds
        <5>2. CASE s9[q].t = t
          <6>1. s8[t] = None \/ s8[t].image # Upload(name)!Sent(f)
            BY <4>1, <5>2 DEF Upload!Holds
          <6>2. Upload(name)!Sent(f) # None BY <4>2 DEF Upload!UploadsConstants
          <6> QED BY <2>2, <2>4, <2>5, <4>3, <5>2, <6>1, <6>2
        <5> QED BY <5>1, <5>2
      <4>5. Upload(name)!Holds(s9[q], s9[q].f)'
        BY <1>1, <2>7, <3>1, <3>2, <4>1, <4>4 DEF Upload!Holds
      <4>6. Upload(name)!Idle.f = None BY DEF Upload!Idle
      <4> QED BY <2>6, <3>1, <3>2, <3>3, <4>1, <4>5, <4>6
    <3> QED BY <1>1, <2>7, <3>1, <3>2, <3>3 DEF Upload!Drafts
  <2>13. Upload(name)!Drafts(r)'
    <3>1. /\ Upload(name)!Idle.at = "none" /\ Upload(name)!Idle.f = None
          /\ Upload(name)!Idle.key = None /\ Upload(name)!Idle.video = FALSE
      BY DEF Upload!Idle
    <3> QED BY <2>6, <3>1 DEF Upload!Drafts
  <2> QED BY <2>11, <2>12, <2>13
<1> QED BY <1>2, <1>3

(* The video half. A step that keeps the names, and by which whoever is    *)
(* out of it stays so.                                                     *)
LEMMA VideosKept ==
  ASSUME NEW name \in UploadNames, Upload(name)!UploadsConstants, Upload(name)!IInv,
         s1' = s1, s10' = s10,
         \A k \in UploadTitles[name] : Upload(name)!Dead(k) => Upload(name)!Dead(k)',
         \A t \in UploadTitles[name] : s1[t] = None =>
           /\ s8'[t] = None /\ s2'[t] = "none" /\ t \notin s3' /\ t \notin s4'
           /\ \A r \in UploadRequests[name] : s9'[r].t # t,
         \A t \in UploadTitles[name] :
           UploadKinds[name][t] \in Upload(name)!Content /\ Upload(name)!Owner(t)'
             /\ Upload(name)!Key(t) \notin s10 => s6'[Upload(name)!Key(t)] \in {None, t},
         Upload(name)!Streams'
  PROVE  /\ Upload(name)!Started' /\ Upload(name)!Alone' /\ Upload(name)!Owned'
         /\ Upload(name)!Streams'
<1>1. \A t : Upload(name)!Key(t)' = Upload(name)!Key(t) BY DEF Upload!Key
<1>2. Upload(name)!Started' BY DEF Upload!Started
<1>3. Upload(name)!Alone' BY <1>1 DEF Upload!Alone, Upload!IInv
<1>4. Upload(name)!Owned' BY <1>1 DEF Upload!Owned
<1> QED BY <1>2, <1>3, <1>4

(* The rows keep their streams. *)
LEMMA StreamsKept ==
  ASSUME NEW name \in UploadNames, Upload(name)!IInv, s1' = s1, s10' = s10,
         \A t \in UploadTitles[name] : s8'[t] = None \/ s8'[t] = s8[t]
  PROVE  Upload(name)!Streams'
<1>1. \A t : Upload(name)!Key(t)' = Upload(name)!Key(t) BY DEF Upload!Key
<1> QED BY <1>1 DEF Upload!Streams, Upload!IInv

(* A step of one request that was at work already. *)
LEMMA VideosTurn ==
  ASSUME NEW name \in UploadNames, Upload(name)!UploadsConstants, Upload(name)!IInv,
         NEW r \in UploadRequests[name], s1' = s1, s2' = s2, s3' = s3, s4' = s4, s6' = s6,
         s8' = s8, s10' = s10,
         \A o \in UploadRequests[name] \ {r} : s9'[o] = s9[o],
         s9'[r].t = None \/ (s9'[r].t = s9[r].t /\ s9[r].at # "assemble")
  PROVE  /\ Upload(name)!Started' /\ Upload(name)!Alone' /\ Upload(name)!Owned'
         /\ Upload(name)!Streams'
<1>1. Upload(name)!Streams' BY StreamsKept
<1>2. \A k \in UploadTitles[name] : Upload(name)!Dead(k) => Upload(name)!Dead(k)'
  BY DEF Upload!Dead, Upload!UploadsConstants
<1>3. \A t \in UploadTitles[name] : Upload(name)!Owner(t)' => Upload(name)!Owner(t)
  BY DEF Upload!Owner, Upload!UploadsConstants
<1>4. \A t \in UploadTitles[name] : s1[t] = None =>
           /\ s8'[t] = None /\ s2'[t] = "none" /\ t \notin s3' /\ t \notin s4'
           /\ \A o \in UploadRequests[name] : s9'[o].t # t
  BY DEF Upload!IInv, Upload!Started, Upload!UploadsConstants
<1>5. \A t \in UploadTitles[name] :
        UploadKinds[name][t] \in Upload(name)!Content /\ Upload(name)!Owner(t)'
          /\ Upload(name)!Key(t) \notin s10 => s6'[Upload(name)!Key(t)] \in {None, t}
  BY <1>3 DEF Upload!IInv, Upload!Owned
<1> QED BY <1>1, <1>2, <1>4, <1>5, VideosKept

(* A step that keeps rows and requests, and lets no title without a row    *)
(* write.                                                                  *)
LEMMA VideosSteady ==
  ASSUME NEW name \in UploadNames, Upload(name)!UploadsConstants, Upload(name)!IInv,
         s1' = s1, s8' = s8, s9' = s9, s10' = s10,
         \A k \in UploadTitles[name] : s8[k] = None =>
           s2'[k] \in {s2[k], "closed"} /\ (k \in s3' => k \in s3)
             /\ (k \in s4' => k \in s4),
         \A k \in UploadTitles[name] : s2[k] = "none" => s2'[k] = "none",
         \A t \in UploadTitles[name] :
           UploadKinds[name][t] \in Upload(name)!Content /\ Upload(name)!Owner(t)
             /\ Upload(name)!Key(t) \notin s10 => s6'[Upload(name)!Key(t)] \in {None, t}
  PROVE  /\ Upload(name)!Started' /\ Upload(name)!Alone' /\ Upload(name)!Owned'
         /\ Upload(name)!Streams'
<1>1. Upload(name)!Streams' BY StreamsKept
<1>2. \A k \in UploadTitles[name] : Upload(name)!Dead(k) => Upload(name)!Dead(k)'
  BY DEF Upload!Dead
<1>3. \A t \in UploadTitles[name] : Upload(name)!Owner(t)' => Upload(name)!Owner(t)
  BY DEF Upload!Owner
<1>4. \A t \in UploadTitles[name] : s1[t] = None =>
           /\ s8'[t] = None /\ s2'[t] = "none" /\ t \notin s3' /\ t \notin s4'
           /\ \A o \in UploadRequests[name] : s9'[o].t # t
  BY DEF Upload!IInv, Upload!Started
<1>5. \A t \in UploadTitles[name] :
        UploadKinds[name][t] \in Upload(name)!Content /\ Upload(name)!Owner(t)'
          /\ Upload(name)!Key(t) \notin s10 => s6'[Upload(name)!Key(t)] \in {None, t}
  BY <1>3
<1> QED BY <1>1, <1>2, <1>4, <1>5, VideosKept

(* Who has a video has a name and a key. *)
LEMMA OwnerNamed ==
  ASSUME NEW name \in UploadNames, Upload(name)!UploadsConstants, Upload(name)!IInv,
         NEW t \in UploadTitles[name], Upload(name)!Owner(t)
  PROVE  s1[t] # None /\ Upload(name)!Key(t) \in Upload(name)!Keys /\ ~Upload(name)!Dead(t)
<1>1. s1[t] # None BY DEF Upload!IInv, Upload!Started, Upload!Owner
<1>2. Upload(name)!Key(t) \in Upload(name)!Keys
  BY <1>1 DEF Upload!IInv, Upload!TypeOK, Upload!Key, Upload!Keys
<1> QED BY <1>1, <1>2 DEF Upload!Owner, Upload!Dead

(* Who may still write does not write the video of another. *)
LEMMA OwnVideo ==
  ASSUME NEW name \in UploadNames, Upload(name)!UploadsConstants, Upload(name)!IInv,
         NEW k \in UploadTitles[name], ~Upload(name)!Dead(k),
         s6' = [s6 EXCEPT ![Upload(name)!Key(k)] = k],
         NEW t \in UploadTitles[name], UploadKinds[name][t] \in Upload(name)!Content,
         Upload(name)!Owner(t), Upload(name)!Key(t) \notin s10
  PROVE  s6'[Upload(name)!Key(t)] \in {None, t}
<1>1. s1[t] # None /\ Upload(name)!Key(t) \in Upload(name)!Keys /\ ~Upload(name)!Dead(t)
  BY OwnerNamed
<1>2. Upload(name)!Key(t) = Upload(name)!Key(k) => t = k
  BY <1>1 DEF Upload!IInv, Upload!Alone
<1>3. s6[Upload(name)!Key(t)] \in {None, t} BY DEF Upload!IInv, Upload!Owned
<1>4. s6 \in [Upload(name)!Keys -> UploadTitles[name] \cup {None}]
  BY DEF Upload!IInv, Upload!TypeOK
<1> QED BY <1>1, <1>2, <1>3, <1>4

(* A video in use is its own. *)
LEMMA VideosOwned ==
  ASSUME NEW name \in UploadNames, Upload(name)!IInv, NEW t \in UploadTitles[name],
         UploadKinds[name][t] \in Upload(name)!Content, Upload(name)!Owner(t),
         Upload(name)!Key(t) \notin s10
  PROVE  s6[Upload(name)!Key(t)] \in {None, t}
  BY DEF Upload!IInv, Upload!Owned

(* Addresses, exports, the bucket. *)
LEMMA VideosSent ==
  ASSUME NEW name \in UploadNames, Upload(name)!UploadsConstants, Upload(name)!IInv,
         \/ \E t \in UploadTitles[name] : \E kinds, f, form, v :
              Upload(name)!Replace(t, kinds, f, form, v)
         \/ \E f \in UploadFiles[name] : Upload(name)!SendPicture(f)
         \/ \E t \in UploadTitles[name] :
              \/ Upload(name)!SendVideo(t) \/ Upload(name)!Expire(t)
                   \/ Upload(name)!Abort(t)
              \/ Upload(name)!StartExport(t) \/ Upload(name)!FinishExport(t)
         \/ \E k \in Upload(name)!Keys : Upload(name)!Lose(k)
  PROVE  /\ Upload(name)!Started' /\ Upload(name)!Alone' /\ Upload(name)!Owned'
         /\ Upload(name)!Streams'
<1>1. ASSUME NEW t \in UploadTitles[name], NEW kinds, NEW f, NEW form, NEW v,
             Upload(name)!Replace(t, kinds, f, form, v)
      PROVE  /\ Upload(name)!Started' /\ Upload(name)!Alone' /\ Upload(name)!Owned'
             /\ Upload(name)!Streams'
  <2>1. /\ s1' = s1 /\ s8' = s8 /\ s9' = s9 /\ s10' = s10 /\ s2' = s2 /\ s4' = s4
             /\ s6' = s6
        /\ s8[t] # None /\ s3' \in {s3, s3 \cup {t}}
    BY <1>1 DEF Upload!Replace
  <2> QED BY <2>1, VideosSteady, VideosOwned
<1>2. ASSUME NEW f \in UploadFiles[name], Upload(name)!SendPicture(f)
      PROVE  /\ Upload(name)!Started' /\ Upload(name)!Alone' /\ Upload(name)!Owned'
             /\ Upload(name)!Streams'
  <2>1. /\ s1' = s1 /\ s8' = s8 /\ s9' = s9 /\ s10' = s10 /\ s2' = s2 /\ s4' = s4
             /\ s6' = s6
        /\ s3' = s3
    BY <1>2 DEF Upload!SendPicture
  <2> QED BY <2>1, VideosSteady, VideosOwned
<1>3. ASSUME NEW t \in UploadTitles[name],
             Upload(name)!SendVideo(t) \/ Upload(name)!FinishExport(t)
      PROVE  /\ Upload(name)!Started' /\ Upload(name)!Alone' /\ Upload(name)!Owned'
             /\ Upload(name)!Streams'
  <2>1. /\ s1' = s1 /\ s8' = s8 /\ s9' = s9 /\ s10' = s10 /\ s2' = s2 /\ s3' = s3
        /\ s4' \subseteq s4 /\ s6' = [s6 EXCEPT ![Upload(name)!Key(t)] = t]
        /\ t \in s3 \/ t \in s4
    BY <1>3 DEF Upload!SendVideo, Upload!FinishExport
  <2>2. ~Upload(name)!Dead(t) BY <2>1 DEF Upload!Dead
  <2>3. \A k \in UploadTitles[name] :
           UploadKinds[name][k] \in Upload(name)!Content /\ Upload(name)!Owner(k)
             /\ Upload(name)!Key(k) \notin s10 => s6'[Upload(name)!Key(k)] \in {None, k}
    BY <2>1, <2>2, OwnVideo
  <2> QED BY <2>1, <2>3, VideosSteady
<1>4. ASSUME NEW t \in UploadTitles[name],
             Upload(name)!Expire(t) \/ Upload(name)!Abort(t) \/ Upload(name)!StartExport(t)
      PROVE  /\ Upload(name)!Started' /\ Upload(name)!Alone' /\ Upload(name)!Owned'
             /\ Upload(name)!Streams'
  <2>1. /\ s1' = s1 /\ s8' = s8 /\ s9' = s9 /\ s10' = s10 /\ s6' = s6 /\ s3' \subseteq s3
        /\ s2' = s2 \/ (s2' = [s2 EXCEPT ![t] = "closed"] /\ s2[t] = "open")
        /\ s4' = s4 \/ (s4' = s4 \cup {t} /\ s8[t] # None)
    BY <1>4 DEF Upload!Expire, Upload!Abort, Upload!StartExport
  <2>2. s2 \in [UploadTitles[name] -> {"none", "open", "closed"}]
    BY DEF Upload!IInv, Upload!TypeOK
  <2>3. \A k \in UploadTitles[name] :
          s2'[k] \in {s2[k], "closed"} /\ (s2[k] = "none" => s2'[k] = "none")
    BY <2>1, <2>2
  <2> QED BY <2>1, <2>3, VideosSteady, VideosOwned
<1>5. ASSUME NEW k \in Upload(name)!Keys, Upload(name)!Lose(k)
      PROVE  /\ Upload(name)!Started' /\ Upload(name)!Alone' /\ Upload(name)!Owned'
             /\ Upload(name)!Streams'
  <2>1. /\ s1' = s1 /\ s8' = s8 /\ s9' = s9 /\ s10' = s10 /\ s2' = s2 /\ s3' = s3
             /\ s4' = s4
        /\ s6' = [s6 EXCEPT ![k] = None]
        /\ s6 \in [Upload(name)!Keys -> UploadTitles[name] \cup {None}]
    BY <1>5 DEF Upload!Lose, Upload!IInv, Upload!TypeOK
  <2>2. \A t \in UploadTitles[name] :
           UploadKinds[name][t] \in Upload(name)!Content /\ Upload(name)!Owner(t)
             /\ Upload(name)!Key(t) \notin s10 => s6'[Upload(name)!Key(t)] \in {None, t}
    BY <2>1, VideosOwned, OwnerNamed
  <2> QED BY <2>1, <2>2, VideosSteady
<1> QED BY <1>1, <1>2, <1>3, <1>4, <1>5

(* A row goes, or gets its stream. *)
LEMMA VideosRow ==
  ASSUME NEW name \in UploadNames, Upload(name)!UploadsConstants, Upload(name)!IInv,
         NEW t \in UploadTitles[name], Upload(name)!Remove(t) \/ Upload(name)!Transcode(t)
  PROVE  /\ Upload(name)!Started' /\ Upload(name)!Alone' /\ Upload(name)!Owned'
         /\ Upload(name)!Streams'
<1>1. /\ s1' = s1 /\ s2' = s2 /\ s3' = s3 /\ s4' = s4 /\ s6' = s6 /\ s9' = s9 /\ s10' = s10
      /\ s8[t] # None
      /\ s8 \in [UploadTitles[name] -> Upload(name)!RowType \cup {None}]
  BY DEF Upload!Remove, Upload!Transcode, Upload!IInv, Upload!TypeOK
<1>2. \A k \in UploadTitles[name] \ {t} : s8'[k] = s8[k]
  BY <1>1 DEF Upload!Remove, Upload!Transcode
<1>3. \A k \in UploadTitles[name] : s8[k] = None => s8'[k] = None BY <1>1, <1>2
<1>4. \A k \in UploadTitles[name] : Upload(name)!Dead(k) => Upload(name)!Dead(k)'
  BY <1>1, <1>3 DEF Upload!Dead
<1>5. \A k \in UploadTitles[name] : Upload(name)!Owner(k)' => Upload(name)!Owner(k)
  BY <1>1, <1>3 DEF Upload!Owner
<1>6. \A k \in UploadTitles[name] : s1[k] = None =>
           /\ s8'[k] = None /\ s2'[k] = "none" /\ k \notin s3' /\ k \notin s4'
           /\ \A o \in UploadRequests[name] : s9'[o].t # k
  BY <1>1, <1>3 DEF Upload!IInv, Upload!Started
<1>7. \A k \in UploadTitles[name] :
        UploadKinds[name][k] \in Upload(name)!Content /\ Upload(name)!Owner(k)'
          /\ Upload(name)!Key(k) \notin s10 => s6'[Upload(name)!Key(k)] \in {None, k}
  BY <1>1, <1>5, VideosOwned
<1>8. Upload(name)!Streams'
  <2>1. CASE Upload(name)!Remove(t)
    <3>1. s8' = [s8 EXCEPT ![t] = None] BY <2>1 DEF Upload!Remove
    <3> QED BY <1>1, <1>2, <3>1, StreamsKept
  <2>2. CASE Upload(name)!Transcode(t)
    <3>1. s8[t] \in Upload(name)!RowType /\ s8[t].job BY <1>1, <2>2 DEF Upload!Transcode
    <3>2. s8'[t].stream = s6[Upload(name)!Key(t)]
      BY <1>1, <2>2, <3>1 DEF Upload!Transcode, Upload!RowType
    <3>3. UploadKinds[name][t] \in Upload(name)!Content
      BY <1>1, <3>1 DEF Upload!IInv, Upload!Streams
    <3>4. Upload(name)!Key(t) \in s10 \/ s8'[t].stream \in {None, t}
      BY <1>1, <3>2, <3>3, VideosOwned DEF Upload!Owner
    <3>5. \A k : Upload(name)!Key(k)' = Upload(name)!Key(k) BY <1>1 DEF Upload!Key
    <3> QED BY <1>1, <1>2, <3>3, <3>4, <3>5 DEF Upload!Streams, Upload!IInv
  <2> QED BY <2>1, <2>2
<1> QED BY <1>1, <1>4, <1>6, <1>7, <1>8, VideosKept

(* The parts become the video. *)
LEMMA VideosAssembled ==
  ASSUME NEW name \in UploadNames, Upload(name)!UploadsConstants, Upload(name)!IInv,
         NEW r \in UploadRequests[name], NEW answered \in BOOLEAN,
         Upload(name)!Assemble(r, answered)
  PROVE  /\ Upload(name)!Started' /\ Upload(name)!Alone' /\ Upload(name)!Owned'
         /\ Upload(name)!Streams'
<1>1. /\ s1' = s1 /\ s3' = s3 /\ s4' = s4 /\ s8' = s8 /\ s10' = s10 /\ s9[r].at = "assemble"
      /\ Upload(name)!Drafts(r) /\ Upload(name)!TypeOK
  BY DEF Upload!Assemble, Upload!IInv
<1>2. PICK t \in UploadTitles[name] : t = s9[r].t BY <1>1 DEF Upload!Drafts
<1>3. Upload(name)!Idle.t = None BY DEF Upload!Idle
<1>4. s9 \in [UploadRequests[name] -> Upload(name)!ReqType] BY <1>1 DEF Upload!TypeOK
<1>5. CASE s2[t] # "open"
  <2>1. s2' = s2 /\ s6' = s6 /\ s9' = [s9 EXCEPT ![r] = Upload(name)!Idle]
    BY <1>2, <1>5 DEF Upload!Assemble, Upload!Fail
  <2>2. s9'[r].t = None /\ \A o \in UploadRequests[name] \ {r} : s9'[o] = s9[o]
    BY <1>3, <1>4, <2>1
  <2> QED BY <1>1, <2>1, <2>2, VideosTurn
<1>6. CASE s2[t] = "open"
  <2>1. s2' = [s2 EXCEPT ![t] = "closed"] /\ s6' = [s6 EXCEPT ![Upload(name)!Key(t)] = t]
    BY <1>2, <1>6 DEF Upload!Assemble
  <2>2. s9'[r].t \in {None, t} /\ \A o \in UploadRequests[name] \ {r} : s9'[o] = s9[o]
    BY <1>2, <1>3, <1>4, <1>6 DEF Upload!Assemble, Upload!Fail, Upload!To, Upload!ReqType
  <2>3. ~Upload(name)!Dead(t) BY <1>6 DEF Upload!Dead
  <2>4. s1[t] # None BY <1>6 DEF Upload!IInv, Upload!Started
  <2>5. s2'[t] = "closed" /\ \A k \in UploadTitles[name] \ {t} : s2'[k] = s2[k]
    BY <1>1, <2>1 DEF Upload!TypeOK
  <2>6. \A k \in UploadTitles[name] : Upload(name)!Dead(k) => Upload(name)!Dead(k)'
    BY <1>1, <2>2, <2>3, <2>5 DEF Upload!Dead, Upload!UploadsConstants
  <2>7. \A k \in UploadTitles[name] : s1[k] = None =>
           /\ s8'[k] = None /\ s2'[k] = "none" /\ k \notin s3' /\ k \notin s4'
           /\ \A o \in UploadRequests[name] : s9'[o].t # k
    BY <1>1, <2>2, <2>4, <2>5 DEF Upload!IInv, Upload!Started, Upload!UploadsConstants
  <2>8. \A k \in UploadTitles[name] \ {t} : Upload(name)!Owner(k)' => Upload(name)!Owner(k)
    BY <1>1, <2>2 DEF Upload!Owner, Upload!UploadsConstants
  <2>9. Upload(name)!Key(t) \in Upload(name)!Keys
    BY <1>1, <2>4 DEF Upload!TypeOK, Upload!Key, Upload!Keys
  <2>10. s6'[Upload(name)!Key(t)] = t BY <1>1, <2>1, <2>9 DEF Upload!TypeOK
  <2>11. \A k \in UploadTitles[name] :
        UploadKinds[name][k] \in Upload(name)!Content /\ Upload(name)!Owner(k)'
          /\ Upload(name)!Key(k) \notin s10 => s6'[Upload(name)!Key(k)] \in {None, k}
    BY <2>1, <2>3, <2>8, <2>10, OwnVideo
  <2>12. Upload(name)!Streams' BY <1>1, StreamsKept
  <2> QED BY <1>1, <2>6, <2>7, <2>11, <2>12, VideosKept
<1> QED BY <1>5, <1>6

(* A request begins. *)
LEMMA VideosBegun ==
  ASSUME NEW name \in UploadNames, Upload(name)!UploadsConstants, Upload(name)!IInv,
         NEW r \in UploadRequests[name], NEW op, NEW at, NEW t \in UploadTitles[name],
         NEW f, NEW v, Upload(name)!Begin(r, op, at, t, f, v),
         s1[t] # None, at = "assemble" \/ s8[t] # None
  PROVE  /\ Upload(name)!Started' /\ Upload(name)!Alone' /\ Upload(name)!Owned'
         /\ Upload(name)!Streams'
<1>1. /\ s1' = s1 /\ s2' = s2 /\ s3' = s3 /\ s4' = s4 /\ s6' = s6 /\ s8' = s8 /\ s10' = s10
      /\ s9 \in [UploadRequests[name] -> Upload(name)!ReqType]
  BY DEF Upload!Begin, Upload!IInv, Upload!TypeOK
<1>2. /\ s9'[r].t = t /\ s9'[r].at = at
      /\ \A o \in UploadRequests[name] \ {r} : s9'[o] = s9[o]
  BY <1>1 DEF Upload!Begin, Upload!Idle
<1>3. \A k \in UploadTitles[name] : Upload(name)!Dead(k) => Upload(name)!Dead(k)'
  BY <1>1, <1>2 DEF Upload!Dead
<1>4. \A k \in UploadTitles[name] : Upload(name)!Owner(k)' => Upload(name)!Owner(k)
  BY <1>1, <1>2 DEF Upload!Owner
<1>5. \A k \in UploadTitles[name] : s1[k] = None =>
           /\ s8'[k] = None /\ s2'[k] = "none" /\ k \notin s3' /\ k \notin s4'
           /\ \A o \in UploadRequests[name] : s9'[o].t # k
  BY <1>1, <1>2 DEF Upload!IInv, Upload!Started
<1>6. \A k \in UploadTitles[name] :
        UploadKinds[name][k] \in Upload(name)!Content /\ Upload(name)!Owner(k)'
          /\ Upload(name)!Key(k) \notin s10 => s6'[Upload(name)!Key(k)] \in {None, k}
  BY <1>1, <1>4, VideosOwned
<1>7. Upload(name)!Streams' BY <1>1, StreamsKept
<1> QED BY <1>1, <1>3, <1>5, <1>6, <1>7, VideosKept

(* A title gets its name. *)
LEMMA VideosNamed ==
  ASSUME NEW name \in UploadNames, Upload(name)!UploadsConstants, Upload(name)!IInv,
         NEW t \in UploadTitles[name], NEW x \in {plain, t}, NEW draft \in BOOLEAN,
         s1[t] = None, Upload(name)!Named(t, x, draft), x = plain => ~Upload(name)!Taken(t, plain),
         s3' = s3, s4' = s4, s6' = s6, s8' = s8,
         \A k \in UploadTitles[name] \ {t} : s2'[k] = s2[k],
         \A r \in UploadRequests[name] :
           s9'[r] = s9[r] \/ (s9'[r].t = t /\ s9[r].t = None /\ draft)
  PROVE  /\ Upload(name)!Started' /\ Upload(name)!Alone' /\ Upload(name)!Owned'
         /\ Upload(name)!Streams'
<1>1. /\ Upload(name)!TypeOK
           /\ s1 \in [UploadTitles[name] -> UploadTitles[name] \cup {plain, None}]
      /\ \A k \in UploadTitles[name] : s1[k] \in {None, plain, k}
  BY DEF Upload!IInv, Upload!TypeOK
<1>2. s1'[t] = x /\ \A k \in UploadTitles[name] \ {t} : s1'[k] = s1[k]
  BY <1>1 DEF Upload!Named
<1>3. s10' = IF Upload(name)!Clash(t, x, draft) THEN s10 \cup {<<UploadKinds[name][t], x>>}
        ELSE s10
  BY DEF Upload!Named
<1>4. \A k \in UploadTitles[name] \ {t} : Upload(name)!Key(k)' = Upload(name)!Key(k)
  BY <1>2 DEF Upload!Key
<1>5. Upload(name)!Key(t)' = <<UploadKinds[name][t], x>> BY <1>2 DEF Upload!Key
<1>6. /\ s8[t] = None /\ t \notin s3 /\ t \notin s4
      /\ \A r \in UploadRequests[name] : s9[r].t # t
  BY DEF Upload!IInv, Upload!Started
<1>7. \A k \in UploadTitles[name] \ {t} : Upload(name)!Dead(k) => Upload(name)!Dead(k)'
  BY DEF Upload!Dead
<1>8. Upload(name)!Started'
  <2>1. ASSUME NEW k \in UploadTitles[name], s1'[k] = None
        PROVE  /\ s8'[k] = None /\ s2'[k] = "none" /\ k \notin s3' /\ k \notin s4'
               /\ \A o \in UploadRequests[name] : s9'[o].t # k
    <3>1. k # t /\ s1[k] = None BY <1>2, <2>1 DEF Upload!UploadsConstants
    <3> QED BY <3>1 DEF Upload!IInv, Upload!Started
  <2> QED BY <2>1 DEF Upload!Started
<1>9. ASSUME NEW k \in UploadTitles[name] \ {t},
             Upload(name)!Key(k) = <<UploadKinds[name][t], x>>,
             <<UploadKinds[name][t], x>> \notin s10'
      PROVE  Upload(name)!Dead(k)'
  <2>1. UploadKinds[name][k] = UploadKinds[name][t] /\ s1[k] = x BY <1>9 DEF Upload!Key
  <2>2. ~Upload(name)!Clash(t, x, draft) BY <1>3, <1>9
  <2>3. ~Upload(name)!Pending(k) BY <2>1, <2>2 DEF Upload!Clash
  <2>4. x = plain BY <1>1, <2>1 DEF Upload!UploadsConstants
  <2>5. UploadKinds[name][k] \in Upload(name)!Table(t) BY <2>1 DEF Upload!Table
  <2>6. s8[k] = None BY <2>1, <2>4, <2>5 DEF Upload!Taken
  <2>7. Upload(name)!Dead(k) BY <2>3, <2>6 DEF Upload!Pending, Upload!Dead
  <2> QED BY <1>7, <2>7
<1>10. Upload(name)!Alone'
  <2>1. ASSUME NEW a \in UploadTitles[name], NEW k \in UploadTitles[name], a # k,
               s1'[a] # None, Upload(name)!Key(a)' = Upload(name)!Key(k)',
               Upload(name)!Key(a)' \notin s10'
        PROVE  Upload(name)!Dead(a)' \/ Upload(name)!Dead(k)'
    <3>1. CASE a = t BY <1>4, <1>5, <1>9, <2>1, <3>1
    <3>2. CASE k = t BY <1>4, <1>5, <1>9, <2>1, <3>2
    <3>3. CASE a # t /\ k # t
      <4>1. /\ s1[a] # None /\ Upload(name)!Key(a) = Upload(name)!Key(k)
            /\ Upload(name)!Key(a) \notin s10
        BY <1>2, <1>3, <1>4, <2>1, <3>3
      <4>2. Upload(name)!Dead(a) \/ Upload(name)!Dead(k)
        BY <2>1, <4>1 DEF Upload!IInv, Upload!Alone
      <4> QED BY <1>7, <3>3, <4>2
    <3> QED BY <3>1, <3>2, <3>3
  <2> QED BY <2>1 DEF Upload!Alone
<1>11. Upload(name)!Owned'
  <2>1. ASSUME NEW k \in UploadTitles[name], UploadKinds[name][k] \in Upload(name)!Content,
               Upload(name)!Owner(k)', Upload(name)!Key(k)' \notin s10'
        PROVE  s6'[Upload(name)!Key(k)'] \in {None, k}
    <3>1. CASE k # t
      <4>1. Upload(name)!Owner(k) BY <2>1, <3>1 DEF Upload!Owner
      <4> QED BY <1>3, <1>4, <2>1, <3>1, <4>1, VideosOwned
    <3>2. CASE k = t
      <4>1. draft BY <1>6, <2>1, <3>2 DEF Upload!Owner
      <4>2. UploadKinds[name][t] \in Upload(name)!Content BY <2>1, <3>2
      <4>3. ~Upload(name)!Clash(t, x, draft) BY <1>3, <1>5, <2>1, <3>2
      <4> QED BY <1>5, <3>2, <4>1, <4>2, <4>3 DEF Upload!Clash
    <3> QED BY <3>1, <3>2
  <2> QED BY <2>1 DEF Upload!Owned
<1>12. Upload(name)!Streams'
  <2>1. ASSUME NEW k \in UploadTitles[name], s8'[k] # None
        PROVE  /\ Upload(name)!Key(k)' \in s10' \/ s8'[k].stream \in {None, k}
               /\ UploadKinds[name][k] \in Upload(name)!Content
                    \/ (~s8'[k].job /\ ~s8'[k].audio /\ s8'[k].stream = None)
    <3>1. k # t BY <1>6, <2>1
    <3> QED BY <1>3, <1>4, <2>1, <3>1 DEF Upload!IInv, Upload!Streams
  <2> QED BY <2>1 DEF Upload!Streams
<1> QED BY <1>8, <1>10, <1>11, <1>12

(* The commit. *)
LEMMA VideosSaved ==
  ASSUME NEW name \in UploadNames, Upload(name)!UploadsConstants, Upload(name)!IInv,
         NEW r \in UploadRequests[name], NEW ok \in BOOLEAN, Upload(name)!Save(r, ok)
  PROVE  /\ Upload(name)!Started' /\ Upload(name)!Alone' /\ Upload(name)!Owned'
         /\ Upload(name)!Streams'
<1>1. /\ s1' = s1 /\ s2' = s2 /\ s3' = s3 /\ s4' = s4 /\ s6' = s6 /\ s10' = s10
      /\ s9' = [s9 EXCEPT ![r] = Upload(name)!Idle] /\ s9[r].at = "save"
      /\ s9 \in [UploadRequests[name] -> Upload(name)!ReqType] /\ Upload(name)!Drafts(r)
      /\ s8 \in [UploadTitles[name] -> Upload(name)!RowType \cup {None}]
  BY DEF Upload!Save, Upload!Fail, Upload!IInv, Upload!TypeOK
<1>2. Upload(name)!Idle.t = None BY DEF Upload!Idle
<1>3. s9'[r].t = None /\ \A o \in UploadRequests[name] \ {r} : s9'[o] = s9[o]
  BY <1>1, <1>2
<1>4. CASE s8' = s8 BY <1>1, <1>3, <1>4, VideosTurn
<1>5. CASE s8' # s8
  <2>1. PICK t : t = s9[r].t OBVIOUS
  <2>2. t \in UploadTitles[name] BY <1>5, <2>1, UploadSaved
  <2>3. PICK x \in Upload(name)!RowType, old \in Upload(name)!RowType :
              /\ s8' = [s8 EXCEPT ![t] = x]
              /\ s8[t] = None => old = Upload(name)!Blank
              /\ s8[t] # None => old = s8[t]
              /\ x.stream \in {None, old.stream}
              /\ s9[r].video
                   \/ (x.job = old.job /\ x.audio = old.audio /\ x.stream = old.stream)
    BY <1>5, <2>1, UploadSaved
  <2>4. s8'[t] = x /\ \A k \in UploadTitles[name] \ {t} : s8'[k] = s8[k]
    BY <1>1, <2>2, <2>3
  <2>5. Upload(name)!Owner(t) BY <1>1, <2>1 DEF Upload!Owner
  <2>6. s1[t] # None /\ ~Upload(name)!Dead(t) BY <2>2, <2>5, OwnerNamed
  <2>7. \A k \in UploadTitles[name] : Upload(name)!Dead(k) => Upload(name)!Dead(k)'
    BY <1>1, <1>3, <2>4, <2>6 DEF Upload!Dead, Upload!UploadsConstants
  <2>8. \A k \in UploadTitles[name] : s1[k] = None =>
           /\ s8'[k] = None /\ s2'[k] = "none" /\ k \notin s3' /\ k \notin s4'
           /\ \A o \in UploadRequests[name] : s9'[o].t # k
    BY <1>1, <1>3, <2>4, <2>6 DEF Upload!IInv, Upload!Started, Upload!UploadsConstants
  <2>9. \A k \in UploadTitles[name] : Upload(name)!Owner(k)' => Upload(name)!Owner(k)
    BY <1>1, <1>3, <2>4, <2>5 DEF Upload!Owner, Upload!UploadsConstants
  <2>10. \A k \in UploadTitles[name] :
        UploadKinds[name][k] \in Upload(name)!Content /\ Upload(name)!Owner(k)'
          /\ Upload(name)!Key(k) \notin s10 => s6'[Upload(name)!Key(k)] \in {None, k}
    BY <1>1, <2>9, VideosOwned
  <2>11. /\ Upload(name)!Blank.stream = None /\ Upload(name)!Blank.job = FALSE
         /\ Upload(name)!Blank.audio = FALSE
    BY DEF Upload!Blank
  <2>12. s9[r].video => UploadKinds[name][t] \in Upload(name)!Content
    BY <1>1, <2>1 DEF Upload!Drafts
  <2>13. \A k : Upload(name)!Key(k)' = Upload(name)!Key(k) BY <1>1 DEF Upload!Key
  <2>14. /\ Upload(name)!Key(t) \in s10 \/ x.stream \in {None, t}
         /\ UploadKinds[name][t] \in Upload(name)!Content
              \/ (~x.job /\ ~x.audio /\ x.stream = None)
    <3>1. CASE s8[t] = None BY <2>3, <2>11, <2>12, <3>1
    <3>2. CASE s8[t] # None
      <4>1. /\ Upload(name)!Key(t) \in s10 \/ old.stream \in {None, t}
            /\ UploadKinds[name][t] \in Upload(name)!Content
                 \/ (~old.job /\ ~old.audio /\ old.stream = None)
        BY <2>2, <2>3, <3>2 DEF Upload!IInv, Upload!Streams
      <4> QED BY <2>3, <2>12, <4>1
    <3> QED BY <3>1, <3>2
  <2>15. Upload(name)!Streams'
    BY <1>1, <2>4, <2>13, <2>14 DEF Upload!Streams, Upload!IInv
  <2> QED BY <1>1, <2>7, <2>8, <2>10, <2>15, VideosKept
<1> QED BY <1>4, <1>5

(* A picture that is asked for has a name nobody has. *)
LEMMA UploadPicture ==
  ASSUME NEW name \in UploadNames, Upload(name)!IInv, NEW t \in UploadTitles[name],
         NEW form \in {"webp", "other"}, NEW f \in Upload(name)!Fresh \cup {None},
         Upload(name)!Picture(t, f, form)
  PROVE  /\ s5' \in [UploadFiles[name] -> (UploadTitles[name] \X Upload(name)!Forms) \cup {None}]
         /\ \A g \in UploadFiles[name] : s5[g] # None => s5'[g] = s5[g]
<1>1. s5 \in [UploadFiles[name] -> (UploadTitles[name] \X Upload(name)!Forms) \cup {None}]
  BY DEF Upload!IInv, Upload!TypeOK
<1>2. CASE s5' = s5 BY <1>1, <1>2
<1>3. CASE s5' = [s5 EXCEPT ![f] = <<t, form>>] /\ f # None
  <2>1. f \in UploadFiles[name] /\ s5[f] = None BY <1>3 DEF Upload!Fresh
  <2>2. <<t, form>> \in UploadTitles[name] \X Upload(name)!Forms BY DEF Upload!Forms
  <2> QED BY <1>1, <1>3, <2>1, <2>2
<1> QED BY <1>2, <1>3 DEF Upload!Picture

(* A title is started, *)
LEMMA UploadStarted ==
  ASSUME NEW name \in UploadNames, Upload(name)!UploadsConstants, Upload(name)!IInv,
         NEW t \in UploadTitles[name], NEW form \in {"webp", "other"},
         NEW f \in Upload(name)!Fresh \cup {None},
         Upload(name)!StartMovie(t, f, form) \/ Upload(name)!StartEpisode(t, f, form)
  PROVE  Upload(name)!IInv'
<1>1. PICK x : x = Upload(name)!unique_content_slug(t) OBVIOUS
<1>2. x \in {plain, t} /\ (x = plain => ~Upload(name)!Taken(t, plain))
  BY <1>1 DEF Upload!unique_content_slug, Upload!UploadsConstants
<1>3. /\ s1[t] = None /\ Upload(name)!Named(t, x, FALSE) /\ s2' = [s2 EXCEPT ![t] = "open"]
      /\ Upload(name)!Picture(t, f, form) /\ s3' = s3 /\ s4' = s4 /\ s6' = s6 /\ s7' = s7
      /\ s8' = s8 /\ s9' = s9 /\ s11' = s11
  BY <1>1 DEF Upload!StartMovie, Upload!StartEpisode, Upload!Open
<1>4. Upload(name)!TypeOK BY DEF Upload!IInv
<1>5. s1' = [s1 EXCEPT ![t] = x] BY <1>3 DEF Upload!Named
<1>6. Upload(name)!TypeOK'
  <2>1. s2' \in [UploadTitles[name] -> {"none", "open", "closed"}]
    BY <1>3, <1>4 DEF Upload!TypeOK
  <2>2. /\ s1' \in [UploadTitles[name] -> UploadTitles[name] \cup {plain, None}]
        /\ \A k \in UploadTitles[name] : s1'[k] \in {None, plain, k}
    BY <1>2, <1>4, <1>5 DEF Upload!TypeOK
  <2>3. Upload(name)!Keys' = Upload(name)!Keys BY DEF Upload!Keys
  <2> QED BY <1>3, <1>4, <2>1, <2>2, <2>3, UploadPicture DEF Upload!TypeOK
<1>7. \A k \in UploadTitles[name] \ {t} : s2'[k] = s2[k] BY <1>3, <1>4 DEF Upload!TypeOK
<1>8. /\ Upload(name)!Started' /\ Upload(name)!Alone' /\ Upload(name)!Owned'
      /\ Upload(name)!Streams'
  <2>1. \A o \in UploadRequests[name] :
          s9'[o] = s9[o] \/ (s9'[o].t = t /\ s9[o].t = None /\ FALSE)
    <3>1. s9' = s9 BY <1>3
    <3> QED BY <3>1, Zenon
  <2> QED BY <1>2, <1>3, <1>7, <2>1, VideosNamed
<1>9. s7 \subseteq s7' /\ \A k \in UploadTitles[name] : s8'[k] = None
        \/ (s8[k] # None /\ s8'[k].image = s8[k].image)
  BY <1>3
<1>10. Upload(name)!Pictures' /\ \A r \in UploadRequests[name] : Upload(name)!Drafts(r)'
  BY <1>3, <1>9, PicturesKept, UploadPicture
<1> QED BY <1>6, <1>8, <1>10 DEF Upload!IInv

(* or drafted, *)
LEMMA UploadDrafted ==
  ASSUME NEW name \in UploadNames, Upload(name)!UploadsConstants, Upload(name)!IInv,
         NEW r \in UploadRequests[name], NEW t \in UploadTitles[name],
         Upload(name)!CheckDraft(r, t)
  PROVE  Upload(name)!IInv'
<1>1. PICK x : x = IF UploadKinds[name][t] = "promotion" THEN t
                   ELSE Upload(name)!unique_content_slug(t)
  OBVIOUS
<1>2. x \in {plain, t} /\ (x = plain => ~Upload(name)!Taken(t, plain))
  BY <1>1 DEF Upload!unique_content_slug, Upload!UploadsConstants
<1>3. /\ s1[t] = None /\ Upload(name)!Named(t, x, TRUE) /\ s2' = s2
      /\ s3' = s3 /\ s4' = s4 /\ s6' = s6 /\ s5' = s5 /\ s7' = s7
      /\ s8' = s8 /\ s11' = s11 /\ s9[r] = Upload(name)!Idle
  BY <1>1 DEF Upload!CheckDraft, Upload!Unused
<1>4. Upload(name)!TypeOK BY DEF Upload!IInv
<1>5. s1' = [s1 EXCEPT ![t] = x] BY <1>3 DEF Upload!Named
<1> DEFINE y == [Upload(name)!Idle EXCEPT !.op = "draft", !.at = "save", !.t = t]
<1>6. s9' = [s9 EXCEPT ![r] = y] BY DEF Upload!CheckDraft
<1>7. y \in Upload(name)!ReqType /\ y.t = t /\ Upload(name)!Idle.t = None
  BY DEF Upload!ReqType, Upload!Idle, Upload!Steps
<1> HIDE DEF y
<1>8. Upload(name)!TypeOK'
  <2>1. s9' \in [UploadRequests[name] -> Upload(name)!ReqType]
    BY <1>4, <1>6, <1>7 DEF Upload!TypeOK
  <2>2. /\ s1' \in [UploadTitles[name] -> UploadTitles[name] \cup {plain, None}]
        /\ \A k \in UploadTitles[name] : s1'[k] \in {None, plain, k}
    BY <1>2, <1>4, <1>5 DEF Upload!TypeOK
  <2> QED BY <1>3, <1>4, <2>1, <2>2 DEF Upload!TypeOK
<1>9. \A o \in UploadRequests[name] :
        s9'[o] = s9[o] \/ (s9'[o].t = t /\ s9[o].t = None /\ TRUE)
  BY <1>3, <1>4, <1>6, <1>7 DEF Upload!TypeOK
<1>10. /\ Upload(name)!Started' /\ Upload(name)!Alone' /\ Upload(name)!Owned'
       /\ Upload(name)!Streams'
  BY <1>2, <1>3, <1>9, VideosNamed
<1> QED BY <1>8, <1>10, PicturesDrafted DEF Upload!IInv

(* gets other files, *)
LEMMA UploadSent ==
  ASSUME NEW name \in UploadNames, Upload(name)!UploadsConstants, Upload(name)!IInv,
         \/ \E t \in UploadTitles[name], f \in Upload(name)!Fresh \cup {None},
              form \in {"webp", "other"} : \E kinds, v :
                Upload(name)!Replace(t, kinds, f, form, v)
         \/ \E f \in UploadFiles[name] : Upload(name)!SendPicture(f)
         \/ \E t \in UploadTitles[name] :
              \/ Upload(name)!SendVideo(t) \/ Upload(name)!Expire(t)
                   \/ Upload(name)!Abort(t)
              \/ Upload(name)!StartExport(t) \/ Upload(name)!FinishExport(t)
         \/ \E k \in Upload(name)!Keys : Upload(name)!Lose(k)
  PROVE  Upload(name)!IInv'
<1>1. /\ Upload(name)!Started' /\ Upload(name)!Alone' /\ Upload(name)!Owned'
      /\ Upload(name)!Streams'
  BY VideosSent
<1>2. Upload(name)!TypeOK BY DEF Upload!IInv
<1>3. s8' = s8 /\ s9' = s9 /\ s11' = s11 /\ s1' = s1
  BY DEF Upload!Replace, Upload!SendPicture, Upload!SendVideo, Upload!Expire, Upload!Abort,
     Upload!StartExport, Upload!FinishExport, Upload!Lose
<1>4. \/ \E t \in UploadTitles[name], form \in {"webp", "other"},
              f \in Upload(name)!Fresh \cup {None} : Upload(name)!Picture(t, f, form)
      \/ s5' = s5
  BY DEF Upload!Replace, Upload!SendPicture, Upload!SendVideo, Upload!Expire, Upload!Abort,
     Upload!StartExport, Upload!FinishExport, Upload!Lose
<1>5. /\ s5' \in [UploadFiles[name] -> (UploadTitles[name] \X Upload(name)!Forms) \cup {None}]
      /\ \A g \in UploadFiles[name] : s5[g] # None => s5'[g] = s5[g]
  BY <1>2, <1>4, UploadPicture DEF Upload!TypeOK
<1>6. s7' = s7 \/ \E f \in UploadFiles[name] : s5[f] # None
        /\ s7' = s7 \cup {Upload(name)!Sent(f)}
  BY DEF Upload!Replace, Upload!SendPicture, Upload!SendVideo, Upload!Expire, Upload!Abort,
     Upload!StartExport, Upload!FinishExport, Upload!Lose
<1>7. s7 \subseteq s7' /\ s7' \subseteq UploadFiles[name] \X Upload(name)!Forms
  BY <1>2, <1>6 DEF Upload!TypeOK, Upload!Sent
<1>8. s3' \subseteq UploadTitles[name]
  BY <1>2 DEF Upload!TypeOK, Upload!Replace, Upload!SendPicture, Upload!SendVideo,
     Upload!Expire, Upload!Abort, Upload!StartExport, Upload!FinishExport, Upload!Lose
<1>9. s4' \subseteq UploadTitles[name]
  BY <1>2 DEF Upload!TypeOK, Upload!Replace, Upload!SendPicture, Upload!SendVideo,
     Upload!Expire, Upload!Abort, Upload!StartExport, Upload!FinishExport, Upload!Lose
<1>10. s2' = s2 \/ \E t : s2' = [s2 EXCEPT ![t] = "closed"]
  BY DEF Upload!Replace, Upload!SendPicture, Upload!SendVideo, Upload!Expire, Upload!Abort,
     Upload!StartExport, Upload!FinishExport, Upload!Lose
<1>11. s6' = s6 \/ \E k, v : s6' = [s6 EXCEPT ![k] = v]
         /\ v \in UploadTitles[name] \cup {None}
  BY DEF Upload!Replace, Upload!SendPicture, Upload!SendVideo, Upload!Expire, Upload!Abort,
     Upload!StartExport, Upload!FinishExport, Upload!Lose
<1>12. /\ s2' \in [UploadTitles[name] -> {"none", "open", "closed"}]
       /\ s6' \in [Upload(name)!Keys -> UploadTitles[name] \cup {None}]
  BY <1>2, <1>10, <1>11 DEF Upload!TypeOK
<1>13. Upload(name)!Keys' = Upload(name)!Keys BY DEF Upload!Keys
<1>14. Upload(name)!TypeOK'
  BY <1>2, <1>3, <1>5, <1>7, <1>8, <1>9, <1>12, <1>13 DEF Upload!TypeOK
<1>15. \A k \in UploadTitles[name] : s8'[k] = None
         \/ (s8[k] # None /\ s8'[k].image = s8[k].image)
  BY <1>3
<1>16. Upload(name)!Pictures' /\ \A r \in UploadRequests[name] : Upload(name)!Drafts(r)'
  BY <1>3, <1>5, <1>7, <1>15, PicturesKept
<1> QED BY <1>1, <1>14, <1>16 DEF Upload!IInv

(* is completed or changed: *)
LEMMA UploadBegun ==
  ASSUME NEW name \in UploadNames, Upload(name)!UploadsConstants, Upload(name)!IInv,
         NEW r \in UploadRequests[name], NEW t \in UploadTitles[name],
         NEW f \in UploadFiles[name] \cup {None}, NEW v \in BOOLEAN,
         \/ Upload(name)!CompleteMovie(r, t, f) \/ Upload(name)!CompleteEpisode(r, t, f)
         \/ Upload(name)!ChangeMovie(r, t, f, v) \/ Upload(name)!ChangeEpisode(r, t, f, v)
         \/ Upload(name)!ChangePodcast(r, t, f, v) \/ Upload(name)!ChangeSeries(r, t, f)
         \/ Upload(name)!ChangePromotion(r, t, f) \/ Upload(name)!ChangeLogo(r, t, f)
  PROVE  Upload(name)!IInv'
<1>1. PICK op \in {"create", "change"}, at \in {"assemble", "look", "get"}, w \in BOOLEAN :
        /\ Upload(name)!Begin(r, op, at, t, f, w) /\ s1[t] # None
        /\ at = "assemble" \/ s8[t] # None
        /\ w => UploadKinds[name][t] \in Upload(name)!Content
        /\ at = "get" => f # None /\ UploadKinds[name][t] \in Upload(name)!Unchecked
  <2>1. s8[t] # None => s1[t] # None BY DEF Upload!IInv, Upload!Started
  <2>2. CASE Upload(name)!CompleteMovie(r, t, f) \/ Upload(name)!CompleteEpisode(r, t, f)
    BY <2>2 DEF Upload!CompleteMovie, Upload!CompleteEpisode, Upload!Content
  <2>3. CASE \/ Upload(name)!ChangeMovie(r, t, f, v)
                  \/ Upload(name)!ChangeEpisode(r, t, f, v)
             \/ Upload(name)!ChangePodcast(r, t, f, v)
    BY <2>1, <2>3 DEF Upload!ChangeMovie, Upload!ChangeEpisode, Upload!ChangePodcast,
       Upload!Change, Upload!Content, Upload!Unchecked
  <2>4. CASE \/ Upload(name)!ChangeSeries(r, t, f) \/ Upload(name)!ChangePromotion(r, t, f)
             \/ Upload(name)!ChangeLogo(r, t, f)
    BY <2>1, <2>4 DEF Upload!ChangeSeries, Upload!ChangePromotion, Upload!ChangeLogo,
       Upload!Change, Upload!Unchecked
  <2> QED BY <2>2, <2>3, <2>4
<1>2. /\ Upload(name)!Started' /\ Upload(name)!Alone' /\ Upload(name)!Owned'
      /\ Upload(name)!Streams'
  BY <1>1, VideosBegun
<1>3. at \in {"assemble", "look"}
        \/ (at = "get" /\ f # None /\ UploadKinds[name][t] \in Upload(name)!Unchecked)
  BY <1>1
<1>4. Upload(name)!Pictures' /\ \A q \in UploadRequests[name] : Upload(name)!Drafts(q)'
  BY <1>1, <1>3, PicturesBegun
<1>5. Upload(name)!TypeOK /\ s8 \in [UploadTitles[name] -> Upload(name)!RowType \cup {None}]
  BY DEF Upload!IInv, Upload!TypeOK
<1>6. PICK was : was = IF s8[t] = None THEN None ELSE s8[t].stream OBVIOUS
<1>7. was \in UploadTitles[name] \cup {None} BY <1>5, <1>6 DEF Upload!RowType
<1> DEFINE x == [Upload(name)!Idle EXCEPT !.op = op, !.at = at, !.t = t, !.f = f,
                   !.video = w, !.was = was]
<1>8. s9' = [s9 EXCEPT ![r] = x] BY <1>1, <1>6 DEF Upload!Begin
<1>9. x \in Upload(name)!ReqType
  BY <1>1, <1>7 DEF Upload!ReqType, Upload!Idle, Upload!Steps
<1> HIDE DEF x
<1>10. s9' \in [UploadRequests[name] -> Upload(name)!ReqType]
  BY <1>5, <1>8, <1>9 DEF Upload!TypeOK
<1>11. Upload(name)!TypeOK' BY <1>1, <1>5, <1>10 DEF Upload!TypeOK, Upload!Begin
<1> QED BY <1>2, <1>4, <1>11 DEF Upload!IInv

(* the request goes on, *)
LEMMA UploadSteps ==
  ASSUME NEW name \in UploadNames, Upload(name)!UploadsConstants, Upload(name)!IInv,
         NEW r \in UploadRequests[name],
         \/ Upload(name)!Look(r)
         \/ \E ok \in BOOLEAN : Upload(name)!Get(r, ok) \/ Upload(name)!Put(r, ok)
         \/ \E done, answered \in BOOLEAN : Upload(name)!Delete(r, done, answered)
  PROVE  Upload(name)!IInv'
<1>1. /\ s1' = s1 /\ s2' = s2 /\ s3' = s3 /\ s4' = s4 /\ s5' = s5 /\ s6' = s6 /\ s8' = s8
      /\ s10' = s10
  BY DEF Upload!Look, Upload!Get, Upload!Put, Upload!Delete
<1>2. /\ Upload(name)!TypeOK /\ Upload(name)!Drafts(r) /\ s9[r] \in Upload(name)!ReqType
  BY DEF Upload!IInv, Upload!TypeOK
<1>3. s9[r].at # "assemble" /\ s9[r].at # "none"
  BY DEF Upload!Look, Upload!Get, Upload!Put, Upload!Delete
<1>4. \/ s9' = Upload(name)!Fail(r)
      \/ s9' \in {Upload(name)!To(r, "save"), Upload(name)!To(r, "get"),
                  Upload(name)!To(r, "put"), Upload(name)!To(r, "delete")}
      \/ /\ s9[r].f # None
         /\ s9' \in {Upload(name)!SaveAs(r, Upload(name)!Sent(s9[r].f)),
                    Upload(name)!SaveAs(r, <<s9[r].f, "webp">>)}
  <2>1. s9[r].at \in {"get", "put", "delete"} => s9[r].f # None BY <1>2 DEF Upload!Drafts
  <2> QED BY <2>1 DEF Upload!Look, Upload!Get, Upload!Put, Upload!Delete
<1>5. PICK x \in Upload(name)!ReqType : s9' = [s9 EXCEPT ![r] = x]
        /\ x.t \in {None, s9[r].t}
  <2>1. CASE s9' = Upload(name)!Fail(r)
    <3>1. Upload(name)!Idle \in Upload(name)!ReqType /\ Upload(name)!Idle.t = None
      BY DEF Upload!Idle, Upload!ReqType, Upload!Steps
    <3> QED BY <2>1, <3>1 DEF Upload!Fail
  <2>2. CASE s9' \in {Upload(name)!To(r, "save"), Upload(name)!To(r, "get"),
                     Upload(name)!To(r, "put"), Upload(name)!To(r, "delete")}
    <3>1. {"save", "get", "put", "delete"} \subseteq Upload(name)!Steps BY DEF Upload!Steps
    <3> QED BY <2>2, <3>1, UploadTurned
  <2>3. CASE /\ s9[r].f # None
             /\ s9' \in {Upload(name)!SaveAs(r, Upload(name)!Sent(s9[r].f)),
                        Upload(name)!SaveAs(r, <<s9[r].f, "webp">>)}
    <3>1. PICK f : f = s9[r].f OBVIOUS
    <3>2. f \in UploadFiles[name] /\ s5[f] \in UploadTitles[name] \X Upload(name)!Forms
      BY <1>2, <2>3, <3>1 DEF Upload!TypeOK, Upload!Drafts, Upload!ReqType
    <3>3. {Upload(name)!Sent(f),
           <<f, "webp">>} \subseteq UploadFiles[name] \X Upload(name)!Forms
      BY <3>2 DEF Upload!Sent, Upload!Forms
    <3> QED BY <2>3, <3>1, <3>3, UploadSaving
  <2> QED BY <1>4, <2>1, <2>2, <2>3
<1>6. /\ s9' \in [UploadRequests[name] -> Upload(name)!ReqType] /\ s9'[r] = x
      /\ \A o \in UploadRequests[name] \ {r} : s9'[o] = s9[o]
  BY <1>2, <1>5 DEF Upload!TypeOK
<1>7. s7' \subseteq UploadFiles[name] \X Upload(name)!Forms
  <2>1. ASSUME NEW ok \in BOOLEAN, Upload(name)!Put(r, ok)
        PROVE  s7' \subseteq UploadFiles[name] \X Upload(name)!Forms
    <3>1. s9[r].f \in UploadFiles[name]
      BY <1>2, <2>1 DEF Upload!Put, Upload!Drafts, Upload!ReqType
    <3>2. s7' \subseteq s7 \cup {<<s9[r].f, "webp">>} BY <2>1 DEF Upload!Put
    <3> QED BY <1>2, <3>1, <3>2 DEF Upload!TypeOK, Upload!Forms
  <2> QED BY <1>2, <2>1 DEF Upload!TypeOK, Upload!Look, Upload!Get, Upload!Delete
<1>8. Upload(name)!TypeOK' BY <1>1, <1>2, <1>6, <1>7 DEF Upload!TypeOK
<1>9. /\ Upload(name)!Started' /\ Upload(name)!Alone' /\ Upload(name)!Owned'
      /\ Upload(name)!Streams'
  BY <1>1, <1>3, <1>5, <1>6, VideosTurn
<1>10. Upload(name)!Pictures' /\ \A q \in UploadRequests[name] : Upload(name)!Drafts(q)'
  BY PicturesLook, PicturesGet, PicturesPut, PicturesDelete
<1> QED BY <1>8, <1>9, <1>10 DEF Upload!IInv

(* puts its parts together *)
LEMMA UploadAssembled ==
  ASSUME NEW name \in UploadNames, Upload(name)!UploadsConstants, Upload(name)!IInv,
         NEW r \in UploadRequests[name], NEW answered \in BOOLEAN,
         Upload(name)!Assemble(r, answered)
  PROVE  Upload(name)!IInv'
<1>1. /\ s1' = s1 /\ s3' = s3 /\ s4' = s4 /\ s5' = s5 /\ s7' = s7 /\ s8' = s8 /\ s10' = s10
      /\ s11' = s11 /\ s9[r].at = "assemble"
      /\ Upload(name)!TypeOK /\ Upload(name)!Drafts(r)
  BY DEF Upload!Assemble, Upload!IInv
<1>2. s9[r].t \in UploadTitles[name] BY <1>1 DEF Upload!Drafts
<1>3. s9' = Upload(name)!Fail(r) \/ s9' = Upload(name)!To(r, "look") BY DEF Upload!Assemble
<1>4. PICK x \in Upload(name)!ReqType : s9' = [s9 EXCEPT ![r] = x]
  <2>1. CASE s9' = Upload(name)!Fail(r)
    BY <2>1 DEF Upload!Fail, Upload!Idle, Upload!ReqType, Upload!Steps
  <2>2. CASE s9' = Upload(name)!To(r, "look")
    <3>1. "look" \in Upload(name)!Steps BY DEF Upload!Steps
    <3> QED BY <2>2, <3>1, UploadTurned
  <2> QED BY <1>3, <2>1, <2>2
<1>5. /\ s2' = s2 \/ s2' = [s2 EXCEPT ![s9[r].t] = "closed"]
      /\ s6' = s6 \/ s6' = [s6 EXCEPT ![Upload(name)!Key(s9[r].t)] = s9[r].t]
  BY DEF Upload!Assemble
<1>6. s2' \in [UploadTitles[name] -> {"none", "open", "closed"}]
  BY <1>1, <1>5 DEF Upload!TypeOK
<1>7. s6' \in [Upload(name)!Keys -> UploadTitles[name] \cup {None}]
  BY <1>1, <1>2, <1>5 DEF Upload!TypeOK
<1>8. s9' \in [UploadRequests[name] -> Upload(name)!ReqType] BY <1>1, <1>4 DEF Upload!TypeOK
<1>9. Upload(name)!Keys' = Upload(name)!Keys BY DEF Upload!Keys
<1>10. Upload(name)!TypeOK' BY <1>1, <1>6, <1>7, <1>8, <1>9 DEF Upload!TypeOK
<1>11. Upload(name)!Pictures' /\ \A q \in UploadRequests[name] : Upload(name)!Drafts(q)'
  <2>1. CASE s9' = Upload(name)!Fail(r) BY <1>1, <2>1, PicturesDone DEF Upload!Fail
  <2>2. CASE s9' = Upload(name)!To(r, "look")
    <3>1. "look" \in Upload(name)!Steps BY DEF Upload!Steps
    <3> QED BY <1>1, <2>2, <3>1, PicturesStep
  <2> QED BY <1>3, <2>1, <2>2
<1> QED BY <1>10, <1>11, VideosAssembled DEF Upload!IInv

(* and commits. *)
LEMMA UploadCommitted ==
  ASSUME NEW name \in UploadNames, Upload(name)!UploadsConstants, Upload(name)!IInv,
         NEW r \in UploadRequests[name], NEW ok \in BOOLEAN, Upload(name)!Save(r, ok)
  PROVE  Upload(name)!IInv'
<1>1. /\ s1' = s1 /\ s2' = s2 /\ s3' = s3 /\ s4' = s4 /\ s5' = s5 /\ s6' = s6 /\ s7' = s7
      /\ s9' = [s9 EXCEPT ![r] = Upload(name)!Idle] /\ Upload(name)!TypeOK
  BY DEF Upload!Save, Upload!Fail, Upload!IInv
<1>2. s8' \in [UploadTitles[name] -> Upload(name)!RowType \cup {None}]
  <2>1. CASE s8' = s8 BY <1>1, <2>1 DEF Upload!TypeOK
  <2>2. CASE s8' # s8
    <3>1. PICK x \in Upload(name)!RowType : s8' = [s8 EXCEPT ![s9[r].t] = x]
      BY <2>2, UploadSaved
    <3> QED BY <1>1, <3>1 DEF Upload!TypeOK
  <2> QED BY <2>1, <2>2
<1>3. Upload(name)!Idle \in Upload(name)!ReqType
  BY DEF Upload!Idle, Upload!ReqType, Upload!Steps
<1>4. s9' \in [UploadRequests[name] -> Upload(name)!ReqType] BY <1>1, <1>3 DEF Upload!TypeOK
<1>5. Upload(name)!TypeOK' BY <1>1, <1>2, <1>4 DEF Upload!TypeOK
<1> QED BY <1>5, PicturesSaved, VideosSaved DEF Upload!IInv

(* A row goes, or gets its stream. *)
LEMMA UploadRow ==
  ASSUME NEW name \in UploadNames, Upload(name)!UploadsConstants, Upload(name)!IInv,
         NEW t \in UploadTitles[name], Upload(name)!Remove(t) \/ Upload(name)!Transcode(t)
  PROVE  Upload(name)!IInv'
<1>1. /\ s1' = s1 /\ s2' = s2 /\ s3' = s3 /\ s4' = s4 /\ s5' = s5 /\ s6' = s6 /\ s7' = s7
      /\ s9' = s9 /\ s10' = s10 /\ s11' = s11 /\ Upload(name)!TypeOK /\ s8[t] # None
      /\ s8 \in [UploadTitles[name] -> Upload(name)!RowType \cup {None}]
      /\ s6 \in [Upload(name)!Keys -> UploadTitles[name] \cup {None}]
  BY DEF Upload!Remove, Upload!Transcode, Upload!IInv, Upload!TypeOK
<1>2. PICK x \in Upload(name)!RowType \cup {None} :
        s8' = [s8 EXCEPT ![t] = x] /\ (x # None => x.image = s8[t].image)
  <2>1. CASE Upload(name)!Remove(t) BY <2>1 DEF Upload!Remove
  <2>2. CASE Upload(name)!Transcode(t)
    <3>1. PICK v : v = s6[Upload(name)!Key(t)] OBVIOUS
    <3>2. v \in UploadTitles[name] \cup {None}
      BY <1>1, <3>1, OwnerNamed DEF Upload!Owner
    <3>3. s8' = [s8 EXCEPT ![t].job = FALSE, ![t].stream = v]
      BY <2>2, <3>1 DEF Upload!Transcode
    <3> DEFINE x == [s8[t] EXCEPT !.job = FALSE, !.stream = v]
    <3>4. x \in Upload(name)!RowType /\ x.image = s8[t].image
      BY <1>1, <3>2 DEF Upload!RowType
    <3>5. s8' = [s8 EXCEPT ![t] = x] BY <1>1, <3>3
    <3> HIDE DEF x
    <3> QED BY <3>4, <3>5
  <2> QED BY <2>1, <2>2
<1>3. Upload(name)!TypeOK'
  <2>1. s8' \in [UploadTitles[name] -> Upload(name)!RowType \cup {None}] BY <1>1, <1>2
  <2> QED BY <1>1, <2>1 DEF Upload!TypeOK
<1>4. \A k \in UploadTitles[name] :
        s8'[k] = None \/ (s8[k] # None /\ s8'[k].image = s8[k].image)
  BY <1>1, <1>2
<1>5. \A f \in UploadFiles[name] : s5[f] # None => s5'[f] = s5[f] BY <1>1
<1>6. Upload(name)!Pictures' /\ \A q \in UploadRequests[name] : Upload(name)!Drafts(q)'
  BY <1>1, <1>4, <1>5, PicturesKept
<1> QED BY <1>3, <1>6, VideosRow DEF Upload!IInv

(* Every step keeps it. *)
LEMMA UploadNext ==
  ASSUME NEW name \in UploadNames, Upload(name)!UploadsConstants, Upload(name)!IInv,
         Upload(name)!Next
  PROVE  Upload(name)!IInv'
<1>1. ASSUME NEW t \in UploadTitles[name], NEW form \in {"webp", "other"},
             NEW f \in Upload(name)!Fresh \cup {None},
             Upload(name)!StartMovie(t, f, form) \/ Upload(name)!StartEpisode(t, f, form)
      PROVE  Upload(name)!IInv'
  BY <1>1, UploadStarted
<1>2. ASSUME NEW t \in UploadTitles[name], NEW form \in {"webp", "other"},
             NEW f \in Upload(name)!Fresh \cup {None}, NEW v,
             \/ Upload(name)!ReplaceMovie(t, f, form, v)
             \/ Upload(name)!ReplaceEpisode(t, f, form, v)
             \/ Upload(name)!ReplacePodcast(t, f, form, v)
             \/ Upload(name)!ReplaceSeries(t, f, form)
             \/ Upload(name)!ReplacePromotion(t, f, form)
             \/ Upload(name)!ReplaceLogo(t, f, form)
      PROVE  Upload(name)!IInv'
  <2>1. \E kinds, w : Upload(name)!Replace(t, kinds, f, form, w)
    BY <1>2 DEF Upload!ReplaceMovie, Upload!ReplaceEpisode, Upload!ReplacePodcast,
       Upload!ReplaceSeries, Upload!ReplacePromotion, Upload!ReplaceLogo
  <2> QED BY <2>1, UploadSent
<1>3. ASSUME NEW f \in UploadFiles[name], Upload(name)!SendPicture(f)
      PROVE  Upload(name)!IInv'
  BY <1>3, UploadSent
<1>4. ASSUME NEW t \in UploadTitles[name],
             \/ Upload(name)!SendVideo(t) \/ Upload(name)!Expire(t) \/ Upload(name)!Abort(t)
             \/ Upload(name)!StartExport(t) \/ Upload(name)!FinishExport(t)
      PROVE  Upload(name)!IInv'
  BY <1>4, UploadSent
<1>5. ASSUME NEW k \in Upload(name)!Keys, Upload(name)!Lose(k) PROVE Upload(name)!IInv'
  BY <1>5, UploadSent
<1>6. ASSUME NEW t \in UploadTitles[name],
             Upload(name)!Remove(t) \/ Upload(name)!Transcode(t)
      PROVE  Upload(name)!IInv'
  BY <1>6, UploadRow
<1>7. ASSUME NEW r \in UploadRequests[name], NEW t \in UploadTitles[name],
             \/ Upload(name)!CheckDraft(r, t)
             \/ \E f \in UploadFiles[name] \cup {None} :
                  \/ Upload(name)!CompleteMovie(r, t, f)
                       \/ Upload(name)!CompleteEpisode(r, t, f)
                  \/ \E v \in BOOLEAN :
                       \/ Upload(name)!ChangeMovie(r, t, f, v)
                       \/ Upload(name)!ChangeEpisode(r, t, f, v)
                       \/ Upload(name)!ChangePodcast(r, t, f, v)
             \/ \E f \in UploadFiles[name] :
                  \/ Upload(name)!ChangeSeries(r, t, f)
                       \/ Upload(name)!ChangePromotion(r, t, f)
                  \/ Upload(name)!ChangeLogo(r, t, f)
      PROVE  Upload(name)!IInv'
  <2>1. CASE Upload(name)!CheckDraft(r, t) BY <2>1, UploadDrafted
  <2>2. ASSUME NEW f \in UploadFiles[name] \cup {None}, NEW v \in BOOLEAN,
               \/ Upload(name)!CompleteMovie(r, t, f)
                    \/ Upload(name)!CompleteEpisode(r, t, f)
               \/ Upload(name)!ChangeMovie(r, t, f, v)
                    \/ Upload(name)!ChangeEpisode(r, t, f, v)
               \/ Upload(name)!ChangePodcast(r, t, f, v)
                    \/ Upload(name)!ChangeSeries(r, t, f)
               \/ Upload(name)!ChangePromotion(r, t, f) \/ Upload(name)!ChangeLogo(r, t, f)
        PROVE  Upload(name)!IInv'
    BY <2>2, UploadBegun
  <2> QED BY <1>7, <2>1, <2>2
<1>8. ASSUME NEW r \in UploadRequests[name],
             \/ Upload(name)!Look(r)
             \/ \E ok \in BOOLEAN : Upload(name)!Get(r, ok) \/ Upload(name)!Put(r, ok)
             \/ \E done, answered \in BOOLEAN : Upload(name)!Delete(r, done, answered)
      PROVE  Upload(name)!IInv'
  BY <1>8, UploadSteps
<1>9. ASSUME NEW r \in UploadRequests[name], NEW ok \in BOOLEAN,
             Upload(name)!Assemble(r, ok) \/ Upload(name)!Save(r, ok)
      PROVE  Upload(name)!IInv'
  BY <1>9, UploadAssembled, UploadCommitted
<1> QED
  BY <1>1, <1>2, <1>3, <1>4, <1>5, <1>6, <1>7, <1>8, <1>9 DEF Upload!Next, Upload!Fresh

(* A row's picture is there, its video is its own. *)
LEMMA UploadSafe ==
  ASSUME NEW name \in UploadNames, Upload(name)!UploadsConstants, Upload(name)!IInv
  PROVE  Upload(name)!PicturesExist /\ Upload(name)!VideoIsOwn
<1>1. ASSUME NEW t \in UploadTitles[name], NEW f \in UploadFiles[name], s8[t] # None,
             s8[t].image \in {f} \X {"webp", "other"}, f \notin s11
      PROVE  s8[t].image \in s7
  <2>1. s8[t].image \in UploadFiles[name] \X Upload(name)!Forms BY <1>1 DEF Upload!Forms
  <2>2. s8[t].image # None BY <2>1 DEF Upload!UploadsConstants
  <2>3. PICK g \in UploadFiles[name] :
          /\ s8[t].image \in {Upload(name)!Sent(g), <<g, "webp">>}
          /\ g \in s11 \/ s8[t].image \in s7
    BY <1>1, <2>2 DEF Upload!IInv, Upload!Pictures, Upload!Pictured
  <2>4. g = f BY <1>1, <2>3 DEF Upload!Sent
  <2> QED BY <1>1, <2>3, <2>4
<1>2. Upload(name)!PicturesExist BY <1>1 DEF Upload!PicturesExist
<1>3. ASSUME NEW t \in UploadTitles[name], s8[t] # None, Upload(name)!Key(t) \notin s10
      PROVE  /\ s8[t].stream \in {None, t}
             /\ s8[t].job \/ s8[t].audio => s6[Upload(name)!Key(t)] \in {None, t}
  <2>1. Upload(name)!Owner(t) BY <1>3 DEF Upload!Owner
  <2>2. s8[t].job \/ s8[t].audio => UploadKinds[name][t] \in Upload(name)!Content
    BY <1>3 DEF Upload!IInv, Upload!Streams
  <2>3. s8[t].stream \in {None, t} BY <1>3 DEF Upload!IInv, Upload!Streams
  <2> QED BY <1>3, <2>1, <2>2, <2>3, VideosOwned
<1>4. Upload(name)!VideoIsOwn BY <1>3 DEF Upload!VideoIsOwn
<1> QED BY <1>2, <1>4

(* A step that changes nothing keeps it too. *)
LEMMA UploadKept ==
  ASSUME NEW name \in UploadNames, Upload(name)!UploadsConstants, Upload(name)!IInv,
         [Upload(name)!Next]_(Upload(name)!vars)
  PROVE  Upload(name)!IInv'
<1>1. CASE Upload(name)!Next BY <1>1, UploadNext
<1>2. CASE UNCHANGED Upload(name)!vars
  <2>1. /\ s1' = s1 /\ s2' = s2 /\ s3' = s3 /\ s4' = s4 /\ s5' = s5 /\ s6' = s6 /\ s7' = s7
        /\ s8' = s8 /\ s9' = s9 /\ s10' = s10 /\ s11' = s11
    BY <1>2 DEF Upload!vars
  <2>2. Upload(name)!TypeOK'
    BY <2>1 DEF Upload!IInv, Upload!TypeOK, Upload!Keys, Upload!ReqType, Upload!RowType
  <2>3. /\ Upload(name)!Pictures' /\ \A r \in UploadRequests[name] : Upload(name)!Drafts(r)'
    BY <2>1, PicturesKept
  <2>4. /\ Upload(name)!Started' /\ Upload(name)!Alone' /\ Upload(name)!Owned'
        /\ Upload(name)!Streams'
    BY <2>1, VideosSteady, VideosOwned
  <2> QED BY <2>2, <2>3, <2>4 DEF Upload!IInv
<1> QED BY <1>1, <1>2

-----------------------------------------------------------------------------
(* The average. A part counts as the composition does, and stars are       *)
(* given by finitely many people.                                          *)

(* A part counts as the composition does. *)
LEMMA ForumCounts ==
  ASSUME NEW name \in ForumNames, NEW S
  PROVE  /\ Forum(name)!Cardinality(S) = Cardinality(S)
         /\ Forum(name)!IsFiniteSet(S) <=> IsFiniteSet(S)
<1>1. Forum(name)!Cardinality(S) = Cardinality(S) BY DEF Forum!Cardinality, Cardinality
<1>2. Forum(name)!IsFiniteSet(S) <=> IsFiniteSet(S) BY DEF Forum!IsFiniteSet, IsFiniteSet
<1> QED BY <1>1, <1>2

(* Stars are counted: at most five for each person who gave any. *)
LEMMA StarsCounted ==
  ASSUME NEW name \in ForumNames, Forum(name)!CommentsConstants, NEW st, Forum(name)!Given(st) # {},
         NEW n, n = Forum(name)!Cardinality(Forum(name)!Given(st)),
         NEW sum, sum = Forum(name)!Cardinality(Forum(name)!Pieces(st))
  PROVE  n \in Nat /\ n > 0 /\ sum \in Nat /\ sum <= 5 * n
<1>1. PICK G : G = Forum(name)!Given(st) OBVIOUS
<1>2. IsFiniteSet(ForumPeople[name]) BY ForumCounts DEF Forum!CommentsConstants
<1>3. IsFiniteSet(G) BY <1>1, <1>2, FS_Subset DEF Forum!Given
<1>4. Cardinality(G) \in Nat BY <1>3, FS_CardinalityType
<1>5. Cardinality(G) = 0 <=> G = {} BY <1>3, FS_EmptySet
<1>6. PICK F : F = 1 .. 5 OBVIOUS
<1>7. IsFiniteSet(F) /\ Cardinality(F) = 5
  <2>1. PICK a \in Int, b \in Int : a = 1 /\ b = 5 OBVIOUS
  <2>2. /\ IsFiniteSet(a .. b)
        /\ Cardinality(a .. b) = IF a > b THEN 0 ELSE b - a + 1
    BY FS_Interval
  <2> QED BY <1>6, <2>1, <2>2
<1>8. IsFiniteSet(G \X F) /\ Cardinality(G \X F) = Cardinality(G) * Cardinality(F)
  BY <1>3, <1>7, FS_Product
<1>9. PICK P : P = Forum(name)!Pieces(st) OBVIOUS
<1>10. P \subseteq G \X F BY <1>1, <1>6, <1>9 DEF Forum!Pieces
<1>11. IsFiniteSet(P) /\ Cardinality(P) <= Cardinality(G \X F) BY <1>8, <1>10, FS_Subset
<1>12. Cardinality(P) \in Nat BY <1>11, FS_CardinalityType
<1>13. n = Cardinality(G) /\ sum = Cardinality(P) BY <1>1, <1>9, ForumCounts
<1>14. sum <= n * 5 BY <1>7, <1>8, <1>11, <1>13
<1> QED BY <1>1, <1>4, <1>5, <1>12, <1>13, <1>14

(* Half a tenth is rounded up. *)
LEMMA RoundedHalfUp ==
  ASSUME NEW n \in Nat, n > 0, NEW sum \in Nat, sum <= 5 * n,
         NEW q, q = (40 * sum + n) \div (2 * n)
  PROVE  /\ q \in 0 .. 100
         /\ 2 * n * q <= 40 * sum + n /\ 40 * sum + n < 2 * n * (q + 1)
<1>1. PICK a \in Nat : a = 40 * sum + n OBVIOUS
<1>2. PICK b \in Nat : b = 2 * n /\ b > 0 OBVIOUS
<1>3. q = a \div b BY <1>1, <1>2
<1>4. q \in Int BY <1>1, <1>2, <1>3
<1>5. b * q <= a /\ a < b * (q + 1) BY <1>1, <1>2, <1>3, <1>4
<1>6. a < b * 101 BY <1>1, <1>2
<1>7. q < 101
  <2> SUFFICES ASSUME q >= 101 PROVE FALSE BY <1>4
  <2>1. b * q >= b * 101 BY <1>2, <1>4
  <2>2. PICK u \in Int, v \in Int : u = b * q /\ v = b * 101 BY <1>2, <1>4
  <2> QED BY <1>1, <1>5, <1>6, <2>1, <2>2
<1>8. q >= 0 BY <1>1, <1>2, <1>3
<1> QED BY <1>1, <1>2, <1>4, <1>5, <1>7, <1>8

(* What is computed is the average. *)
LEMMA AverageRight ==
  ASSUME NEW name \in ForumNames, Forum(name)!CommentsConstants, NEW st, Forum(name)!Given(st) # {}
  PROVE  Forum(name)!Tenths(st) \in Forum(name)!Averages(st)
<1>1. PICK n, sum : /\ n = Forum(name)!Cardinality(Forum(name)!Given(st))
                    /\ sum = Forum(name)!Cardinality(Forum(name)!Pieces(st))
  OBVIOUS
<1>2. n \in Nat /\ n > 0 /\ sum \in Nat /\ sum <= 5 * n BY <1>1, StarsCounted
<1>3. PICK q : q = (40 * sum + n) \div (2 * n) OBVIOUS
<1>4. Forum(name)!Tenths(st) = q BY <1>1, <1>3 DEF Forum!Tenths
<1>5. /\ q \in 0 .. 100
      /\ 2 * n * q <= 40 * sum + n /\ 40 * sum + n < 2 * n * (q + 1)
  BY <1>2, <1>3, RoundedHalfUp
<1> QED BY <1>1, <1>2, <1>4, <1>5 DEF Forum!Averages

(* Nobody has rated yet. *)
LEMMA AveragingInit ==
  ASSUME NEW name \in ForumNames, Forum(name)!CommentsConstants, Forum(name)!Init
  PROVE  Forum(name)!Averaging
<1>1. \A r \in ForumRequests : s7[r].op = "idle" BY DEF Forum!Init, Forum!Idle
<1>2. s6 \in s9 BY DEF Forum!Init
<1> QED BY <1>1, <1>2 DEF Forum!Averaging, Forum!Rating

Rates(op) == op \in {"rate", "average", "write"}

(* A step of one request that takes nothing from what is right, and leaves *)
(* the rating right or the request with the one it loaded.                 *)
LEMMA AveragingKept ==
  ASSUME NEW name \in ForumNames, Forum(name)!Averaging, NEW r \in ForumRequests, NEW x,
         NEW A, s7 \in [ForumRequests -> Forum(name)!ReqType(A)],
         s7' = [s7 EXCEPT ![r] = x], s9 \subseteq s9',
         s5' = s5 \/ Forum(name)!Averages(s5') \subseteq s9',
         x.op = "average" => Forum(name)!Averages(s5') \subseteq s9',
         x.op = "write" => x.c \in s9' \/ (x.c = x.value /\ s6' \in s9'),
         \/ s6' \in s9'
         \/ /\ s6' = s6 /\ (Rates(s7[r].op) <=> Rates(x.op))
            /\ Rates(x.op) => x.value = s7[r].value
  PROVE  Forum(name)!Averaging'
<1>1. \A q \in ForumRequests : s7'[q] = IF q = r THEN x ELSE s7[q] OBVIOUS
<1>2. ASSUME NEW q \in ForumRequests PROVE Forum(name)!Rating(q)'
  <2>1. CASE q = r
    <3>1. s7'[q] = x BY <1>1, <2>1
    <3> QED BY <3>1 DEF Forum!Rating
  <2>2. CASE q # r
    <3>1. s7'[q] = s7[q] BY <1>1, <2>2
    <3>2. Forum(name)!Rating(q) BY DEF Forum!Averaging
    <3>3. s6 \in s9 => s6' \in s9' OBVIOUS
    <3>4. s7[q].op = "average" => Forum(name)!Averages(s5') \subseteq s9'
      BY <3>2 DEF Forum!Rating
    <3>5. s7[q].op = "write" => s7[q].c \in s9' \/ (s7[q].c = s7[q].value /\ s6' \in s9')
      BY <3>2, <3>3 DEF Forum!Rating
    <3> QED BY <3>1, <3>4, <3>5 DEF Forum!Rating
  <2> QED BY <2>1, <2>2
<1>3. CASE s6' \in s9' BY <1>2, <1>3 DEF Forum!Averaging
<1>4. CASE /\ s6' = s6 /\ s6 \notin s9 /\ (Rates(s7[r].op) <=> Rates(x.op))
           /\ Rates(x.op) => x.value = s7[r].value
  <2>1. Forum(name)!Writers # {} /\ \A q \in Forum(name)!Writers : s7[q].value = s6
    BY <1>4 DEF Forum!Averaging
  <2>2. ASSUME NEW q \in ForumRequests PROVE Rates(s7'[q].op) <=> Rates(s7[q].op)
    BY <1>1, <1>4
  <2>3. Forum(name)!Writers' = Forum(name)!Writers BY <2>2 DEF Forum!Writers, Rates
  <2>4. \A q \in Forum(name)!Writers : s7'[q].value = s6'
    BY <1>1, <1>4, <2>1 DEF Forum!Writers, Rates
  <2> QED BY <1>2, <2>1, <2>3, <2>4 DEF Forum!Averaging
<1> QED BY <1>3, <1>4

(* A rating begins, *)
LEMMA RateStarted ==
  ASSUME NEW name \in ForumNames, Forum(name)!CommentsConstants, Forum(name)!Averaging,
         NEW r \in ForumRequests, NEW p, NEW v \in ForumValues[name],
         NEW A, s7 \in [ForumRequests -> Forum(name)!ReqType(A)],
         Forum(name)!StartRate(r, p, v)
  PROVE  Forum(name)!Averaging'
<1>1. PICK x : x = [Forum(name)!Idle EXCEPT !.op = "rate", !.p = p, !.c = v, !.value = s6]
  OBVIOUS
<1>2. x.op = "rate" /\ x.value = s6 BY <1>1 DEF Forum!Idle
<1>3. /\ s7' = [s7 EXCEPT ![r] = x] /\ s5' = s5 /\ s6' = s6
      /\ s9' = IF Forum(name)!Writers = {} THEN {} ELSE s9
      /\ s7[r].op = "idle"
  BY <1>1 DEF Forum!StartRate, Forum!Start, Forum!Set, Forum!rows, Forum!Idle
<1>4. \A q \in ForumRequests : s7'[q] = IF q = r THEN x ELSE s7[q] BY <1>3
<1>5. Forum(name)!Writers' = Forum(name)!Writers \cup {r}
  BY <1>2, <1>4 DEF Forum!Writers
<1>6. ASSUME NEW q \in ForumRequests PROVE Forum(name)!Rating(q)'
  <2>1. CASE q = r
    <3>1. s7'[q] = x BY <1>4, <2>1
    <3> QED BY <1>2, <3>1 DEF Forum!Rating
  <2>2. CASE q # r
    <3>1. s7'[q] = s7[q] /\ Forum(name)!Rating(q) BY <1>4, <2>2 DEF Forum!Averaging
    <3>2. Rates(s7[q].op) => s9' = s9 BY <1>3 DEF Rates, Forum!Writers
    <3> QED BY <1>3, <3>1, <3>2 DEF Forum!Rating, Rates
  <2> QED BY <2>1, <2>2
<1>7. CASE s6' \in s9' BY <1>6, <1>7 DEF Forum!Averaging
<1>8. CASE s6' \notin s9'
  <2>1. \A q \in Forum(name)!Writers : s7[q].value = s6
    BY <1>3, <1>8 DEF Forum!Averaging
  <2>2. \A q \in Forum(name)!Writers' : s7'[q].value = s6'
    BY <1>2, <1>3, <1>4, <1>5, <2>1 DEF Forum!Writers
  <2> QED BY <1>5, <1>6, <2>2 DEF Forum!Averaging
<1> QED BY <1>7, <1>8

(* is written, *)
LEMMA RateWritten ==
  ASSUME NEW name \in ForumNames, Forum(name)!CommentsConstants, Forum(name)!Averaging,
         NEW r \in ForumRequests,
         NEW A, s7 \in [ForumRequests -> Forum(name)!ReqType(A)],
         Forum(name)!RateCommit(r)
  PROVE  Forum(name)!Averaging'
<1>1. PICK x : x = [s7[r] EXCEPT !.op = "average"] OBVIOUS
<1>2. x.op = "average" /\ x.value = s7[r].value BY <1>1 DEF Forum!ReqType
<1>3. /\ s7' = [s7 EXCEPT ![r] = x] /\ s6' = s6 /\ s7[r].op = "rate"
      /\ s9' = s9 \cup Forum(name)!Averages(s5')
  BY <1>1 DEF Forum!RateCommit, Forum!Set
<1>4. Forum(name)!Averages(s5') \subseteq s9' /\ s9 \subseteq s9' BY <1>3
<1> QED BY <1>2, <1>3, <1>4, AveragingKept DEF Rates

(* is averaged, *)
LEMMA RateRead ==
  ASSUME NEW name \in ForumNames, Forum(name)!CommentsConstants, Forum(name)!Averaging,
         NEW r \in ForumRequests,
         NEW A, s7 \in [ForumRequests -> Forum(name)!ReqType(A)],
         Forum(name)!ReadAverage(r)
  PROVE  Forum(name)!Averaging'
<1>1. PICK w : w = Forum(name)!NewAverage(r) OBVIOUS
<1>2. PICK x : x = [s7[r] EXCEPT !.op = "write", !.c = w] OBVIOUS
<1>3. x.op = "write" /\ x.value = s7[r].value /\ x.c = w BY <1>2 DEF Forum!ReqType
<1>4. /\ s7' = [s7 EXCEPT ![r] = x] /\ s6' = s6 /\ s5' = s5 /\ s7[r].op = "average"
      /\ s9' = IF Forum(name)!Given(s5) = {} THEN s9 \cup {s6} ELSE s9
  BY <1>1, <1>2 DEF Forum!ReadAverage, Forum!Set, Forum!rows
<1>5. Forum(name)!Averages(s5) \subseteq s9
  BY <1>4 DEF Forum!Averaging, Forum!Rating
<1>6. x.c \in s9' \/ (x.c = x.value /\ s6' \in s9')
  BY <1>1, <1>3, <1>4, <1>5, AverageRight DEF Forum!NewAverage
<1>7. s9 \subseteq s9' BY <1>4
<1> QED BY <1>3, <1>4, <1>6, <1>7, AveragingKept DEF Rates

(* and the average is stored, or is not. *)
LEMMA AverageWritten ==
  ASSUME NEW name \in ForumNames, Forum(name)!CommentsConstants, Forum(name)!Averaging,
         NEW r \in ForumRequests,
         NEW A, s7 \in [ForumRequests -> Forum(name)!ReqType(A)],
         \/ Forum(name)!WriteAverage(r) \/ Forum(name)!Fail(r)
         \/ Forum(name)!PatchCommit(r)
  PROVE  Forum(name)!Averaging'
<1>1. PICK x : x = Forum(name)!Idle OBVIOUS
<1>2. x.op = "idle" /\ ~Rates(x.op) BY <1>1 DEF Forum!Idle, Rates
<1>3. /\ s7' = [s7 EXCEPT ![r] = x] /\ s5' = s5 /\ s9 \subseteq s9'
  BY <1>1 DEF Forum!WriteAverage, Forum!Fail, Forum!PatchCommit, Forum!Set, Forum!rows
<1>4. CASE Forum(name)!WriteAverage(r)
  <2>1. /\ s7[r].op = "write" /\ s6' = IF s7[r].c = s7[r].value THEN s6 ELSE s7[r].c
        /\ s9' = s9
    BY <1>4 DEF Forum!WriteAverage, Forum!Changed
  <2>2. s7[r].c \in s9 \/ (s7[r].c = s7[r].value /\ s6 \in s9)
    BY <2>1 DEF Forum!Averaging, Forum!Rating
  <2>3. s6 \in s9 \/ s7[r].value = s6 BY <2>1 DEF Forum!Averaging, Forum!Writers
  <2>4. s6' \in s9' BY <2>1, <2>2, <2>3
  <2> QED BY <1>2, <1>3, <2>4, AveragingKept DEF Rates
<1>5. CASE Forum(name)!Fail(r)
  <2>1. s6' \in s9' BY <1>5 DEF Forum!Fail, Forum!rows
  <2> QED BY <1>2, <1>3, <2>1, AveragingKept DEF Rates
<1>6. CASE Forum(name)!PatchCommit(r)
  <2>1. s7[r].op = "patch" /\ (s6' \in s9' \/ s6' = s6)
    BY <1>6 DEF Forum!PatchCommit, Forum!Changed
  <2>2. ~Rates(s7[r].op) BY <2>1 DEF Rates
  <2> QED BY <1>2, <1>3, <2>1, <2>2, AveragingKept DEF Rates
<1> QED BY <1>4, <1>5, <1>6

(* The account of someone who rated goes. *)
LEMMA StarsErased ==
  ASSUME NEW name \in ForumNames, Forum(name)!CommentsConstants, Forum(name)!Averaging,
         NEW r \in ForumRequests,
         NEW A, s7 \in [ForumRequests -> Forum(name)!ReqType(A)],
         Forum(name)!EraseCommit(r)
  PROVE  Forum(name)!Averaging'
<1>1. PICK x : x = Forum(name)!Idle OBVIOUS
<1>2. x.op = "idle" /\ ~Rates(x.op) BY <1>1 DEF Forum!Idle, Rates
<1>3. /\ s7' = [s7 EXCEPT ![r] = x] /\ s7[r].op = "erase" /\ s6' = s6
      /\ s9' = IF Forum(name)!Writers = {} THEN s9 ELSE s9 \cup Forum(name)!Averages(s5')
  BY <1>1 DEF Forum!EraseCommit, Forum!Set
<1>4. ~Rates(s7[r].op) BY <1>3 DEF Rates
<1>5. CASE Forum(name)!Writers # {}
  <2>1. s9 \subseteq s9' /\ Forum(name)!Averages(s5') \subseteq s9' BY <1>3, <1>5
  <2> QED BY <1>2, <1>3, <1>4, <2>1, AveragingKept DEF Rates
<1>6. CASE Forum(name)!Writers = {}
  <2>1. s6' \in s9' BY <1>3, <1>6 DEF Forum!Averaging
  <2>2. \A q \in ForumRequests : s7'[q] = IF q = r THEN x ELSE s7[q] BY <1>3
  <2>3. \A q \in ForumRequests : ~Rates(s7'[q].op)
    BY <1>2, <1>6, <2>2 DEF Forum!Writers, Rates
  <2>4. \A q \in ForumRequests : Forum(name)!Rating(q)' BY <2>3 DEF Forum!Rating, Rates
  <2> QED BY <2>1, <2>4 DEF Forum!Averaging
<1> QED BY <1>5, <1>6

(* Every step keeps it. *)
LEMMA AveragingNext ==
  ASSUME NEW name \in ForumNames, Forum(name)!CommentsConstants, Forum(name)!IInv,
         Forum(name)!Averaging, Forum(name)!Next
  PROVE  Forum(name)!Averaging'
<1>1. PICK A : s7 \in [ForumRequests -> Forum(name)!ReqType(A)]
  BY DEF Forum!IInv, Forum!TypeOK
<1>2. PICK i : i = Forum(name)!Idle OBVIOUS
<1>3. i.op = "idle" /\ ~Rates(i.op) BY <1>2 DEF Forum!Idle, Rates
<1>4. ASSUME NEW r \in ForumRequests, NEW x, Forum(name)!Start(r, x), ~Rates(x.op),
             s5' = s5, s6' = s6, s9' = s9
      PROVE  Forum(name)!Averaging'
  BY <1>1, <1>2, <1>3, <1>4, AveragingKept DEF Forum!Start, Forum!Set, Rates
<1>5. ASSUME s5' = s5, s6' = s6, s7' = s7, s9' = s9 PROVE Forum(name)!Averaging'
  BY <1>5 DEF Forum!Averaging, Forum!Rating, Forum!Writers
<1>6. ASSUME NEW r \in ForumRequests, NEW x, Forum(name)!Set(r, x), ~Rates(x.op),
             ~Rates(s7[r].op), s5' = s5, s6' = s6, s9' = s9
      PROVE  Forum(name)!Averaging'
  BY <1>1, <1>6, AveragingKept DEF Forum!Set, Rates
<1>7. ASSUME NEW r \in ForumRequests, NEW p \in ForumPeople[name],
             NEW kind \in ForumKinds[name], Forum(name)!StartRow(r, p, kind)
      PROVE  Forum(name)!Averaging'
  <2>1. PICK x : x = [Forum(name)!Idle EXCEPT !.op = kind, !.p = p] OBVIOUS
  <2>2. ~Rates(x.op) BY <2>1 DEF Forum!Idle, Rates, Forum!CommentsConstants, Forum!Steps
  <2>3. Forum(name)!Start(r, x) /\ s5' = s5 /\ s6' = s6 /\ s9' = s9
    BY <1>7, <2>1 DEF Forum!StartRow, Forum!rows
  <2> QED BY <1>4, <2>2, <2>3
<1>8. ASSUME NEW r \in ForumRequests,
             \/ \E c \in ForumComments[name], op \in {"edit", "hide"} :
                  Forum(name)!StartAdmin(r, c, op)
             \/ \E p \in ForumPeople[name] :
                  \/ Forum(name)!StartList(r, p) \/ Forum(name)!StartErase(r, p)
                  \/ \E parent \in ForumComments[name] \cup {None} :
                       Forum(name)!StartComment(r, p, parent)
      PROVE  Forum(name)!Averaging'
  <2>1. CASE \E c \in ForumComments[name], op \in {"edit", "hide"} :
               Forum(name)!StartAdmin(r, c, op)
    <3>1. PICK c \in ForumComments[name], op \in {"edit", "hide"} :
            Forum(name)!StartAdmin(r, c, op)
      BY <2>1
    <3>2. PICK x : x = [Forum(name)!Idle EXCEPT !.op = op, !.c = c,
                         !.sole = ~s1[s2[c].by]]
      OBVIOUS
    <3>3. ~Rates(x.op) BY <3>2 DEF Forum!Idle, Rates
    <3>4. Forum(name)!Start(r, x) /\ s5' = s5 /\ s6' = s6 /\ s9' = s9
      BY <3>1, <3>2 DEF Forum!StartAdmin, Forum!rows
    <3> QED BY <1>4, <3>3, <3>4
  <2>2. ASSUME NEW p \in ForumPeople[name], Forum(name)!StartList(r, p)
        PROVE  Forum(name)!Averaging'
    <3>1. PICK mine, b : /\ mine = Forum(name)!Mine(p)
                      /\ b = {c \in ForumComments[name] : Forum(name)!Exists(c)
                               /\ (~Forum(name)!Live(c)
                                     \/ s2[c].by \in Forum(name)!Mine(p))}
      OBVIOUS
    <3>2. PICK x : x = [Forum(name)!Idle EXCEPT !.op = "roots", !.p = p, !.value = mine,
                         !.barred = b]
      OBVIOUS
    <3>3. ~Rates(x.op) BY <3>2 DEF Forum!Idle, Rates
    <3>4. Forum(name)!Start(r, x) /\ s5' = s5 /\ s6' = s6 /\ s9' = s9
      BY <2>2, <3>1, <3>2 DEF Forum!StartList, Forum!rows
    <3> QED BY <1>4, <3>3, <3>4
  <2>3. ASSUME NEW p \in ForumPeople[name], Forum(name)!StartErase(r, p)
        PROVE  Forum(name)!Averaging'
    <3>1. PICK j, n : /\ j = {c \in ForumComments[name] : s2[c].by = p}
                      /\ n = {row \in s4 : row[1] = p}
      OBVIOUS
    <3>2. PICK x : x = [Forum(name)!Idle EXCEPT !.op = "erase", !.p = p, !.ids = j,
                         !.new = n, !.value = s5[p]]
      OBVIOUS
    <3>3. ~Rates(x.op) BY <3>2 DEF Forum!Idle, Rates
    <3>4. Forum(name)!Start(r, x) /\ s5' = s5 /\ s6' = s6 /\ s9' = s9
      BY <2>3, <3>1, <3>2 DEF Forum!StartErase, Forum!rows
    <3> QED BY <1>4, <3>3, <3>4
  <2>4. ASSUME NEW p \in ForumPeople[name], NEW parent \in ForumComments[name] \cup {None},
               Forum(name)!StartComment(r, p, parent)
        PROVE  Forum(name)!Averaging'
    <3>1. PICK x : x = [Forum(name)!Idle EXCEPT !.op = "create", !.p = p, !.c = parent]
      OBVIOUS
    <3>2. ~Rates(x.op) BY <3>1 DEF Forum!Idle, Rates
    <3>3. Forum(name)!Start(r, x) /\ s5' = s5 /\ s6' = s6 /\ s9' = s9
      BY <2>4, <3>1 DEF Forum!StartComment, Forum!rows
    <3> QED BY <1>4, <3>2, <3>3
  <2> QED BY <1>8, <2>1, <2>2, <2>3, <2>4
<1>9. ASSUME NEW r \in ForumRequests,
             \/ \E c \in ForumComments[name] : Forum(name)!Insert(r, c)
             \/ Forum(name)!EditCommit(r) \/ Forum(name)!HideCommit(r)
             \/ Forum(name)!RowCommit(r) \/ Forum(name)!Answer(r)
      PROVE  Forum(name)!Averaging'
  <2>1. Forum(name)!Set(r, i) /\ s5' = s5 /\ s6' = s6 /\ s9' = s9
    BY <1>2, <1>9 DEF Forum!Insert, Forum!EditCommit, Forum!HideCommit, Forum!RowCommit,
       Forum!Answer, Forum!rows
  <2>2. s7[r].op \in {"create", "edit", "hide", "levels"} \cup ForumKinds[name]
    BY <1>9 DEF Forum!Insert, Forum!EditCommit, Forum!HideCommit, Forum!RowCommit,
       Forum!Answer
  <2>3. ~Rates(s7[r].op) BY <2>2 DEF Rates, Forum!CommentsConstants, Forum!Steps
  <2> QED BY <1>3, <1>6, <2>1, <2>3
<1>10. ASSUME NEW r \in ForumRequests, Forum(name)!Roots(r) \/ Forum(name)!Level(r)
       PROVE  Forum(name)!Averaging'
  <2>1. /\ s5' = s5 /\ s6' = s6 /\ s9' = s9 /\ s7[r].op \in Forum(name)!Reading
    BY <1>10 DEF Forum!Roots, Forum!Level, Forum!rows, Forum!Reading
  <2>2. PICK x : Forum(name)!Set(r, x) /\ x.op = "levels"
    <3>1. ASSUME NEW j, NEW n, NEW x,
                 x = [s7[r] EXCEPT !.op = "levels", !.ids = j, !.new = n]
          PROVE  x.op = "levels"
      BY <1>1, <3>1 DEF Forum!ReqType
    <3>2. ASSUME NEW j, NEW n, NEW x, x = [s7[r] EXCEPT !.ids = j, !.new = n],
                 s7[r].op = "levels"
          PROVE  x.op = "levels"
      BY <1>1, <3>2 DEF Forum!ReqType
    <3>3. CASE Forum(name)!Roots(r) BY <3>1, <3>3 DEF Forum!Roots
    <3>4. CASE Forum(name)!Level(r) BY <3>2, <3>4 DEF Forum!Level
    <3> QED BY <1>10, <3>3, <3>4
  <2>3. ~Rates(x.op) /\ ~Rates(s7[r].op) BY <2>1, <2>2 DEF Rates, Forum!Reading
  <2> QED BY <1>6, <2>1, <2>2, <2>3
<1>11. ASSUME NEW p \in ForumPeople[name],
              \/ \E kind \in ForumKinds[name] : Forum(name)!RemoveRow(p, kind)
              \/ \E c \in ForumComments[name] : Forum(name)!Block(p, c)
       PROVE  Forum(name)!Averaging'
  BY <1>5, <1>11 DEF Forum!RemoveRow, Forum!Block
<1>14. ASSUME NEW r \in ForumRequests, NEW v, Forum(name)!StartPatch(r, v)
      PROVE  Forum(name)!Averaging'
  <2>1. PICK x : x = [Forum(name)!Idle EXCEPT !.op = "patch", !.c = v, !.value = s6] OBVIOUS
  <2>2. ~Rates(x.op) BY <2>1 DEF Forum!Idle, Rates
  <2>3. Forum(name)!Start(r, x) /\ s5' = s5 /\ s6' = s6 /\ s9' = s9
    BY <1>14, <2>1 DEF Forum!StartPatch, Forum!rows
  <2> QED BY <1>4, <2>2, <2>3
<1>12. ASSUME NEW r \in ForumRequests,
              \/ \E p \in ForumPeople[name] : \E v \in ForumValues[name] :
                   Forum(name)!StartRate(r, p, v)
              \/ Forum(name)!RateCommit(r) \/ Forum(name)!ReadAverage(r)
              \/ Forum(name)!WriteAverage(r) \/ Forum(name)!EraseCommit(r)
              \/ Forum(name)!Fail(r) \/ Forum(name)!PatchCommit(r)
       PROVE  Forum(name)!Averaging'
  BY <1>1, <1>12, RateStarted, RateWritten, RateRead, AverageWritten, StarsErased
<1>13. PICK r \in ForumRequests :
    \/ \E c \in ForumComments[name] :
         \/ Forum(name)!Insert(r, c)
         \/ \E op \in {"edit", "hide"} : Forum(name)!StartAdmin(r, c, op)
    \/ \E p \in ForumPeople[name] :
         \/ Forum(name)!StartList(r, p) \/ Forum(name)!StartErase(r, p)
         \/ \E parent \in ForumComments[name] \cup {None} :
              Forum(name)!StartComment(r, p, parent)
         \/ \E v \in ForumValues[name] : Forum(name)!StartRate(r, p, v)
         \/ \E kind \in ForumKinds[name] : Forum(name)!StartRow(r, p, kind)
         \/ \E kind \in ForumKinds[name] : Forum(name)!RemoveRow(p, kind)
         \/ \E c \in ForumComments[name] : Forum(name)!Block(p, c)
    \/ Forum(name)!EditCommit(r) \/ Forum(name)!HideCommit(r) \/ Forum(name)!RowCommit(r)
    \/ Forum(name)!Roots(r) \/ Forum(name)!Level(r) \/ Forum(name)!Answer(r)
    \/ Forum(name)!RateCommit(r) \/ Forum(name)!ReadAverage(r)
    \/ Forum(name)!WriteAverage(r) \/ Forum(name)!EraseCommit(r)
    \/ Forum(name)!Fail(r) \/ Forum(name)!PatchCommit(r)
    \/ \E v \in ForumEdits[name] : Forum(name)!StartPatch(r, v)
  BY DEF Forum!Next, Forum!StartFavorite, Forum!StartProgress, Forum!StartVote,
     Forum!StartReport
<1> QED BY <1>7, <1>8, <1>9, <1>10, <1>11, <1>12, <1>13, <1>14

(* A step that changes nothing keeps it too. *)
LEMMA AveragingStay ==
  ASSUME NEW name \in ForumNames, Forum(name)!CommentsConstants, Forum(name)!IInv,
         Forum(name)!Averaging, [Forum(name)!Next]_(Forum(name)!vars)
  PROVE  Forum(name)!Averaging'
<1>1. CASE Forum(name)!Next BY <1>1, AveragingNext
<1>2. CASE UNCHANGED Forum(name)!vars
  <2>1. s5' = s5 /\ s6' = s6 /\ s7' = s7 /\ s9' = s9
    BY <1>2 DEF Forum!vars, Forum!rows
  <2> QED
    BY <2>1 DEF Forum!Averaging, Forum!Rating, Forum!Writers
<1> QED BY <1>1, <1>2

-----------------------------------------------------------------------------
(* The composition. *)
USE PartConstants

(* A behaviour stays with the part it began with. *)
LEMMA OnePart ==
  ASSUME [Next]_vars
  PROVE  /\ part' = part
         /\ part = "film" => [Film!Next]_(Film!vars)
         /\ part = "serial" => [Serial!Next]_(Serial!vars)
         /\ part = "episode" => [Episode!Next]_(Episode!vars)
         /\ part = "podcast" => [Podcast!Next]_(Podcast!vars)
         /\ part = "loops" => [Loops!Next]_(Loops!vars)
         /\ part = "hosts" => [Hosts!Next]_(Hosts!vars)
         /\ part = "cached" => [Cached!Next]_(Cached!vars)
         /\ part = "pool" => [Pool!Next]_(Pool!vars)
         /\ part = "talk" => [Forum("talk")!Next]_(Forum("talk")!vars)
         /\ part = "stars" => [Forum("stars")!Next]_(Forum("stars")!vars)
         /\ part = "thread" => [Forum("thread")!Next]_(Forum("thread")!vars)
         /\ part = "rail" => [Curated("rail")!Next]_(Curated("rail")!vars)
         /\ part = "twins" => [Curated("twins")!Next]_(Curated("twins")!vars)
         /\ part = "genres" => [Curated("genres")!Next]_(Curated("genres")!vars)
         /\ part = "picks" => [Curated("picks")!Next]_(Curated("picks")!vars)
         /\ part = "slides" => [Curated("slides")!Next]_(Curated("slides")!vars)
         /\ part = "alarm" => [Alarm!Next]_(Alarm!vars)
         /\ part = "payments" => [Notice("payments")!Next]_(Notice("payments")!vars)
         /\ part = "daily" => [Notice("daily")!Next]_(Notice("daily")!vars)
         /\ part = "checks" => [Checks("checks")!Next]_(Checks("checks")!vars)
         /\ part = "codes" => [Checks("codes")!Next]_(Checks("codes")!vars)
         /\ part = "clips" => [Upload("clips")!Next]_(Upload("clips")!vars)
         /\ part = "covers" => [Upload("covers")!Next]_(Upload("covers")!vars)
         /\ part = "audio" => [Upload("audio")!Next]_(Upload("audio")!vars)
         /\ part = "logos" => [Upload("logos")!Next]_(Upload("logos")!vars)
<1>1. part' = part
  BY DEF Next, vars, Rest4, Rest5, Rest6, Rest7, Rest8, Rest9, Rest10, Rest11, Rest12,
     Rest13, Rest14
<1>2. part = "film" => [Film!Next]_(Film!vars) BY DEF Next, vars, Film!vars
<1>3. part = "serial" => [Serial!Next]_(Serial!vars) BY DEF Next, vars, Serial!vars
<1>4. part = "episode" => [Episode!Next]_(Episode!vars) BY DEF Next, vars, Episode!vars
<1>5. part = "podcast" => [Podcast!Next]_(Podcast!vars) BY DEF Next, vars, Podcast!vars
<1>6. part = "loops" => [Loops!Next]_(Loops!vars) BY DEF Next, vars, Loops!vars
<1>7. part = "hosts" => [Hosts!Next]_(Hosts!vars) BY DEF Next, vars, Hosts!vars
<1>8. part = "cached" => [Cached!Next]_(Cached!vars) BY DEF Next, vars, Cached!vars
<1>9. part = "pool" => [Pool!Next]_(Pool!vars)
  BY DEF Next, vars, Pool!vars, Pool!warm
<1>10. part = "talk" => [Forum("talk")!Next]_(Forum("talk")!vars)
  BY DEF Next, vars, Forum!vars, Forum!rows
<1>11. part = "stars" => [Forum("stars")!Next]_(Forum("stars")!vars)
  BY DEF Next, vars, Forum!vars, Forum!rows
<1>12. part = "thread" => [Forum("thread")!Next]_(Forum("thread")!vars)
  BY DEF Next, vars, Forum!vars, Forum!rows
<1>13. part = "rail" => [Curated("rail")!Next]_(Curated("rail")!vars)
  BY DEF Next, vars, Curated!vars
<1>14. part = "twins" => [Curated("twins")!Next]_(Curated("twins")!vars)
  BY DEF Next, vars, Curated!vars
<1>26. part = "genres" => [Curated("genres")!Next]_(Curated("genres")!vars)
  BY DEF Next, vars, Curated!vars
<1>15. part = "picks" => [Curated("picks")!Next]_(Curated("picks")!vars)
  BY DEF Next, vars, Curated!vars
<1>16. part = "slides" => [Curated("slides")!Next]_(Curated("slides")!vars)
  BY DEF Next, vars, Curated!vars
<1>17. part = "alarm" => [Alarm!Next]_(Alarm!vars)
  BY DEF Next, vars, Alarm!vars, Alarm!relay, Alarm!sources, Alarm!chat
<1>18. part = "payments" => [Notice("payments")!Next]_(Notice("payments")!vars)
  BY DEF Next, vars, Notice!vars, Notice!payments, Notice!alarms
<1>19. part = "daily" => [Notice("daily")!Next]_(Notice("daily")!vars)
  BY DEF Next, vars, Notice!vars, Notice!payments, Notice!alarms
<1>20. part = "checks" => [Checks("checks")!Next]_(Checks("checks")!vars)
  BY DEF Next, vars, Checks!vars
<1>25. part = "codes" => [Checks("codes")!Next]_(Checks("codes")!vars)
  BY DEF Next, vars, Checks!vars
<1>21. part = "clips" => [Upload("clips")!Next]_(Upload("clips")!vars)
  BY DEF Next, vars, Upload!vars
<1>22. part = "covers" => [Upload("covers")!Next]_(Upload("covers")!vars)
  BY DEF Next, vars, Upload!vars
<1>23. part = "audio" => [Upload("audio")!Next]_(Upload("audio")!vars)
  BY DEF Next, vars, Upload!vars
<1>24. part = "logos" => [Upload("logos")!Next]_(Upload("logos")!vars)
  BY DEF Next, vars, Upload!vars
<1> QED
  BY <1>1, <1>2, <1>3, <1>4, <1>5, <1>6, <1>7, <1>8, <1>9, <1>10,
     <1>11, <1>12, <1>13, <1>14, <1>15, <1>16, <1>17, <1>18, <1>19, <1>20,
     <1>21, <1>22, <1>23, <1>24, <1>25, <1>26

(* What each part keeps: an invariant of the composition. *)
IInv ==
  /\ part = "film" => Film!IInv
  /\ part = "serial" => Serial!IInv
  /\ part = "episode" => Episode!IInv
  /\ part = "podcast" => Podcast!IInv
  /\ part = "loops" => Loops!IInv
  /\ part = "hosts" => Hosts!IInv
  /\ part = "cached" => Cached!IInv
  /\ part = "pool" => Pool!IInv
  /\ part = "talk" => Forum("talk")!IInv /\ Forum("talk")!Averaging
  /\ part = "stars" => Forum("stars")!IInv /\ Forum("stars")!Averaging
  /\ part = "thread" => Forum("thread")!IInv /\ Forum("thread")!Averaging
  /\ part = "rail" => Curated("rail")!IInv
  /\ part = "twins" => Curated("twins")!IInv
  /\ part = "genres" => Curated("genres")!IInv
  /\ part = "picks" => Curated("picks")!IInv
  /\ part = "slides" => Curated("slides")!IInv
  /\ part = "alarm" => Alarm!IInv
  /\ part = "payments" => Notice("payments")!IInv
  /\ part = "daily" => Notice("daily")!IInv
  /\ part = "checks" => Checks("checks")!IInv
  /\ part = "codes" => Checks("codes")!IInv
  /\ part = "clips" => Upload("clips")!IInv
  /\ part = "covers" => Upload("covers")!IInv
  /\ part = "audio" => Upload("audio")!IInv
  /\ part = "logos" => Upload("logos")!IInv

LEMMA InitInv == Init => IInv
<1> SUFFICES ASSUME Init PROVE IInv OBVIOUS
<1>1. part = "film" => Film!IInv BY Film!InitInv DEF Init
<1>2. part = "serial" => Serial!IInv BY Serial!InitInv DEF Init
<1>3. part = "episode" => Episode!IInv BY Episode!InitInv DEF Init
<1>4. part = "podcast" => Podcast!IInv BY Podcast!InitInv DEF Init
<1>5. part = "loops" => Loops!IInv BY Loops!InitInv DEF Init
<1>6. part = "hosts" => Hosts!IInv BY Hosts!InitInv DEF Init
<1>7. part = "cached" => Cached!IInv BY CachedInit DEF Init
<1>8. part = "pool" => Pool!IInv BY PoolInit DEF Init
<1>9. part = "talk" => Forum("talk")!IInv /\ Forum("talk")!Averaging
  BY ForumInit, AveragingInit DEF Init, ForumNames
<1>10. part = "stars" => Forum("stars")!IInv /\ Forum("stars")!Averaging
  BY ForumInit, AveragingInit DEF Init, ForumNames
<1>11. part = "thread" => Forum("thread")!IInv /\ Forum("thread")!Averaging
  BY ForumInit, AveragingInit DEF Init, ForumNames
<1>12. part = "rail" => Curated("rail")!IInv BY CuratedInit DEF Init, CuratedNames
<1>13. part = "twins" => Curated("twins")!IInv BY CuratedInit DEF Init, CuratedNames
<1>25. part = "genres" => Curated("genres")!IInv BY CuratedInit DEF Init, CuratedNames
<1>14. part = "picks" => Curated("picks")!IInv BY CuratedInit DEF Init, CuratedNames
<1>15. part = "slides" => Curated("slides")!IInv BY CuratedInit DEF Init, CuratedNames
<1>16. part = "alarm" => Alarm!IInv BY AlarmInit DEF Init
<1>17. part = "payments" => Notice("payments")!IInv BY NoticeInit DEF Init, NoticeNames
<1>18. part = "daily" => Notice("daily")!IInv BY NoticeInit DEF Init, NoticeNames
<1>19. part = "checks" => Checks("checks")!IInv BY ChecksInit DEF Init, ChecksNames
<1>24. part = "codes" => Checks("codes")!IInv BY ChecksInit DEF Init, ChecksNames
<1>20. part = "clips" => Upload("clips")!IInv BY UploadInit DEF Init, UploadNames
<1>21. part = "covers" => Upload("covers")!IInv BY UploadInit DEF Init, UploadNames
<1>22. part = "audio" => Upload("audio")!IInv BY UploadInit DEF Init, UploadNames
<1>23. part = "logos" => Upload("logos")!IInv BY UploadInit DEF Init, UploadNames
<1> QED
  BY <1>1, <1>2, <1>3, <1>4, <1>5, <1>6, <1>7, <1>8, <1>9, <1>10,
     <1>11, <1>12, <1>13, <1>14, <1>15, <1>16, <1>17, <1>18, <1>19,
     <1>20, <1>21, <1>22, <1>23, <1>24, <1>25 DEF IInv

LEMMA NextInv == IInv /\ [Next]_vars => IInv'
<1> SUFFICES ASSUME IInv, [Next]_vars PROVE IInv' OBVIOUS
<1>0. part' = part BY OnePart
<1>1. part = "film" => Film!IInv' BY OnePart, Film!NextInv DEF IInv
<1>2. part = "serial" => Serial!IInv' BY OnePart, Serial!NextInv DEF IInv
<1>3. part = "episode" => Episode!IInv' BY OnePart, Episode!NextInv DEF IInv
<1>4. part = "podcast" => Podcast!IInv' BY OnePart, Podcast!NextInv DEF IInv
<1>5. part = "loops" => Loops!IInv' BY OnePart, Loops!NextInv DEF IInv
<1>6. part = "hosts" => Hosts!IInv' BY OnePart, Hosts!NextInv DEF IInv
<1>7. part = "cached" => Cached!IInv' BY OnePart, CachedNext DEF IInv
<1>8. part = "pool" => Pool!IInv' BY OnePart, PoolNext DEF IInv
<1>9. part = "talk" => Forum("talk")!IInv' /\ Forum("talk")!Averaging'
  BY OnePart, ForumNext, AveragingStay DEF IInv, ForumNames
<1>10. part = "stars" => Forum("stars")!IInv' /\ Forum("stars")!Averaging'
  BY OnePart, ForumNext, AveragingStay DEF IInv, ForumNames
<1>11. part = "thread" => Forum("thread")!IInv' /\ Forum("thread")!Averaging'
  BY OnePart, ForumNext, AveragingStay DEF IInv, ForumNames
<1>12. part = "rail" => Curated("rail")!IInv' BY OnePart, CuratedNext DEF IInv, CuratedNames
<1>13. part = "twins" => Curated("twins")!IInv' BY OnePart, CuratedNext DEF IInv, CuratedNames
<1>25. part = "genres" => Curated("genres")!IInv' BY OnePart, CuratedNext DEF IInv, CuratedNames
<1>14. part = "picks" => Curated("picks")!IInv' BY OnePart, CuratedNext DEF IInv, CuratedNames
<1>15. part = "slides" => Curated("slides")!IInv' BY OnePart, CuratedNext DEF IInv, CuratedNames
<1>16. part = "alarm" => Alarm!IInv' BY OnePart, AlarmNext DEF IInv
<1>17. part = "payments" => Notice("payments")!IInv' BY OnePart, NoticeNext DEF IInv, NoticeNames
<1>18. part = "daily" => Notice("daily")!IInv' BY OnePart, NoticeNext DEF IInv, NoticeNames
<1>19. part = "checks" => Checks("checks")!IInv' BY OnePart, ChecksNext DEF IInv, ChecksNames
<1>24. part = "codes" => Checks("codes")!IInv' BY OnePart, ChecksNext DEF IInv, ChecksNames
<1>20. part = "clips" => Upload("clips")!IInv' BY OnePart, UploadKept DEF IInv, UploadNames
<1>21. part = "covers" => Upload("covers")!IInv'
  BY OnePart, UploadKept DEF IInv, UploadNames
<1>22. part = "audio" => Upload("audio")!IInv' BY OnePart, UploadKept DEF IInv, UploadNames
<1>23. part = "logos" => Upload("logos")!IInv' BY OnePart, UploadKept DEF IInv, UploadNames
<1> QED
  BY <1>0, <1>1, <1>2, <1>3, <1>4, <1>5, <1>6, <1>7, <1>8, <1>9, <1>10,
     <1>11, <1>12, <1>13, <1>14, <1>15, <1>16, <1>17, <1>18, <1>19,
     <1>20, <1>21, <1>22, <1>23, <1>24, <1>25 DEF IInv

(* Every part keeps its invariant. *)
THEOREM Invariance == Spec => []IInv
<1> QED BY InitInv, NextInv, PTL DEF Spec

(* One process runs a background loop (try_acquire, HeldLock.refresh). *)
THEOREM OneInLoop == Spec => []OneLoop
<1>1. IInv => OneLoop BY Loops!InvOne, Hosts!InvOne DEF IInv, OneLoop
<1> QED BY <1>1, Invariance, PTL

(* No save takes back a poster that arrived while it was being made        *)
(* (update_movie, update_episode, update_admin_podcast).                   *)
THEOREM PostersStay == Spec => PosterKept
<1> DEFINE Parts ==
      /\ part = "film" => Film!Posters
      /\ part = "serial" => Serial!Posters
      /\ part = "episode" => Episode!Posters
      /\ part = "podcast" => Podcast!Posters
<1>1. IInv /\ [Next]_vars => Parts
  BY OnePart, Film!StepPosters, Serial!StepPosters, Episode!StepPosters,
     Podcast!StepPosters DEF IInv
<1> QED BY <1>1, Invariance, PTL DEF Spec, PosterKept

(* What the sweeper releases is due at that moment                         *)
(* (sweep_due_scheduled_movies, sweep_due_scheduled_series).               *)
THEOREM ReleasesDue == Spec => ReleasedOnTime
<1> DEFINE Parts ==
      /\ part = "film" => Film!OnTime
      /\ part = "serial" => Serial!OnTime
      /\ part = "episode" => Episode!OnTime
      /\ part = "podcast" => Podcast!OnTime
<1>1. IInv => Parts
  BY Film!StepOnTime, Serial!StepOnTime, Episode!StepOnTime, Podcast!StepOnTime DEF IInv
<1> QED BY <1>1, Invariance, PTL DEF Spec, ReleasedOnTime

(* No cached answer is out of date by two lifetimes and two requests       *)
(* (cache_get_async, cache_set_async, cache_delete).                       *)
THEOREM AnswersExpire == Spec => []StalenessBounded
<1>1. IInv => StalenessBounded BY CachedStaleness DEF IInv, StalenessBounded
<1> QED BY <1>1, Invariance, PTL

(* Every alert is told, counted or lost once, the chat shows what the      *)
(* watchdog knows (Condition.update, Relay.admit, take_dropped), a payment *)
(* is told once and no sooner than it is committed (commit_with_telegram), *)
(* and a limit once a day (claim_bakong_daily_limit_alert).                *)
THEOREM AlertsHeard == Spec => []AlertsArrive
<1>1. part = "alarm" /\ IInv => Alarm!Accounted /\ Alarm!ChatAgrees
  BY DEF IInv, Alarm!IInv, Alarm!Chat, Alarm!ChatAgrees
<1>2. part = "payments" /\ IInv => Notice("payments")!PaymentsTold
  BY DEF IInv, Notice!IInv, Notice!PaymentsInv
<1>3. part = "daily" /\ IInv => Notice("daily")!OnceADay
  BY DEF IInv, Notice!IInv, Notice!AlarmsInv
<1>4. IInv => AlertsArrive BY <1>1, <1>2, <1>3 DEF AlertsArrive
<1> QED BY <1>4, Invariance, PTL

(* NBC is left alone as long as it asked for, but for the moment in which  *)
(* the operators are alerted, and a buyer's checks of an intent in any     *)
(* stretch of a window's length stay below two budgets and one for each    *)
(* new code (note_bakong_rate_limited, _alert_if_daily_limit,              *)
(* consume_intent_nbc_check).                                              *)
THEOREM ChecksSpared == Spec => QuotaHeard
<1> DEFINE Parts ==
      /\ part = "checks" => Checks("checks")!Silent /\ Checks("checks")!ChecksBounded'
      /\ part = "codes" => Checks("codes")!Silent /\ Checks("codes")!ChecksBounded'
<1>1. Checks("checks")!IInv' => Checks("checks")!ChecksBounded'
  <2>1. Checks("checks")!IInv => Checks("checks")!ChecksBounded BY ChecksFew DEF ChecksNames
  <2> QED BY <2>1, PTL
<1>2. Checks("codes")!IInv' => Checks("codes")!ChecksBounded'
  <2>1. Checks("codes")!IInv => Checks("codes")!ChecksBounded BY ChecksFew DEF ChecksNames
  <2> QED BY <2>1, PTL
<1>3. IInv /\ [Next]_vars => Parts
  <2> SUFFICES ASSUME IInv, [Next]_vars PROVE Parts OBVIOUS
  <2>1. IInv' /\ part' = part BY OnePart, NextInv
  <2>2. CASE part = "checks"
    BY <1>1, <2>1, <2>2, ChecksSilent DEF IInv, ChecksNames
  <2>3. CASE part = "codes"
    BY <1>2, <2>1, <2>3, ChecksSilent DEF IInv, ChecksNames
  <2> QED BY <2>2, <2>3
<1> QED BY <1>3, Invariance, PTL DEF Spec, QuotaHeard

(* Probes keep their distance, and whoever asks for a list is answered     *)
(* within the budget of its attempts (DatabaseWarmup.try_connect,          *)
(* paginate_query).                                                        *)
THEOREM DatabaseInTime == Spec => []DatabaseAnswers
<1>1. IInv => DatabaseAnswers BY PoolInTime DEF IInv, DatabaseAnswers
<1> QED BY <1>1, Invariance, PTL

(* A deleted account leaves nothing behind (delete_user_account). *)
THEOREM DeletionLeavesNothing == Spec => []DeletionErases
<1>1. IInv => DeletionErases BY DEF IInv, DeletionErases, Forum!IInv
<1> QED BY <1>1, Invariance, PTL

(* No list shows what is below a comment its reader may not see            *)
(* (list_comment_threads, build_comment_threads).                          *)
THEOREM NothingHiddenListed == Spec => []NothingBelowHidden
<1>1. IInv => NothingBelowHidden BY ForumClean DEF IInv, NothingBelowHidden, ForumNames
<1> QED BY <1>1, Invariance, PTL

(* What the free rail shows is free to watch (resolve_free_today_movies,   *)
(* content_ids_free_today).                                                *)
THEOREM RailFree == Spec => []RailIsFree
<1>1. RailIsFree BY CuratedFree DEF RailIsFree, CuratedNames
<1> QED BY <1>1, PTL

(* A change of a list leaves what its check promised (validate_item_add,   *)
(* validate_item_limit, validate_section_create, reorder_section_items).   *)
THEOREM ChangesKept == Spec => ChangesAreWhole
<1> DEFINE Parts ==
      /\ part = "rail" => Curated("rail")!Kept
      /\ part = "twins" => Curated("twins")!Kept
      /\ part = "genres" => Curated("genres")!Kept
      /\ part = "picks" => Curated("picks")!Kept
      /\ part = "slides" => Curated("slides")!Kept
<1>1. IInv /\ [Next]_vars => Parts
  BY OnePart, CuratedKept DEF IInv, CuratedNames
<1> QED BY <1>1, Invariance, PTL DEF Spec, ChangesAreWhole

(* Once nobody is rating, the rating shown is an average the stars had     *)
(* since the first of those who rated last began, or what an admin has set *)
(* or a failure has left since (upsert_rating, _recompute_content_rating).*)
THEOREM AveragesRight == Spec => []AverageShown
<1>1. IInv => AverageShown
  <2>1. part = "talk" /\ IInv => Forum("talk")!AverageShown
    BY DEF IInv, Forum!Averaging, Forum!AverageShown
  <2>2. part = "stars" /\ IInv => Forum("stars")!AverageShown
    BY DEF IInv, Forum!Averaging, Forum!AverageShown
  <2>3. part = "thread" /\ IInv => Forum("thread")!AverageShown
    BY DEF IInv, Forum!Averaging, Forum!AverageShown
  <2> QED BY <2>1, <2>2, <2>3 DEF AverageShown
<1> QED BY <1>1, Invariance, PTL

(* A row's picture is in the bucket and its video is its own, unless two   *)
(* requests shared a picture, its deletion was not confirmed or two titles *)
(* had one key in use (_optimize_r2_image_sync, unique_content_slug).      *)
THEOREM UploadsStayWhole == Spec => []UploadsWhole
<1>1. IInv => UploadsWhole
  BY UploadSafe DEF IInv, UploadsWhole, UploadNames
<1> QED BY <1>1, Invariance, PTL
=============================================================================
