-------------------------- MODULE StmtCacheProofs --------------------------
(* Proofs about StmtCache, for every set of clients, SQL texts and backends    *)
(* and every capacity of the cache; what a client runs is its own only if it   *)
(* is the only one (OwnSQLTheorem).                                            *)
EXTENDS StmtCache, SequencesExt, SequenceTheorems, FiniteSetTheorems, TLAPS

(* The elements of a sequence, by position.                                   *)
LEMMA ToSetDef ==
    ASSUME NEW S, NEW s \in Seq(S)
    PROVE  /\ DOMAIN s = 1..Len(s) /\ Len(s) \in Nat
           /\ ToSet(s) = {s[i] : i \in 1..Len(s)}
           /\ ToSet(s) \subseteq S
BY DEF ToSet

(* The empty sequence has no elements.                                        *)
LEMMA EmptyFacts == ToSet(<<>>) = {} /\ IsInjective(<<>>)
BY DEF ToSet, IsInjective

(* A new entry at the end.                                                    *)
LEMMA AppendFacts ==
    ASSUME NEW S, NEW s \in Seq(S), NEW e \in S
    PROVE  /\ Append(s, e) \in Seq(S) /\ Append(s, e) # <<>>
           /\ Len(Append(s, e)) = Len(s) + 1
           /\ ToSet(Append(s, e)) = ToSet(s) \cup {e}
           /\ IsInjective(s) /\ e \notin ToSet(s) => IsInjective(Append(s, e))
<1>1. /\ Append(s, e) \in Seq(S) /\ Len(Append(s, e)) = Len(s) + 1
      /\ \A i \in 1..Len(s) : Append(s, e)[i] = s[i]
      /\ Append(s, e)[Len(s)+1] = e
      /\ Len(s) \in Nat
  BY AppendProperties
<1>2. ToSet(Append(s, e)) = {Append(s, e)[i] : i \in 1..Len(s)+1}
  BY <1>1, ToSetDef
<1>3. ToSet(s) = {s[i] : i \in 1..Len(s)}
  BY ToSetDef
<1>4. ToSet(Append(s, e)) = ToSet(s) \cup {e}
  BY <1>1, <1>2, <1>3
<1>5. ASSUME IsInjective(s), e \notin ToSet(s) PROVE IsInjective(Append(s, e))
  <2>1. DOMAIN Append(s, e) = 1..Len(s)+1 /\ DOMAIN s = 1..Len(s)
    BY <1>1
  <2>2. \A i \in 1..Len(s) : s[i] # e
    BY <1>3, <1>5
  <2> QED BY <1>1, <1>5, <2>1, <2>2 DEF IsInjective
<1> QED BY <1>1, <1>4, <1>5

(* The functions of the state have their domains.                              *)
Shapes ==
    /\ DOMAIN byKey = Clients /\ DOMAIN closed = Clients /\ DOMAIN seq = Clients
    /\ DOMAIN server = Backends /\ DOMAIN pc = Clients /\ DOMAIN sql = Clients
    /\ DOMAIN ran = Clients /\ DOMAIN closeSent = Clients /\ DOMAIN failed = Clients
    /\ \A c \in Clients : seq[c] \in Nat

(* A name is never newer than the counter, here and on every backend.          *)
NamesOld(c) ==
    /\ \A q \in DOMAIN byKey[c] : byKey[c][q] \in 1..seq[c]
    /\ \A b \in Backends : \A n \in DOMAIN server[b] : n \in 1..seq[c]

(* Wherever a cached name is known, it is known for the SQL it is cached for.  *)
NamesMean(c) ==
    \A b \in Backends, q \in DOMAIN byKey[c] :
        byKey[c][q] \in DOMAIN server[b] => server[b][byKey[c][q]] = q

(* The statement a call is about to bind is in the cache.                      *)
BindsCached == \A c \in Clients : pc[c] = "bind" => sql[c] \in DOMAIN byKey[c]

(* The inductive invariant for the only client c of its backends.              *)
Sole(c) == Shapes /\ NamesOld(c) /\ NamesMean(c) /\ BindsCached /\ RunsOwnSQL

(* Every step keeps the domains.                                               *)
LEMMA ShapesStep == ASSUME Shapes, [Next]_vars PROVE Shapes'
<1>1. CASE UNCHANGED vars
  BY <1>1 DEF vars, cacheVars, callVars, Shapes
<1>2. ASSUME NEW c \in Clients, Call(c) \/ Hit(c) \/ Exhausted(c) PROVE Shapes'
  BY <1>2 DEF Call, Hit, Exhausted, vars, cacheVars, callVars, Shapes
<1>3. ASSUME NEW c \in Clients, NEW b \in Backends, Prepare(c, b) PROVE Shapes'
  BY <1>3 DEF Prepare, Miss, Put, NextName, Shapes
<1>4. ASSUME NEW c \in Clients, NEW b \in Backends, PrepareFails(c, b) PROVE Shapes'
  <2>1. DOMAIN server' = Backends
    BY <1>4 DEF PrepareFails, Shapes
  <2> QED BY <1>4, <2>1 DEF PrepareFails, Miss, NextName, Shapes
<1>5. ASSUME NEW c \in Clients, NEW b \in Backends,
             Execute(c, b) \/ StaleRetry(c, b) \/ StaleFails(c, b)
      PROVE  Shapes'
  BY <1>5 DEF Execute, StaleRetry, StaleFails, Invalidate, cacheVars, Shapes
<1> QED BY <1>1, <1>2, <1>3, <1>4, <1>5 DEF Next

(* put leaves the new statement under its own SQL, and other SQLs alone.       *)
LEMMA PutFacts ==
    ASSUME Shapes, NEW c \in Clients, NEW q, NEW name, Put(c, q, name)
    PROVE  /\ q \in DOMAIN byKey'[c] /\ byKey'[c][q] = name
           /\ \A r \in DOMAIN byKey'[c] :
                r # q => r \in DOMAIN byKey[c] /\ byKey'[c][r] = byKey[c][r]
           /\ \A d \in Clients : d # c => byKey'[d] = byKey[d]
<1>1. CASE byKey' = [byKey EXCEPT ![c] = With(@, q, name)]
  BY <1>1 DEF Shapes, With
<1>2. ASSUME NEW victim, byKey' = [byKey EXCEPT ![c] = With(Without(@, victim), q, name)]
      PROVE  /\ q \in DOMAIN byKey'[c] /\ byKey'[c][q] = name
             /\ \A r \in DOMAIN byKey'[c] :
                  r # q => r \in DOMAIN byKey[c] /\ byKey'[c][r] = byKey[c][r]
             /\ \A d \in Clients : d # c => byKey'[d] = byKey[d]
  <2>1. byKey'[c] = With(Without(byKey[c], victim), q, name)
    BY <1>2 DEF Shapes
  <2>2. /\ DOMAIN byKey'[c] = (DOMAIN byKey[c] \ {victim}) \cup {q}
        /\ byKey'[c][q] = name
    BY <2>1 DEF With, Without
  <2>3. \A r \in DOMAIN byKey[c] \ {victim} : r # q => byKey'[c][r] = byKey[c][r]
    BY <2>1 DEF With, Without
  <2> QED BY <1>2, <2>2, <2>3 DEF Shapes
<1> QED BY <1>1, <1>2 DEF Put

(* Every step of the only client keeps its invariant.                          *)
LEMMA SoleStep ==
    ASSUME NEW c, Clients = {c}, Sole(c), [Next]_vars
    PROVE  Sole(c)'
<1> c \in Clients BY Zenon
<1>0. Shapes' BY ShapesStep DEF Sole
<1>1. CASE UNCHANGED vars
  BY <1>1 DEF vars, cacheVars, callVars, Sole, Shapes, NamesOld, NamesMean, BindsCached,
              RunsOwnSQL
<1>2. CASE Call(c) \/ Hit(c) \/ Exhausted(c)
  <2>1. UNCHANGED <<byKey, server, seq>>
    BY <1>2 DEF Call, Hit, Exhausted, vars, cacheVars
  <2>2. NamesOld(c)' /\ NamesMean(c)'
    BY <2>1 DEF Sole, NamesOld, NamesMean
  <2>3. BindsCached'
    BY <1>2, <2>1 DEF Call, Hit, Exhausted, vars, callVars, Sole, Shapes, BindsCached
  <2>4. RunsOwnSQL'
    BY <1>2 DEF Call, Hit, Exhausted, vars, callVars, Sole, Shapes, RunsOwnSQL
  <2> QED BY <1>0, <2>2, <2>3, <2>4 DEF Sole
<1>3. ASSUME NEW b \in Backends, Prepare(c, b) PROVE Sole(c)'
  <2> DEFINE name == seq[c] + 1
  <2>1. /\ seq' = [seq EXCEPT ![c] = name] /\ sql' = sql /\ ran' = ran
        /\ server' = [server EXCEPT ![b] = With(AfterCloses(c, b), name, sql[c])]
        /\ Put(c, sql[c], name)
    BY <1>3 DEF Prepare, Miss, NextName
  <2>2. seq'[c] = name /\ seq[c] \in Nat
    BY <2>1 DEF Sole, Shapes
  <2>3. /\ sql[c] \in DOMAIN byKey'[c] /\ byKey'[c][sql[c]] = name
        /\ \A r \in DOMAIN byKey'[c] :
             r # sql[c] => r \in DOMAIN byKey[c] /\ byKey'[c][r] = byKey[c][r]
    <3> HIDE DEF name
    <3> QED BY <2>1, PutFacts DEF Sole
  <2>4. /\ server'[b] = With(AfterCloses(c, b), name, sql[c])
        /\ \A d \in Backends : d # b => server'[d] = server[d]
    BY <2>1 DEF Sole, Shapes
  <2>5. /\ DOMAIN server'[b] \subseteq DOMAIN server[b] \cup {name}
        /\ server'[b][name] = sql[c]
        /\ \A n \in DOMAIN server'[b] : n # name => server'[b][n] = server[b][n]
    BY <2>4 DEF With, AfterCloses
  <2>6. NamesOld(c)'
    BY <2>2, <2>3, <2>4, <2>5 DEF Sole, NamesOld
  <2>7. NamesMean(c)'
    <3> SUFFICES ASSUME NEW d \in Backends, NEW q \in DOMAIN byKey'[c],
                        byKey'[c][q] \in DOMAIN server'[d]
                 PROVE  server'[d][byKey'[c][q]] = q
      BY DEF NamesMean
    <3>1. CASE q = sql[c]
      <4>1. name \notin DOMAIN server[d]
        BY <2>2 DEF Sole, NamesOld
      <4> QED BY <2>3, <2>4, <2>5, <3>1, <4>1
    <3>2. CASE q # sql[c]
      <4>1. byKey'[c][q] # name
        BY <2>2, <2>3, <3>2 DEF Sole, NamesOld
      <4> QED BY <2>3, <2>4, <2>5, <3>2, <4>1 DEF Sole, NamesMean
    <3> QED BY <3>1, <3>2
  <2>8. BindsCached' /\ RunsOwnSQL'
    BY <2>1, <2>3 DEF Sole, BindsCached, RunsOwnSQL
  <2> QED BY <1>0, <2>6, <2>7, <2>8 DEF Sole
<1>4. ASSUME NEW b \in Backends, PrepareFails(c, b) PROVE Sole(c)'
  <2> DEFINE name == seq[c] + 1
  <2>1. /\ seq' = [seq EXCEPT ![c] = name] /\ sql' = sql /\ ran' = ran /\ byKey' = byKey
        /\ pc' = [pc EXCEPT ![c] = "idle"]
        /\ \/ server' = [server EXCEPT ![b] = AfterCloses(c, b)]
           \/ server' = [server EXCEPT ![b] = With(AfterCloses(c, b), name, sql[c])]
    BY <1>4 DEF PrepareFails, Miss, NextName
  <2>2. seq'[c] = name /\ seq[c] \in Nat
    BY <2>1 DEF Sole, Shapes
  <2>3. /\ \A d \in Backends : d # b => server'[d] = server[d]
        /\ DOMAIN server'[b] \subseteq DOMAIN server[b] \cup {name}
        /\ \A n \in DOMAIN server'[b] : n # name => server'[b][n] = server[b][n]
    <3> HIDE DEF name
    <3>1. CASE server' = [server EXCEPT ![b] = AfterCloses(c, b)]
      BY <3>1 DEF Sole, Shapes, AfterCloses
    <3>2. CASE server' = [server EXCEPT ![b] = With(AfterCloses(c, b), name, sql[c])]
      BY <3>2 DEF Sole, Shapes, With, AfterCloses
    <3> QED BY <2>1, <3>1, <3>2
  <2>4. NamesOld(c)'
    BY <2>1, <2>2, <2>3 DEF Sole, NamesOld
  <2>5. NamesMean(c)'
    <3>1. \A q \in DOMAIN byKey[c] : byKey[c][q] # name
      BY <2>2 DEF Sole, NamesOld
    <3> QED BY <2>1, <2>3, <3>1 DEF Sole, NamesMean
  <2>6. BindsCached' /\ RunsOwnSQL'
    BY <2>1 DEF Sole, Shapes, BindsCached, RunsOwnSQL
  <2> QED BY <1>0, <2>4, <2>5, <2>6 DEF Sole
<1>5. ASSUME NEW b \in Backends, Execute(c, b) PROVE Sole(c)'
  <2>1. UNCHANGED <<byKey, server, seq, sql>>
    BY <1>5 DEF Execute, cacheVars
  <2>2. NamesOld(c)' /\ NamesMean(c)'
    BY <2>1 DEF Sole, NamesOld, NamesMean
  <2>3. server[b][byKey[c][sql[c]]] = sql[c]
    BY <1>5 DEF Execute, Sole, BindsCached, NamesMean
  <2>4. BindsCached' /\ RunsOwnSQL'
    BY <1>5, <2>1, <2>3 DEF Execute, Sole, Shapes, BindsCached, RunsOwnSQL
  <2> QED BY <1>0, <2>2, <2>4 DEF Sole
<1>6. ASSUME NEW b \in Backends, StaleRetry(c, b) PROVE Sole(c)'
  <2>1. /\ UNCHANGED <<server, seq, sql, ran>>
        /\ byKey'[c] = Without(byKey[c], sql[c])
        /\ pc'[c] = "get"
    BY <1>6 DEF StaleRetry, Invalidate, Sole, Shapes
  <2>2. NamesOld(c)' /\ NamesMean(c)'
    BY <2>1 DEF Sole, NamesOld, NamesMean, Without
  <2> QED BY <1>0, <2>1, <2>2 DEF Sole, BindsCached, RunsOwnSQL
<1>7. ASSUME NEW b \in Backends, StaleFails(c, b) PROVE Sole(c)'
  <2>1. /\ UNCHANGED <<byKey, server, seq, sql, ran>>
        /\ pc'[c] = "idle"
    BY <1>7 DEF StaleFails, cacheVars, Sole, Shapes
  <2> QED BY <1>0, <2>1 DEF Sole, NamesOld, NamesMean, BindsCached, RunsOwnSQL
<1>8. \A d \in Clients : d = c
  OBVIOUS
<1> QED BY <1>1, <1>2, <1>3, <1>4, <1>5, <1>6, <1>7, <1>8 DEF Next

(* A Client that does not share its backends' statement names with another one *)
(* runs what it was asked to run, through any rotation of backends, eviction,  *)
(* invalidation and retry: seq never repeats a name, so a name some backend    *)
(* still knows from before was never given to another SQL.  With two clients   *)
(* the statement is false (run stmt_names).                                    *)
THEOREM OwnSQLTheorem ==
    ASSUME NEW c, Clients = {c}
    PROVE  Spec => []RunsOwnSQL
<1>1. Init => Sole(c)
  BY DEF Init, Empty, Sole, Shapes, NamesOld, NamesMean, BindsCached, RunsOwnSQL
<1>2. Sole(c) /\ [Next]_vars => Sole(c)'
  BY SoleStep
<1>3. Sole(c) => RunsOwnSQL
  BY DEF Sole
<1> QED BY <1>1, <1>2, <1>3, PTL DEF Spec

-----------------------------------------------------------------------------
(* What NamesAccounted says of one client.                                     *)
Accounted(c) ==
    /\ Cached(c) \cap (ToSet(closed[c]) \cup closeSent[c]) = {}
    /\ ToSet(closed[c]) \cap closeSent[c] = {}
    /\ failed[c] \cap (Cached(c) \cup ToSet(closed[c]) \cup closeSent[c]) = {}
    /\ 1..seq[c] \subseteq Cached(c) \cup ToSet(closed[c]) \cup closeSent[c] \cup failed[c]
    /\ \A q \in DOMAIN byKey[c], r \in DOMAIN byKey[c] :
         byKey[c][q] = byKey[c][r] => q = r
    /\ IsInjective(closed[c])

(* Every name a client ever used is a number its counter has passed, which is  *)
(* what makes the next one fresh.                                              *)
Numbered(c) ==
    /\ closed[c] \in Seq(Nat) /\ ToSet(closed[c]) \subseteq 1..seq[c]
    /\ \A q \in DOMAIN byKey[c] : byKey[c][q] \in 1..seq[c]
    /\ closeSent[c] \subseteq 1..seq[c] /\ failed[c] \subseteq 1..seq[c]

(* The inductive invariant of the names of all clients.                        *)
Ledger == Shapes /\ \A c \in Clients : Accounted(c) /\ Numbered(c)

(* A client's ledger is its own: steps that leave its cache alone keep it.     *)
LEMMA LedgerSame ==
    ASSUME NEW c, Accounted(c), Numbered(c), byKey'[c] = byKey[c],
           closed'[c] = closed[c], seq'[c] = seq[c], closeSent'[c] = closeSent[c],
           failed'[c] = failed[c]
    PROVE  Accounted(c)' /\ Numbered(c)'
BY DEF Accounted, Numbered, Cached

(* What put does to the pending Closes: none, or the one of the entry that     *)
(* made room, which has left the cache; every other entry stays.               *)
LEMMA PutCloses ==
    ASSUME Shapes, NEW c \in Clients, NEW q, NEW name, Put(c, q, name)
    PROVE  /\ \A d \in Clients : d # c => closed'[d] = closed[d]
           /\ \/ /\ closed'[c] = <<>>
                 /\ DOMAIN byKey[c] \subseteq DOMAIN byKey'[c]
              \/ \E victim \in DOMAIN byKey[c] :
                    /\ closed'[c] = <<byKey[c][victim]>>
                    /\ victim # q => victim \notin DOMAIN byKey'[c]
                    /\ DOMAIN byKey[c] \ {victim} \subseteq DOMAIN byKey'[c]
<1>1. CASE /\ closed' = [closed EXCEPT ![c] = <<>>]
           /\ byKey' = [byKey EXCEPT ![c] = With(@, q, name)]
  <2>1. byKey'[c] = With(byKey[c], q, name) /\ closed'[c] = <<>>
    BY <1>1 DEF Shapes
  <2>2. DOMAIN byKey[c] \subseteq DOMAIN byKey'[c]
    BY <2>1 DEF With
  <2> QED BY <1>1, <2>1, <2>2 DEF Shapes
<1>2. ASSUME NEW victim \in DOMAIN byKey[c],
             byKey' = [byKey EXCEPT ![c] = With(Without(@, victim), q, name)],
             closed' = [closed EXCEPT ![c] = <<byKey[c][victim]>>]
      PROVE  /\ \A d \in Clients : d # c => closed'[d] = closed[d]
             /\ closed'[c] = <<byKey[c][victim]>>
             /\ victim # q => victim \notin DOMAIN byKey'[c]
             /\ DOMAIN byKey[c] \ {victim} \subseteq DOMAIN byKey'[c]
  <2>1. byKey'[c] = With(Without(byKey[c], victim), q, name)
    BY <1>2 DEF Shapes
  <2>2. DOMAIN byKey'[c] = (DOMAIN byKey[c] \ {victim}) \cup {q}
    BY <2>1 DEF With, Without
  <2> QED BY <1>2, <2>2 DEF Shapes
<1> QED BY <1>1, <1>2 DEF Put

(* The sequence of one pending Close.                                          *)
LEMMA OneClose ==
    ASSUME NEW n \in Nat
    PROVE  <<n>> \in Seq(Nat) /\ ToSet(<<n>>) = {n} /\ IsInjective(<<n>>)
<1>1. <<n>> \in Seq(Nat) /\ Len(<<n>>) = 1 /\ <<n>>[1] = n
  OBVIOUS
<1>2. DOMAIN <<n>> = 1..1 /\ \A i \in 1..1 : <<n>>[i] = n
  BY <1>1
<1> QED BY <1>1, <1>2, ToSetDef DEF IsInjective, ToSet

(* Every step of every client keeps every client's ledger.                     *)
LEMMA LedgerStep == ASSUME Ledger, [Next]_vars PROVE Ledger'
<1>0. Shapes' /\ Shapes
  BY ShapesStep DEF Ledger
<1> SUFFICES ASSUME NEW d \in Clients PROVE Accounted(d)' /\ Numbered(d)'
  BY <1>0 DEF Ledger
<1>a. Accounted(d) /\ Numbered(d)
  BY DEF Ledger
<1>1. CASE UNCHANGED vars
  BY <1>1, <1>a, LedgerSame DEF vars, cacheVars
<1>2. ASSUME NEW c \in Clients,
             \/ Call(c) \/ Hit(c) \/ Exhausted(c)
             \/ \E b \in Backends : Execute(c, b) \/ StaleFails(c, b)
      PROVE  Accounted(d)' /\ Numbered(d)'
  <2>1. UNCHANGED <<byKey, closed, seq, closeSent, failed>>
    BY <1>2 DEF Call, Hit, Exhausted, Execute, StaleFails, vars, cacheVars
  <2> QED BY <1>a, <2>1, LedgerSame
<1>3. ASSUME NEW c \in Clients, NEW b \in Backends, Prepare(c, b)
      PROVE  Accounted(d)' /\ Numbered(d)'
  <2> DEFINE name == seq[c] + 1
  <2>1. /\ seq' = [seq EXCEPT ![c] = name]
        /\ closeSent' = [closeSent EXCEPT ![c] = @ \cup ToSet(closed[c])]
        /\ Put(c, sql[c], name) /\ sql[c] \notin DOMAIN byKey[c]
        /\ failed' = failed
    BY <1>3 DEF Prepare, Miss, NextName
  <2>2. /\ seq'[c] = name /\ seq[c] \in Nat
        /\ closeSent'[c] = closeSent[c] \cup ToSet(closed[c])
        /\ d # c => seq'[d] = seq[d] /\ closeSent'[d] = closeSent[d]
    BY <2>1, <1>0 DEF Shapes
  <2> HIDE DEF name
  <2>3. /\ sql[c] \in DOMAIN byKey'[c] /\ byKey'[c][sql[c]] = name
        /\ \A r \in DOMAIN byKey'[c] :
             r # sql[c] => r \in DOMAIN byKey[c] /\ byKey'[c][r] = byKey[c][r]
        /\ d # c => byKey'[d] = byKey[d]
    BY <1>0, <2>1, PutFacts
  <2>4. /\ d # c => closed'[d] = closed[d]
        /\ \/ closed'[c] = <<>> /\ DOMAIN byKey[c] \subseteq DOMAIN byKey'[c]
           \/ \E victim \in DOMAIN byKey[c] :
                 /\ closed'[c] = <<byKey[c][victim]>>
                 /\ victim # sql[c] => victim \notin DOMAIN byKey'[c]
                 /\ DOMAIN byKey[c] \ {victim} \subseteq DOMAIN byKey'[c]
    BY <1>0, <2>1, PutCloses
  <2>5. CASE d # c
    BY <1>a, <2>1, <2>2, <2>3, <2>4, <2>5, LedgerSame
  <2>6. CASE d = c
    <3>1. name \notin Cached(c) /\ name \notin closeSent'[c] /\ name \in 1..seq'[c]
          /\ 1..seq[c] \subseteq 1..seq'[c]
      BY <1>a, <2>2, <2>6 DEF name, Numbered, Cached
    <3>2. \A r \in DOMAIN byKey'[c] :
             r # sql[c] => byKey'[c][r] \in Cached(c) /\ byKey'[c][r] = byKey[c][r]
      BY <2>3 DEF Cached
    <3>3. Cached(c)' \subseteq Cached(c) \cup {name}
      BY <2>3, <3>2 DEF Cached
    <3>4. closeSent'[c] \subseteq 1..seq[c] /\ Cached(c) \cap closeSent'[c] = {}
      BY <1>a, <2>2, <2>6 DEF Accounted, Numbered
    <3>5. \A q \in DOMAIN byKey'[c], r \in DOMAIN byKey'[c] :
             byKey'[c][q] = byKey'[c][r] => q = r
      BY <1>a, <2>3, <2>6, <3>1, <3>2 DEF Accounted
    <3>6. \A q \in DOMAIN byKey'[c] : byKey'[c][q] \in 1..seq'[c]
      BY <1>a, <2>3, <2>6, <3>1 DEF Numbered
    <3>9. /\ failed'[c] = failed[c] /\ failed[c] \subseteq 1..seq[c]
          /\ failed[c] \cap (Cached(c) \cup closeSent'[c] \cup {name}) = {}
      BY <1>a, <2>1, <2>2, <2>6 DEF Accounted, Numbered, name
    <3>10. 1..seq'[c] \subseteq Cached(c) \cup {name} \cup closeSent'[c] \cup failed'[c]
      BY <1>a, <2>1, <2>2, <2>6 DEF Accounted, name
    <3>11. name \in Cached(c)'
      BY <2>3 DEF Cached
    <3>7. CASE closed'[c] = <<>> /\ DOMAIN byKey[c] \subseteq DOMAIN byKey'[c]
      <4>1. ToSet(closed'[c]) = {} /\ IsInjective(closed'[c]) /\ closed'[c] \in Seq(Nat)
        BY <3>7, EmptyFacts, EmptySeq
      <4>4. Cached(c) \subseteq Cached(c)'
        BY <2>1, <2>3, <3>7 DEF Cached
      <4>2. Accounted(c)'
        BY <3>1, <3>3, <3>4, <3>5, <3>9, <3>10, <3>11, <4>1, <4>4 DEF Accounted
      <4>3. Numbered(c)'
        BY <3>1, <3>4, <3>6, <3>9, <4>1 DEF Numbered
      <4> QED BY <2>6, <4>2, <4>3
    <3>8. ASSUME NEW victim \in DOMAIN byKey[c], closed'[c] = <<byKey[c][victim]>>,
                 victim # sql[c] => victim \notin DOMAIN byKey'[c],
                 DOMAIN byKey[c] \ {victim} \subseteq DOMAIN byKey'[c]
          PROVE  Accounted(d)' /\ Numbered(d)'
      <4> DEFINE n == byKey[c][victim]
      <4>1. n \in Cached(c) /\ n \in 1..seq[c] /\ n \in Nat
        BY <1>a, <2>2, <2>6 DEF Numbered, Cached
      <4>2. /\ ToSet(closed'[c]) = {n} /\ IsInjective(closed'[c])
            /\ closed'[c] \in Seq(Nat)
        BY <3>8, <4>1, OneClose
      <4>3. n \notin Cached(c)' /\ n # name
        <5>1. n # name
          BY <3>1, <4>1
        <5>2. victim \notin DOMAIN byKey'[c]
          BY <2>1, <3>8
        <5>3. ASSUME NEW r \in DOMAIN byKey'[c] PROVE byKey'[c][r] # n
          <6>1. CASE r = sql[c]
            BY <2>3, <5>1, <6>1
          <6>2. CASE r # sql[c]
            BY <1>a, <2>3, <2>6, <5>2, <6>2 DEF Accounted
          <6> QED BY <6>1, <6>2
        <5> QED BY <5>1, <5>3 DEF Cached
      <4>6. Cached(c) \ {n} \subseteq Cached(c)'
        <5>1. \A r \in DOMAIN byKey[c] \ {victim} : byKey'[c][r] = byKey[c][r]
          BY <2>1, <2>3, <3>8
        <5> QED BY <3>8, <5>1 DEF Cached
      <4>4. Accounted(c)'
        BY <3>1, <3>3, <3>4, <3>5, <3>9, <3>10, <3>11, <4>1, <4>2, <4>3, <4>6 DEF Accounted
      <4>5. Numbered(c)'
        BY <3>1, <3>4, <3>6, <3>9, <4>1, <4>2 DEF Numbered
      <4> QED BY <2>6, <4>4, <4>5
    <3> QED BY <2>4, <2>6, <3>7, <3>8
  <2> QED BY <2>5, <2>6
<1>4. ASSUME NEW c \in Clients, NEW b \in Backends, PrepareFails(c, b)
      PROVE  Accounted(d)' /\ Numbered(d)'
  <2>1. /\ seq' = [seq EXCEPT ![c] = seq[c] + 1] /\ byKey' = byKey
        /\ closeSent' = [closeSent EXCEPT ![c] = @ \cup ToSet(closed[c])]
        /\ closed' = [closed EXCEPT ![c] = <<>>]
        /\ failed' = [failed EXCEPT ![c] = @ \cup {seq[c] + 1}]
    BY <1>4 DEF PrepareFails, Miss, NextName
  <2>2. CASE d # c
    BY <1>0, <1>a, <2>1, <2>2, LedgerSame DEF Shapes
  <2>3. CASE d = c
    <3>1. /\ byKey'[d] = byKey[d] /\ seq'[d] = seq[d] + 1 /\ seq[d] \in Nat
          /\ closeSent'[d] = closeSent[d] \cup ToSet(closed[d])
          /\ closed'[d] = <<>> /\ failed'[d] = failed[d] \cup {seq[d] + 1}
      BY <1>0, <2>1, <2>3 DEF Shapes
    <3>2. ToSet(closed'[d]) = {} /\ IsInjective(closed'[d]) /\ closed'[d] \in Seq(Nat)
      BY <3>1, EmptyFacts, EmptySeq
    <3>5. Cached(d)' = Cached(d) /\ Cached(d) \subseteq 1..seq[d]
      BY <1>a, <3>1 DEF Cached, Numbered
    <3>6. /\ 1..seq'[d] = 1..seq[d] \cup {seq[d] + 1}
          /\ seq[d] + 1 \notin 1..seq[d]
      BY <3>1
    <3>3. Accounted(d)'
      BY <1>a, <3>1, <3>2, <3>5, <3>6 DEF Accounted, Numbered
    <3>4. Numbered(d)'
      BY <1>a, <3>1, <3>2 DEF Numbered
    <3> QED BY <3>3, <3>4
  <2> QED BY <2>2, <2>3
<1>5. ASSUME NEW c \in Clients, NEW b \in Backends, StaleRetry(c, b)
      PROVE  Accounted(d)' /\ Numbered(d)'
  <2>1. /\ UNCHANGED <<seq, closeSent, failed>>
        /\ byKey' = [byKey EXCEPT ![c] = Without(@, sql[c])]
        /\ closed' = IF sql[c] \in DOMAIN byKey[c]
                     THEN [closed EXCEPT ![c] = Append(@, byKey[c][sql[c]])]
                     ELSE closed
    BY <1>5 DEF StaleRetry, Invalidate
  <2>2. CASE d # c
    BY <1>0, <1>a, <2>1, <2>2, LedgerSame DEF Shapes
  <2>3. CASE d = c
    <3>1. /\ byKey'[d] = Without(byKey[d], sql[d])
          /\ seq'[d] = seq[d] /\ closeSent'[d] = closeSent[d] /\ failed'[d] = failed[d]
      BY <1>0, <2>1, <2>3 DEF Shapes
    <3>2. /\ DOMAIN byKey'[d] = DOMAIN byKey[d] \ {sql[d]}
          /\ \A r \in DOMAIN byKey'[d] : byKey'[d][r] = byKey[d][r]
      BY <3>1 DEF Without
    <3>3. CASE sql[d] \notin DOMAIN byKey[d]
      <4>1. closed'[d] = closed[d] /\ Cached(d)' = Cached(d)
        BY <2>1, <2>3, <3>2, <3>3 DEF Cached
      <4> QED BY <1>a, <3>1, <3>2, <4>1 DEF Accounted, Numbered
    <3>4. CASE sql[d] \in DOMAIN byKey[d]
      <4> DEFINE n == byKey[d][sql[d]]
      <4>1. closed'[d] = Append(closed[d], n)
        BY <1>0, <2>1, <2>3, <3>4 DEF Shapes
      <4>2. n \in Cached(d) /\ n \in 1..seq[d] /\ n \in Nat /\ n \notin ToSet(closed[d])
        BY <1>a, <3>4 DEF Cached, Accounted, Numbered
      <4> HIDE DEF n
      <4>3. /\ ToSet(closed'[d]) = ToSet(closed[d]) \cup {n}
            /\ IsInjective(closed'[d]) /\ closed'[d] \in Seq(Nat)
        BY <1>a, <4>1, <4>2, AppendFacts DEF Accounted, Numbered
      <4>4. /\ Cached(d)' \subseteq Cached(d) /\ n \notin Cached(d)'
            /\ Cached(d) \ {n} \subseteq Cached(d)'
        BY <1>a, <3>2, <3>4 DEF Cached, Accounted, n
      <4>5. Accounted(d)'
        BY <1>a, <3>1, <3>2, <4>2, <4>3, <4>4 DEF Accounted
      <4>6. Numbered(d)'
        BY <1>a, <3>1, <3>2, <4>2, <4>3 DEF Numbered
      <4> QED BY <4>5, <4>6
    <3> QED BY <3>3, <3>4
  <2> QED BY <2>2, <2>3
<1> QED BY <1>1, <1>2, <1>3, <1>4, <1>5 DEF Next

(* For any number of clients, backends and statements: every name the counter  *)
(* has passed is in exactly one of four places: in the cache, in the pending   *)
(* Closes, closed, or given up by a prepare that failed.  No statement in use  *)
(* is closed, none is closed twice, and neither an eviction nor an             *)
(* invalidation forgets to queue a Close, however calls, errors and retries of *)
(* the clients interleave; the failed prepares are the code's only leak.       *)
THEOREM NamesTheorem == Spec => []NamesAccounted
<1>1. Init => Ledger
  <2> SUFFICES ASSUME Init PROVE Ledger
    OBVIOUS
  <2>1. Shapes
    BY DEF Init, Shapes
  <2>2. ASSUME NEW c \in Clients PROVE Accounted(c) /\ Numbered(c)
    <3>1. closed[c] = <<>> /\ DOMAIN byKey[c] = {} /\ closeSent[c] = {}
          /\ failed[c] = {} /\ 1..seq[c] = {}
      BY DEF Init, Empty
    <3>2. ToSet(closed[c]) = {} /\ IsInjective(closed[c]) /\ closed[c] \in Seq(Nat)
      BY <3>1, EmptyFacts, EmptySeq
    <3> QED BY <3>1, <3>2 DEF Accounted, Numbered, Cached
  <2> QED BY <2>1, <2>2 DEF Ledger
<1>2. Ledger /\ [Next]_vars => Ledger'
  BY LedgerStep
<1>3. Ledger => NamesAccounted
  <2> SUFFICES ASSUME Ledger, NEW c \in Clients
               PROVE  /\ Accounted(c)
                      /\ 1..seq[c] = Cached(c) \cup ToSet(closed[c])
                                       \cup closeSent[c] \cup failed[c]
    BY DEF NamesAccounted, Accounted, IsInjective
  <2>1. Accounted(c) /\ Numbered(c)
    BY DEF Ledger
  <2>2. Cached(c) \subseteq 1..seq[c]
    BY <2>1 DEF Numbered, Cached
  <2> QED BY <2>1, <2>2 DEF Accounted, Numbered
<1> QED BY <1>1, <1>2, <1>3, PTL DEF Spec

-----------------------------------------------------------------------------
(* What TypeOK needs beside itself: the caches are finite, so that len(byKey)  *)
(* is a number put can compare, and a backend knows SQL texts.                 *)
Bounded ==
    /\ Shapes /\ TypeOK
    /\ \A c \in Clients : IsFiniteSet(DOMAIN byKey[c]) /\ closed[c] \in Seq(Names)
    /\ \A b \in Backends : \A n \in DOMAIN server[b] : server[b][n] \in SQLs

(* One more element, below the bound.                                          *)
LEMMA AddBound ==
    ASSUME NEW S, NEW x, IsFiniteSet(S), Cardinality(S) \in Nat,
           NEW n \in Nat, Cardinality(S) < n
    PROVE  IsFiniteSet(S \cup {x}) /\ Cardinality(S \cup {x}) <= n
<1>1. IsFiniteSet(S \cup {x}) /\ \/ Cardinality(S \cup {x}) = Cardinality(S)
                                 \/ Cardinality(S \cup {x}) = Cardinality(S) + 1
  BY FS_AddElement
<1> QED BY <1>1

(* put at capacity makes room first, below capacity adds one entry.            *)
LEMMA PutBound ==
    ASSUME Bounded, NEW c \in Clients, NEW q \in SQLs, NEW name \in Names,
           Put(c, q, name)
    PROVE  \A d \in Clients :
             /\ DOMAIN byKey'[d] \subseteq SQLs /\ Cached(d)' \subseteq Names
             /\ IsFiniteSet(DOMAIN byKey'[d])
             /\ Cardinality(DOMAIN byKey'[d]) <= Capacity
             /\ closed'[d] \in Seq(Names)
<1> USE StmtCacheAssumption
<1>0. Shapes /\ IsFiniteSet(DOMAIN byKey[c]) /\ Cardinality(DOMAIN byKey[c]) \in Nat
      /\ Cardinality(DOMAIN byKey[c]) <= Capacity
  BY FS_CardinalityType DEF Bounded, TypeOK
<1>1. /\ q \in DOMAIN byKey'[c] /\ byKey'[c][q] = name
      /\ \A r \in DOMAIN byKey'[c] :
           r # q => r \in DOMAIN byKey[c] /\ byKey'[c][r] = byKey[c][r]
      /\ \A d \in Clients : d # c => byKey'[d] = byKey[d]
  BY <1>0, PutFacts
<1>2. \A d \in Clients : DOMAIN byKey'[d] \subseteq SQLs /\ Cached(d)' \subseteq Names
  <2>1. ASSUME NEW d \in Clients, d # c
        PROVE  DOMAIN byKey'[d] \subseteq SQLs /\ Cached(d)' \subseteq Names
    <3>1. byKey'[d] = byKey[d]
      BY <1>1, <2>1
    <3>2. Cached(d)' = Cached(d)
      BY <3>1 DEF Cached
    <3> QED BY <3>1, <3>2 DEF Bounded, TypeOK
  <2>2. DOMAIN byKey'[c] \subseteq SQLs
    BY <1>1 DEF Bounded, TypeOK
  <2>3. \A r \in DOMAIN byKey'[c] : byKey'[c][r] \in Names
    BY <1>1 DEF Bounded, TypeOK, Cached
  <2>4. Cached(c)' \subseteq Names
    BY <2>3 DEF Cached
  <2> QED BY <2>1, <2>2, <2>4
<1>3. CASE /\ ~PutFull(c) /\ byKey' = [byKey EXCEPT ![c] = With(@, q, name)]
           /\ closed' = [closed EXCEPT ![c] = <<>>]
  <2>1. DOMAIN byKey'[c] = DOMAIN byKey[c] \cup {q}
    <3>1. byKey'[c] = With(byKey[c], q, name)
      BY <1>0, <1>3 DEF Shapes
    <3> QED BY <3>1 DEF With
  <2>2. Cardinality(DOMAIN byKey[c]) < Capacity
    BY <1>0, <1>3 DEF PutFull
  <2>3. IsFiniteSet(DOMAIN byKey'[c]) /\ Cardinality(DOMAIN byKey'[c]) <= Capacity
    BY <1>0, <2>1, <2>2, AddBound
  <2>4. \A d \in Clients : closed'[d] \in Seq(Names)
    BY <1>3, <1>0, EmptySeq DEF Bounded, Shapes
  <2> QED BY <1>1, <1>2, <2>3, <2>4 DEF Bounded, TypeOK
<1>4. ASSUME NEW victim \in DOMAIN byKey[c],
             byKey' = [byKey EXCEPT ![c] = With(Without(@, victim), q, name)],
             closed' = [closed EXCEPT ![c] = <<byKey[c][victim]>>]
      PROVE  \A d \in Clients :
               /\ IsFiniteSet(DOMAIN byKey'[d])
               /\ Cardinality(DOMAIN byKey'[d]) <= Capacity
               /\ closed'[d] \in Seq(Names)
  <2> DEFINE D == DOMAIN byKey[c] \ {victim}
  <2>1. DOMAIN byKey'[c] = D \cup {q}
    <3>1. byKey'[c] = With(Without(byKey[c], victim), q, name)
      BY <1>0, <1>4 DEF Shapes
    <3> QED BY <3>1 DEF With, Without
  <2>2. IsFiniteSet(D) /\ Cardinality(D) = Cardinality(DOMAIN byKey[c]) - 1
    BY <1>0, <1>4, FS_RemoveElement
  <2> HIDE DEF D
  <2>6. Cardinality(D) \in Nat /\ Cardinality(D) < Capacity /\ Capacity \in Nat
    BY <1>0, <2>2, FS_CardinalityType
  <2>3. IsFiniteSet(DOMAIN byKey'[c]) /\ Cardinality(DOMAIN byKey'[c]) <= Capacity
    BY <2>1, <2>2, <2>6, AddBound
  <2>4. <<byKey[c][victim]>> \in Seq(Names)
    <3>1. byKey[c][victim] \in Names
      BY DEF Bounded, TypeOK, Cached
    <3> QED BY <3>1
  <2>5. \A d \in Clients : closed'[d] \in Seq(Names)
    BY <1>4, <1>0, <2>4 DEF Bounded, Shapes
  <2> QED BY <1>1, <2>3, <2>5 DEF Bounded, TypeOK
<1> QED BY <1>2, <1>3, <1>4 DEF Put

(* Every step keeps the types and the bound.                                   *)
LEMMA BoundedStep == ASSUME Bounded, [Next]_vars PROVE Bounded'
<1> USE StmtCacheAssumption
<1>0. Shapes' /\ Shapes /\ TypeOK
  BY ShapesStep DEF Bounded
<1>1. CASE UNCHANGED vars
  BY <1>1 DEF vars, cacheVars, callVars, Bounded, Shapes, TypeOK, Cached
<1>2. ASSUME NEW c \in Clients, Call(c) \/ Hit(c) \/ Exhausted(c) PROVE Bounded'
  <2>1. UNCHANGED <<byKey, closed, seq, server, closeSent, failed>>
    BY <1>2 DEF Call, Hit, Exhausted, vars, cacheVars
  <2>2. /\ pc' \in [Clients -> {"idle", "get", "bind"}] /\ sql' \in [Clients -> SQLs]
        /\ ran' \in [Clients -> SQLs \cup {"none"}]
    <3>1. CASE Call(c)
      BY <1>0, <3>1 DEF Call, TypeOK
    <3>2. CASE Hit(c)
      BY <1>0, <3>2 DEF Hit, TypeOK
    <3>3. CASE Exhausted(c)
      BY <1>0, <3>3 DEF Exhausted, vars, callVars, TypeOK
    <3> QED BY <1>2, <3>1, <3>2, <3>3
  <2>3. fromCache' \in [Clients -> BOOLEAN] /\ second' \in [Clients -> BOOLEAN]
    <3>1. CASE Call(c)
      BY <1>0, <3>1 DEF Call, TypeOK
    <3>2. CASE Hit(c)
      BY <1>0, <3>2 DEF Hit, TypeOK
    <3>3. CASE Exhausted(c)
      BY <1>0, <3>3 DEF Exhausted, vars, callVars, TypeOK
    <3> QED BY <1>2, <3>1, <3>2, <3>3
  <2> QED BY <1>0, <2>1, <2>2, <2>3 DEF Bounded, TypeOK, Cached
<1>3. ASSUME NEW c \in Clients, NEW b \in Backends, Miss(c),
             \A d \in Backends : d # b => server'[d] = server[d],
             \A n \in DOMAIN server'[b] :
               \/ n \in DOMAIN server[b] /\ server'[b][n] = server[b][n]
               \/ n = seq[c] + 1 /\ server'[b][n] = sql[c],
             \A d \in Clients :
               /\ DOMAIN byKey'[d] \subseteq SQLs /\ Cached(d)' \subseteq Names
               /\ IsFiniteSet(DOMAIN byKey'[d])
               /\ Cardinality(DOMAIN byKey'[d]) <= Capacity
               /\ closed'[d] \in Seq(Names),
             \E l \in {"idle", "bind"} : pc' = [pc EXCEPT ![c] = l],
             \A d \in Clients : failed'[d] \subseteq failed[d] \cup {seq[c] + 1}
      PROVE  Bounded'
  <2>1. /\ seq' = [seq EXCEPT ![c] = seq[c] + 1] /\ seq[c] < MaxSeq
        /\ closeSent' = [closeSent EXCEPT ![c] = @ \cup ToSet(closed[c])]
        /\ fromCache' = [fromCache EXCEPT ![c] = FALSE]
        /\ UNCHANGED <<sql, second, ran>>
    BY <1>3 DEF Miss, NextName
  <2>2. seq' \in [Clients -> 0..MaxSeq] /\ seq[c] + 1 \in Names
    BY <1>0, <2>1 DEF TypeOK, Names
  <2>3. \A d \in Clients : closeSent'[d] \subseteq Names /\ failed'[d] \subseteq Names
    BY <1>0, <1>3, <2>1, <2>2 DEF TypeOK, Shapes
  <2>4. fromCache' \in [Clients -> BOOLEAN]
    BY <1>0, <2>1 DEF TypeOK
  <2>5. \A d \in Backends : DOMAIN server'[d] \subseteq Names
    BY <1>0, <1>3, <2>2 DEF TypeOK
  <2>6. \A d \in Backends : \A n \in DOMAIN server'[d] : server'[d][n] \in SQLs
    BY <1>3 DEF Bounded, TypeOK
  <2>7. \A d \in Clients : ToSet(closed'[d]) \subseteq Names
    BY <1>3, ToSetDef
  <2>8. pc' \in [Clients -> {"idle", "get", "bind"}]
    BY <1>0, <1>3 DEF TypeOK
  <2>9. TypeOK'
    BY <1>0, <1>3, <2>1, <2>2, <2>3, <2>4, <2>5, <2>7, <2>8 DEF TypeOK
  <2> QED BY <1>0, <1>3, <2>6, <2>9 DEF Bounded
<1>4. ASSUME NEW c \in Clients, NEW b \in Backends, Prepare(c, b) PROVE Bounded'
  <2>1. /\ Miss(c) /\ pc' = [pc EXCEPT ![c] = "bind"]
        /\ server' = [server EXCEPT ![b] = With(AfterCloses(c, b), seq[c] + 1, sql[c])]
        /\ Put(c, sql[c], seq[c] + 1) /\ failed' = failed
    BY <1>4 DEF Prepare, NextName
  <2>2. seq[c] + 1 \in Names /\ sql[c] \in SQLs
    BY <1>0, <2>1 DEF Miss, TypeOK, Names
  <2>3. \A d \in Clients :
          /\ DOMAIN byKey'[d] \subseteq SQLs /\ Cached(d)' \subseteq Names
          /\ IsFiniteSet(DOMAIN byKey'[d])
          /\ Cardinality(DOMAIN byKey'[d]) <= Capacity
          /\ closed'[d] \in Seq(Names)
    <3> DEFINE name == seq[c] + 1
    <3> HIDE DEF name
    <3>1. name \in Names /\ Put(c, sql[c], name)
      BY <2>1, <2>2 DEF name
    <3> QED BY <2>2, <3>1, PutBound
  <2>4. /\ \A d \in Backends : d # b => server'[d] = server[d]
        /\ \A n \in DOMAIN server'[b] :
             \/ n \in DOMAIN server[b] /\ server'[b][n] = server[b][n]
             \/ n = seq[c] + 1 /\ server'[b][n] = sql[c]
    BY <1>0, <2>1 DEF Shapes, With, AfterCloses
  <2> QED BY <1>3, <2>1, <2>3, <2>4
<1>5. ASSUME NEW c \in Clients, NEW b \in Backends, PrepareFails(c, b) PROVE Bounded'
  <2>1. /\ Miss(c) /\ pc' = [pc EXCEPT ![c] = "idle"] /\ byKey' = byKey
        /\ closed' = [closed EXCEPT ![c] = <<>>]
        /\ \/ server' = [server EXCEPT ![b] = AfterCloses(c, b)]
           \/ server' = [server EXCEPT ![b] = With(AfterCloses(c, b), seq[c] + 1, sql[c])]
        /\ \A d \in Clients : failed'[d] \subseteq failed[d] \cup {seq[c] + 1}
    BY <1>0, <1>5 DEF PrepareFails, Miss, NextName, Shapes
  <2>2. \A d \in Clients :
          /\ DOMAIN byKey'[d] \subseteq SQLs /\ Cached(d)' \subseteq Names
          /\ IsFiniteSet(DOMAIN byKey'[d])
          /\ Cardinality(DOMAIN byKey'[d]) <= Capacity
          /\ closed'[d] \in Seq(Names)
    BY <1>0, <2>1, EmptySeq DEF Bounded, TypeOK, Shapes, Cached
  <2>3. CASE server' = [server EXCEPT ![b] = AfterCloses(c, b)]
    BY <1>0, <1>3, <2>1, <2>2, <2>3 DEF Shapes, AfterCloses
  <2>4. CASE server' = [server EXCEPT ![b] = With(AfterCloses(c, b), seq[c] + 1, sql[c])]
    <3>1. /\ \A d \in Backends : d # b => server'[d] = server[d]
          /\ \A n \in DOMAIN server'[b] :
               \/ n \in DOMAIN server[b] /\ server'[b][n] = server[b][n]
               \/ n = seq[c] + 1 /\ server'[b][n] = sql[c]
      BY <1>0, <2>4 DEF Shapes, With, AfterCloses
    <3> QED BY <1>3, <2>1, <2>2, <3>1
  <2> QED BY <2>1, <2>3, <2>4
<1>6. ASSUME NEW c \in Clients, NEW b \in Backends, Execute(c, b) \/ StaleFails(c, b)
      PROVE  Bounded'
  <2>1. /\ UNCHANGED <<byKey, closed, seq, server, closeSent, failed, sql, fromCache, second>>
        /\ pc' = [pc EXCEPT ![c] = "idle"]
    BY <1>6 DEF Execute, StaleFails, cacheVars
  <2>2. ran' \in [Clients -> SQLs \cup {"none"}]
    BY <1>0, <1>6 DEF Execute, StaleFails, Bounded, TypeOK
  <2>3. pc' \in [Clients -> {"idle", "get", "bind"}]
    BY <1>0, <2>1 DEF TypeOK
  <2> QED BY <1>0, <2>1, <2>2, <2>3 DEF Bounded, TypeOK, Cached
<1>7. ASSUME NEW c \in Clients, NEW b \in Backends, StaleRetry(c, b) PROVE Bounded'
  <2>1. /\ UNCHANGED <<seq, server, closeSent, failed, sql, fromCache, ran>>
        /\ pc' = [pc EXCEPT ![c] = "get"] /\ second' = [second EXCEPT ![c] = TRUE]
        /\ byKey' = [byKey EXCEPT ![c] = Without(@, sql[c])]
        /\ closed' = IF sql[c] \in DOMAIN byKey[c]
                     THEN [closed EXCEPT ![c] = Append(@, byKey[c][sql[c]])]
                     ELSE closed
    BY <1>7 DEF StaleRetry, Invalidate
  <2>2. /\ DOMAIN byKey'[c] = DOMAIN byKey[c] \ {sql[c]}
        /\ \A r \in DOMAIN byKey'[c] : byKey'[c][r] = byKey[c][r]
        /\ \A d \in Clients : d # c => byKey'[d] = byKey[d]
    BY <1>0, <2>1 DEF Shapes, Without
  <2>3. \A d \in Clients : DOMAIN byKey'[d] \subseteq SQLs /\ Cached(d)' \subseteq Names
    BY <1>0, <2>2 DEF TypeOK, Cached
  <2>4. \A d \in Clients : IsFiniteSet(DOMAIN byKey'[d])
                           /\ Cardinality(DOMAIN byKey'[d]) <= Capacity
    <3>1. IsFiniteSet(DOMAIN byKey[c]) /\ Cardinality(DOMAIN byKey[c]) \in Nat
          /\ Cardinality(DOMAIN byKey[c]) <= Capacity
      BY FS_CardinalityType DEF Bounded, TypeOK
    <3>2. IsFiniteSet(DOMAIN byKey'[c]) /\ Cardinality(DOMAIN byKey'[c]) <= Capacity
      <4> DEFINE D == DOMAIN byKey[c] \ {sql[c]}
      <4>1. D \in SUBSET (DOMAIN byKey[c])
        OBVIOUS
      <4>2. /\ IsFiniteSet(D) /\ Cardinality(D) \in Nat
            /\ Cardinality(D) <= Cardinality(DOMAIN byKey[c])
        BY <3>1, <4>1, FS_Subset, FS_CardinalityType
      <4> HIDE DEF D
      <4>3. DOMAIN byKey'[c] = D
        BY <2>2 DEF D
      <4> QED BY <3>1, <4>2, <4>3
    <3> QED BY <2>2, <3>2 DEF Bounded, TypeOK
  <2>5. \A d \in Clients : closed'[d] \in Seq(Names)
    <3>1. CASE sql[c] \notin DOMAIN byKey[c]
      BY <2>1, <3>1 DEF Bounded
    <3>2. CASE sql[c] \in DOMAIN byKey[c]
      <4>1. byKey[c][sql[c]] \in Names /\ closed[c] \in Seq(Names)
        BY <1>0, <3>2 DEF Bounded, TypeOK, Cached
      <4>2. Append(closed[c], byKey[c][sql[c]]) \in Seq(Names)
        BY <4>1, AppendFacts
      <4> QED BY <1>0, <2>1, <3>2, <4>2 DEF Bounded, Shapes
    <3> QED BY <3>1, <3>2
  <2>6. \A d \in Clients : ToSet(closed'[d]) \subseteq Names
    BY <2>5, ToSetDef
  <2>7. pc' \in [Clients -> {"idle", "get", "bind"}]
    BY <1>0, <2>1 DEF TypeOK
  <2>8. second' \in [Clients -> BOOLEAN]
    BY <1>0, <2>1 DEF TypeOK
  <2>9. TypeOK'
    BY <1>0, <2>1, <2>3, <2>4, <2>6, <2>7, <2>8 DEF TypeOK
  <2> QED BY <1>0, <2>1, <2>4, <2>5, <2>9 DEF Bounded
<1> QED BY <1>1, <1>2, <1>4, <1>5, <1>6, <1>7 DEF Next

(* Every reachable state of the caches has its types; above all no cache grows *)
(* past its capacity, although put takes the pending Closes and the new entry  *)
(* in one step, and no backend ever knows a name the counter has not reached.  *)
THEOREM CacheTypes == Spec => []TypeOK
<1>1. Init => Bounded
  <2> SUFFICES ASSUME Init PROVE Bounded
    OBVIOUS
  <2>1. Shapes
    BY DEF Init, Shapes
  <2>2. \A c \in Clients : /\ closed[c] = <<>> /\ DOMAIN byKey[c] = {}
                           /\ closeSent[c] = {} /\ failed[c] = {}
    BY DEF Init, Empty
  <2>3. \A c \in Clients :
          /\ ToSet(closed[c]) = {} /\ closed[c] \in Seq(Names) /\ Cached(c) = {}
          /\ IsFiniteSet(DOMAIN byKey[c]) /\ Cardinality(DOMAIN byKey[c]) <= Capacity
    <3>1. /\ ToSet(<<>>) = {} /\ <<>> \in Seq(Names)
          /\ IsFiniteSet({}) /\ Cardinality({}) <= Capacity
      BY EmptyFacts, EmptySeq, FS_EmptySet, StmtCacheAssumption
    <3>2. \A c \in Clients : Cached(c) = {}
      BY <2>2 DEF Cached
    <3> QED BY <2>2, <3>1, <3>2
  <2>4. \A b \in Backends : DOMAIN server[b] = {}
    BY DEF Init, Empty
  <2>5. /\ seq \in [Clients -> 0..MaxSeq] /\ pc \in [Clients -> {"idle", "get", "bind"}]
        /\ sql \in [Clients -> SQLs] /\ ran \in [Clients -> SQLs \cup {"none"}]
    BY StmtCacheAssumption DEF Init
  <2>6. fromCache \in [Clients -> BOOLEAN] /\ second \in [Clients -> BOOLEAN]
    BY DEF Init
  <2> QED BY <2>1, <2>2, <2>3, <2>4, <2>5, <2>6 DEF Bounded, TypeOK
<1>2. Bounded /\ [Next]_vars => Bounded'
  BY BoundedStep
<1>3. Bounded => TypeOK
  BY DEF Bounded
<1> QED BY <1>1, <1>2, <1>3, PTL DEF Spec

=============================================================================
