------------------------- MODULE SystemBuilder_proofs -------------------------
(***************************************************************************)
(* What system_build (system/builder/system_builder.c) makes of a          *)
(* configuration, for every configuration, device registry and limit: only *)
(* what makes sense is built, and then each name leads where it should.    *)
(***************************************************************************)
EXTENDS SystemBuilder, SequenceTheorems, FiniteSetTheorems, WellFoundedInduction,
        TLAPS

Phases == {"check", "create", "bind", "proc", "hmi", "io", "stores", "views",
           "run", "unbound", "failed"}
\* The backends are complete; the table is.
Filled == {"stores", "views", "run", "unbound"}
Backed == {"proc", "hmi", "io"} \cup Filled

VarCount == Len(config.vars)
HmiCount == Len(config.hmi)

\* Where the loops of system_build are.
Loops ==
    /\ phase \in Phases /\ i \in Nat /\ j \in Nat
    /\ phase \in {"create", "bind"} => i \in 1 .. Len(config.backends)
    /\ phase = "bind" => j \in 1 .. Len(config.devices) + 1
    /\ phase = "proc" => i \in 1 .. VarCount + 1
    /\ phase = "hmi" => i \in 1 .. HmiCount + 1
    /\ phase = "io" => /\ i \in 1 .. Len(config.devices) + 1
                       /\ i <= Len(config.devices) => j \in 1 .. Len(TagsOf(i)) + 1

\* What the first checks have found.
Checked ==
    phase \notin {"check", "failed"} =>
        /\ Len(config.backends) \in 1 .. MaxBackends /\ config.devices # <<>>
        /\ \A d \in DOMAIN config.devices :
              /\ \E b \in DOMAIN config.backends :
                    config.backends[b].name = config.devices[d].backend
              /\ config.devices[d].model \in Models

\* How many members a set has up to n.
Rank(S, n) == Cardinality(S \cap (1 .. n))

\* The devices of the b-th backend, and those of them that it has bound: in
\* their order, each at a place of its own.
Mine(b) == {d \in DOMAIN config.devices :
                config.devices[d].backend = config.backends[b].name}
Reached(b) == IF phase = "bind" /\ b = i THEN j - 1 ELSE Len(config.devices)
Bound(b) ==
    /\ config.backends[b].type = "ethercat"
    /\ Len(backends[b]) = Rank(Mine(b), Reached(b))
    /\ \A k \in 1 .. Len(backends[b]) :
          backends[b][k] \in Mine(b) /\ backends[b][k] <= Reached(b)
    /\ \A d \in Mine(b) : d <= Reached(b) =>
          /\ backends[b][Rank(Mine(b), d)] = d
          /\ config.devices[d].position \in 1 .. SlaveCount
          /\ \A e \in Mine(b) : e <= Reached(b) /\ d # e =>
                config.devices[d].position # config.devices[e].position

BackendsBound ==
    /\ backends \in Seq(Seq(Nat))
    /\ phase \in {"check", "failed"} => backends = <<>>
    /\ phase = "create" => Len(backends) = i - 1
    /\ phase = "bind" => Len(backends) = i
    /\ phase \in Backed => Len(backends) = Len(config.backends)
    /\ \A b \in 1 .. Len(backends) : Bound(b)

\* How many variables and how many HMI tags are in the table, and how many of
\* the input and output tags of a device.
VarsAdded == IF phase \in {"check", "create", "bind"} THEN 0
             ELSE IF phase = "proc" THEN i - 1 ELSE VarCount
HmiAdded == IF phase \in {"check", "create", "bind", "proc"} THEN 0
            ELSE IF phase = "hmi" THEN i - 1 ELSE HmiCount
IoAdded(d) == IF phase \in Filled \/ (phase = "io" /\ d < i) THEN Len(TagsOf(d))
              ELSE IF phase = "io" /\ d = i THEN j - 1 ELSE 0

ProcName(k) == <<"proc", config.vars[k].name>>
HmiName(k) == <<"hmi", config.hmi[k].name>>
IoName(d, m) == <<config.devices[d].name, TagsOf(d)[m].name>>

\* HMI variables, without the aliases.
HmiVars == {k \in DOMAIN config.hmi : config.hmi[k].kind = "var"}

ProcEntry(k) == table[k] = [name |-> ProcName(k), kind |-> "proc",
                            type |-> config.vars[k].type, index |-> k]
HmiVarEntry(k) ==
    /\ config.hmi[k].kind = "var"
    /\ table[VarCount + k] =
          [name |-> HmiName(k), kind |-> "var", type |-> config.hmi[k].type,
           index |-> Rank(HmiVars, k), access |-> config.hmi[k].access]
AliasEntry(k) ==
    /\ config.hmi[k].kind = "alias"
    /\ \E target \in 1 .. VarCount + k - 1 :
          /\ table[target].name = config.hmi[k].target
          /\ table[VarCount + k] =
                [name |-> HmiName(k), kind |-> "alias",
                 type |-> table[target].type, target |-> target,
                 access |-> config.hmi[k].access]
IoEntry(k, d, m) ==
    /\ ValidTag(TagsOf(d)[m], config.devices[d].model)
    /\ table[k] = [name |-> IoName(d, m), kind |-> "io",
                   type |-> TagsOf(d)[m].type, backend |-> BackendIndex(d),
                   device |-> DeviceIndex(d), dir |-> TagsOf(d)[m].dir,
                   offset |-> TagsOf(d)[m].offset, bit |-> TagsOf(d)[m].bit]

\* The table has an entry for each of them, in that order, and no name twice.
Added == VarsAdded + HmiAdded
TableFilled ==
    /\ table \in Seq(Range(table)) /\ Len(table) <= MaxTags /\ Added <= Len(table)
    /\ \A k \in 1 .. VarsAdded : ProcEntry(k)
    /\ \A k \in 1 .. HmiAdded : HmiVarEntry(k) \/ AliasEntry(k)
    /\ \A k \in 1 .. Len(table) : k > Added =>
          \E d \in DOMAIN config.devices : \E m \in 1 .. IoAdded(d) : IoEntry(k, d, m)
    /\ \A d \in DOMAIN config.devices : \A m \in 1 .. IoAdded(d) :
          \E k \in 1 .. Len(table) : k > Added /\ IoEntry(k, d, m)
    /\ \A k, m \in 1 .. Len(table) : table[k].name = table[m].name => k = m

\* Input and output tags whose names are the same are the same.
IoTagsDiffer ==
    \A d, e \in DOMAIN config.devices :
        \A k \in 1 .. IoAdded(d), m \in 1 .. IoAdded(e) :
            IoName(d, k) = IoName(e, m) => d = e /\ k = m

\* The stores have a value for each variable.
StoresFilled ==
    /\ proc_store = [types |-> proc_store.types, count |-> proc_store.count]
    /\ hmi_store = [types |-> hmi_store.types, count |-> hmi_store.count]
    /\ proc_store.types \in Seq(Range(proc_store.types))
    /\ hmi_store.types \in Seq(Range(hmi_store.types))
    /\ Len(proc_store.types) = VarsAdded
    /\ phase \in {"hmi", "io"} \cup Filled => /\ VarCount <= MaxVars
                                              /\ proc_store.count = VarCount
    /\ \A k \in 1 .. VarsAdded : proc_store.types[k] = config.vars[k].type
    /\ Len(hmi_store.types) = Rank(HmiVars, HmiAdded)
    /\ Len(hmi_store.types) <= MaxVars
    /\ \A k \in HmiVars : k <= HmiAdded =>
          hmi_store.types[Rank(HmiVars, k)] = config.hmi[k].type
    /\ phase \in {"io"} \cup Filled => hmi_store.count = Len(hmi_store.types)

\* Until a client writes, and after a factory reset, each has its initial value.
ValuesSet ==
    /\ values.proc \in Seq(Range(values.proc)) /\ values.var \in Seq(Range(values.var))
    /\ values = [proc |-> values.proc, var |-> values.var]
    /\ Len(values.proc) = VarsAdded /\ Len(values.var) = Rank(HmiVars, HmiAdded)
    /\ phase \notin {"run", "unbound"} => request = NoRequest
    /\ phase \in {"views", "run", "unbound"} /\ request = NoRequest =>
          /\ \A k \in DOMAIN config.vars : values.proc[k] = config.vars[k].initial
          /\ \A k \in HmiVars :
                values.var[Rank(HmiVars, k)] = config.hmi[k].initial

\* What failed, failed for a reason.
Blamed == phase = "failed" /\ Sound => broken

BuildInv ==
    /\ config \in Configs /\ Loops /\ Checked /\ BackendsBound /\ Blamed
    /\ phase # "failed" =>
          TableFilled /\ IoTagsDiffer /\ StoresFilled /\ ValuesSet

\* Variables and HMI tags come first in the table, as in AllNames.
Entries == VarCount + HmiCount

\* Where the k-th of them leads: after n aliases, to the variable at b.
Leads(k, b, n) ==
    /\ b \in 1 .. k /\ table[b].kind # "alias" /\ table[b].type = table[k].type
    /\ n \in Nat /\ IsFiniteSet(Chain(AllNames[k]))
    /\ Cardinality(Chain(AllNames[k])) = n + 1
    /\ Chain(AllNames[k]) \subseteq {AllNames[m] : m \in 1 .. k}
    /\ AllNames[b] \in Chain(AllNames[k])
    /\ \A m \in 1 .. k :
          AllNames[m] \in Chain(AllNames[k]) /\ table[m].kind # "alias" => m = b
    /\ \A depth \in 0 .. MaxHops + 1, for_write \in BOOLEAN :
          Resolve(for_write)[depth][k] =
              IF depth + n <= MaxHops /\
                 (for_write => \A m \in 1 .. k :
                                   AllNames[m] \in Chain(AllNames[k]) => ~Denied(m))
              THEN b ELSE 0
-----------------------------------------------------------------------------
(* Numbers, counting and sequences. *)

\* Some number in a set of numbers is the least.
LEMMA Least ==
    ASSUME NEW S, S \subseteq Nat, S # {}
    PROVE  \E n \in S : \A m \in S : n <= m
<1> DEFINE R == OpToRel(<, Nat)
<1>1. IsWellFoundedOn(R, Nat)
  BY NatLessThanWellFounded
<1>2. PICK n \in S : \A m \in S : ~(<<m, n>> \in R)
  <2> HIDE DEF R
  <2> QED BY <1>1, WFMin
<1>3. \A m \in S : ~(m < n)
  BY <1>2 DEF OpToRel
<1> QED BY <1>3

LEMMA Sizes ==
    /\ SlaveCount \in Nat /\ MaxBackends \in Nat /\ MaxTags \in Nat
    /\ MaxVars \in Nat /\ MaxHops \in Nat
  BY LimitAssumption

\* One more at the end.
LEMMA AppendFacts ==
    ASSUME NEW s, NEW e, s \in Seq(Range(s))
    PROVE  /\ Append(s, e) \in Seq(Range(Append(s, e)))
           /\ Len(s) \in Nat /\ Len(Append(s, e)) = Len(s) + 1
           /\ \A k \in 1 .. Len(s) : Append(s, e)[k] = s[k]
           /\ Append(s, e)[Len(s) + 1] = e
<1> DEFINE S == Range(s) \cup {e}
           t == Append(s, e)
<1>1. s \in Seq(S) /\ e \in S
  BY SeqMonotonic
<1>2. /\ t \in Seq(S) /\ Len(s) \in Nat /\ Len(t) = Len(s) + 1
      /\ \A k \in 1 .. Len(s) : t[k] = s[k]
      /\ t[Len(s) + 1] = e
  <2> HIDE DEF S
  <2> QED BY <1>1, AppendProperties
<1>3. t \in Seq(Range(t))
  <2> HIDE DEF t, S
  <2>1. t \in [1 .. Len(t) -> Range(t)] /\ Len(t) \in Nat
    BY <1>2 DEF Range
  <2> QED BY <2>1
<1> QED BY <1>2, <1>3

\* Counting the members of a set up to a number.
LEMMA Ranks ==
    ASSUME NEW S, NEW n \in Nat
    PROVE  /\ IsFiniteSet(S \cap (1 .. n)) /\ Rank(S, n) \in Nat
           /\ Rank(S, 0) = 0
           /\ Rank(S, n + 1) = IF n + 1 \in S THEN Rank(S, n) + 1 ELSE Rank(S, n)
<1>1. IsFiniteSet(S \cap (1 .. n))
  <2>1. IsFiniteSet(1 .. n) /\ S \cap (1 .. n) \in SUBSET (1 .. n)
    BY FS_Interval
  <2> QED BY <2>1, FS_Subset
<1>2. Rank(S, n) \in Nat
  BY <1>1, FS_CardinalityType DEF Rank
<1>3. Rank(S, 0) = 0
  <2>1. S \cap (1 .. 0) = {}
    OBVIOUS
  <2> QED BY <2>1, FS_EmptySet DEF Rank
<1>4. Rank(S, n + 1) = IF n + 1 \in S THEN Rank(S, n) + 1 ELSE Rank(S, n)
  <2>1. CASE n + 1 \in S
    <3>1. S \cap (1 .. n + 1) = (S \cap (1 .. n)) \cup {n + 1}
      BY <2>1
    <3>2. n + 1 \notin S \cap (1 .. n)
      OBVIOUS
    <3> QED BY <1>1, <2>1, <3>1, <3>2, FS_AddElement DEF Rank
  <2>2. CASE n + 1 \notin S
    <3>1. S \cap (1 .. n + 1) = S \cap (1 .. n)
      BY <2>2
    <3> QED BY <2>2, <3>1 DEF Rank
  <2> QED BY <2>1, <2>2
<1> QED BY <1>1, <1>2, <1>3, <1>4

LEMMA RanksGrow ==
    ASSUME NEW S, NEW m \in Nat, NEW n \in Nat, m <= n
    PROVE  /\ Rank(S, m) <= Rank(S, n) /\ Rank(S, n) <= n
           /\ m < n /\ n \in S => Rank(S, m) < Rank(S, n)
<1>1. /\ IsFiniteSet(S \cap (1 .. n)) /\ IsFiniteSet(1 .. n) /\ Rank(S, m) \in Nat
      /\ Rank(S, n) \in Nat /\ Cardinality(1 .. n) = n
  <2>1. IsFiniteSet(1 .. n) /\ Cardinality(1 .. n) = n
    BY FS_Interval
  <2> QED BY <2>1, Ranks
<1>2. S \cap (1 .. m) \in SUBSET (S \cap (1 .. n))
  OBVIOUS
<1>3. Rank(S, m) <= Rank(S, n) /\ (Rank(S, m) = Rank(S, n) =>
                                       S \cap (1 .. m) = S \cap (1 .. n))
  BY <1>1, <1>2, FS_Subset DEF Rank
<1>4. Rank(S, n) <= n
  <2>1. S \cap (1 .. n) \in SUBSET (1 .. n)
    OBVIOUS
  <2> QED BY <1>1, <2>1, FS_Subset DEF Rank
<1>5. ASSUME m < n, n \in S PROVE Rank(S, m) < Rank(S, n)
  <2>1. n \in S \cap (1 .. n) /\ n \notin S \cap (1 .. m)
    BY <1>5
  <2> QED BY <1>1, <1>3, <2>1
<1> QED BY <1>3, <1>4, <1>5

\* A member's rank is its own.
LEMMA RanksDiffer ==
    ASSUME NEW S, NEW m \in S, NEW n \in S, m \in Nat \ {0}, n \in Nat \ {0}
    PROVE  /\ Rank(S, m) \in Nat \ {0}
           /\ m < n => Rank(S, m) < Rank(S, n)
           /\ Rank(S, m) = Rank(S, n) => m = n
<1>1. Rank(S, m) \in Nat /\ Rank(S, n) \in Nat /\ Rank(S, 0) = 0
  BY Ranks
<1>2. Rank(S, 0) < Rank(S, m)
  BY RanksGrow
<1>3. m < n => Rank(S, m) < Rank(S, n)
  BY RanksGrow
<1>4. n < m => Rank(S, n) < Rank(S, m)
  BY RanksGrow
<1> QED BY <1>1, <1>2, <1>3, <1>4

\* tag_table_find_id: an entry of the name, if there is one.
LEMMA Finding ==
    ASSUME NEW name, Len(table) \in Nat, table \in Seq(Range(table))
    PROVE  /\ FindId(name) \in 0 .. Len(table)
           /\ FindId(name) # 0 => table[FindId(name)].name = name
           /\ FindId(name) = 0 => \A k \in 1 .. Len(table) : table[k].name # name
<1>1. DOMAIN table = 1 .. Len(table)
  BY LenProperties
<1>2. CASE \E k \in DOMAIN table : table[k].name = name
  <2>1. /\ FindId(name) \in DOMAIN table
        /\ table[FindId(name)].name = name
    BY <1>2 DEF FindId, FindIn
  <2> QED BY <1>1, <2>1
<1>3. CASE ~ \E k \in DOMAIN table : table[k].name = name
  <2>1. FindId(name) = 0
    BY <1>3 DEF FindId, FindIn
  <2> QED BY <1>1, <1>3, <2>1
<1> QED BY <1>2, <1>3
-----------------------------------------------------------------------------
(* The tables of a configuration do not change. *)

\* How long they are.
LEMMA Tables ==
    ASSUME config \in Configs
    PROVE  /\ Len(config.backends) \in Nat
           /\ DOMAIN config.backends = 1 .. Len(config.backends)
           /\ Len(config.devices) \in Nat
           /\ DOMAIN config.devices = 1 .. Len(config.devices)
           /\ VarCount \in Nat /\ DOMAIN config.vars = 1 .. VarCount
           /\ HmiCount \in Nat /\ DOMAIN config.hmi = 1 .. HmiCount
<1>1. ASSUME NEW t \in {config.backends, config.devices, config.vars, config.hmi}
      PROVE  Len(t) \in Nat /\ DOMAIN t = 1 .. Len(t)
  <2>1. t \in Seq(Range(t))
    BY TableAssumption
  <2> QED BY <2>1, LenProperties
<1> QED BY <1>1 DEF VarCount, HmiCount

LEMMA TagTables ==
    ASSUME config \in Configs, NEW d \in DOMAIN config.devices,
           config.devices[d].model \in Models
    PROVE  Len(TagsOf(d)) \in Nat /\ DOMAIN TagsOf(d) = 1 .. Len(TagsOf(d))
<1>1. TagsOf(d) \in Seq(Range(TagsOf(d)))
  BY TableAssumption DEF TagsOf
<1> QED BY <1>1, LenProperties

\* What is said of the configuration alone stays.
LEMMA Same ==
    ASSUME config' = config
    PROVE  /\ VarCount' = VarCount /\ HmiCount' = HmiCount
           /\ HmiVars' = HmiVars /\ Names' = Names /\ IoNames' = IoNames
           /\ AllNames' = AllNames
           /\ \A k : ProcName(k)' = ProcName(k) /\ HmiName(k)' = HmiName(k)
           /\ \A b : Mine(b)' = Mine(b)
           /\ \A d : /\ TagsOf(d)' = TagsOf(d) /\ BackendIndex(d)' = BackendIndex(d)
                     /\ DeviceIndex(d)' = DeviceIndex(d)
           /\ \A d, m : IoName(d, m)' = IoName(d, m)
  BY DEF VarCount, HmiCount, HmiVars, Names, IoNames, AllNames, ProcName, HmiName, Mine, TagsOf,
     BackendIndex, DeviceIndex, IoName

LEMMA SameSense ==
    ASSUME config' = config
    PROVE  Sound' <=> Sound
<1>1. Limits' <=> Limits
  BY Same DEF Limits
<1>2. UniqueNames' <=> UniqueNames
  BY Same DEF UniqueNames
<1>3. OneDevicePerPosition' <=> OneDevicePerPosition
  BY DEF OneDevicePerPosition
<1>4. AliasesLookBack' <=> AliasesLookBack
  BY DEF AliasesLookBack
<1> QED BY <1>1, <1>2, <1>3, <1>4 DEF Sound
-----------------------------------------------------------------------------
(* How the table grows. *)

LEMMA TableTypes ==
    ASSUME table \in Seq(Range(table))
    PROVE  Len(table) \in Nat /\ DOMAIN table = 1 .. Len(table)
  BY LenProperties

\* What an entry is does not change.
LEMMA EntriesKept ==
    ASSUME config \in Configs, config' = config,
           Len(table) \in Nat, Len(table') \in Nat, Len(table') >= Len(table),
           \A k \in 1 .. Len(table) : table'[k] = table[k]
    PROVE  /\ \A k \in 1 .. Len(table) : ProcEntry(k) => ProcEntry(k)'
           /\ \A k \in Nat \ {0} : VarCount + k <= Len(table) =>
                 /\ HmiVarEntry(k) => HmiVarEntry(k)'
                 /\ AliasEntry(k) => AliasEntry(k)'
           /\ \A k \in 1 .. Len(table) : \A d, m :
                 IoEntry(k, d, m) => IoEntry(k, d, m)'
<1>1. ASSUME NEW k \in 1 .. Len(table), ProcEntry(k) PROVE ProcEntry(k)'
  BY <1>1, Same DEF ProcEntry
<1>2. ASSUME NEW k \in Nat \ {0}, VarCount + k <= Len(table)
      PROVE  /\ HmiVarEntry(k) => HmiVarEntry(k)'
             /\ AliasEntry(k) => AliasEntry(k)'
  <2>1. /\ VarCount + k \in 1 .. Len(table)
        /\ \A target \in 1 .. VarCount + k - 1 : target \in 1 .. Len(table)
    BY <1>2, Tables
  <2>2. HmiVarEntry(k) => HmiVarEntry(k)'
    BY <2>1, Same DEF HmiVarEntry
  <2>3. ASSUME AliasEntry(k) PROVE AliasEntry(k)'
    <3>1. PICK target \in 1 .. VarCount + k - 1 :
              /\ table[target].name = config.hmi[k].target
              /\ table[VarCount + k] =
                    [name |-> HmiName(k), kind |-> "alias",
                     type |-> table[target].type, target |-> target,
                     access |-> config.hmi[k].access]
      BY <2>3 DEF AliasEntry
    <3>2. table'[target] = table[target]
      BY <2>1
    <3>3. HmiName(k)' = HmiName(k)
      BY Same
    <3>4. VarCount' = VarCount /\ table'[VarCount + k] = table[VarCount + k]
      BY <2>1, Same
    <3> QED BY <2>3, <3>1, <3>2, <3>3, <3>4 DEF AliasEntry
  <2> QED BY <2>2, <2>3
<1>3. ASSUME NEW k \in 1 .. Len(table), NEW d, NEW m, IoEntry(k, d, m)
      PROVE  IoEntry(k, d, m)'
  <2>1. /\ TagsOf(d)' = TagsOf(d) /\ BackendIndex(d)' = BackendIndex(d)
        /\ DeviceIndex(d)' = DeviceIndex(d) /\ IoName(d, m)' = IoName(d, m)
    BY Same
  <2>2. ValidTag(TagsOf(d)[m], config.devices[d].model)'
    BY <1>3, <2>1 DEF IoEntry
  <2> QED BY <1>3, <2>1, <2>2 DEF IoEntry
<1> QED BY <1>1, <1>2, <1>3

\* How much has been added fits the tables it comes from.
LEMMA AddedFacts ==
    ASSUME config \in Configs, Loops, Checked, phase # "failed"
    PROVE  /\ VarsAdded \in 0 .. VarCount /\ HmiAdded \in 0 .. HmiCount
           /\ VarsAdded = VarCount \/ HmiAdded = 0
           /\ Added = VarsAdded + HmiAdded /\ Added \in Nat
           /\ \A d \in DOMAIN config.devices : IoAdded(d) \in Nat
           /\ phase \in {"io"} \cup Filled => \A d \in DOMAIN config.devices :
                  /\ DOMAIN TagsOf(d) = 1 .. Len(TagsOf(d)) /\ Len(TagsOf(d)) \in Nat
                  /\ IoAdded(d) <= Len(TagsOf(d))
<1>1. /\ VarsAdded \in 0 .. VarCount /\ HmiAdded \in 0 .. HmiCount
      /\ VarsAdded = VarCount \/ HmiAdded = 0
  BY Tables DEF Loops, Phases, VarsAdded, HmiAdded
<1>2. Added = VarsAdded + HmiAdded /\ Added \in Nat
  BY <1>1 DEF Added
<1>3. ASSUME NEW d \in DOMAIN config.devices, phase \notin {"io"} \cup Filled
      PROVE  IoAdded(d) \in Nat
  BY <1>3 DEF IoAdded
<1>4. ASSUME NEW d \in DOMAIN config.devices, phase \in {"io"} \cup Filled
      PROVE  /\ DOMAIN TagsOf(d) = 1 .. Len(TagsOf(d)) /\ Len(TagsOf(d)) \in Nat
             /\ IoAdded(d) \in Nat /\ IoAdded(d) <= Len(TagsOf(d))
  <2>1. DOMAIN TagsOf(d) = 1 .. Len(TagsOf(d)) /\ Len(TagsOf(d)) \in Nat
    BY <1>4, TagTables DEF Checked, Filled
  <2>2. d \in 1 .. Len(config.devices) /\ Len(config.devices) \in Nat
    BY Tables
  <2> QED BY <2>1, <2>2 DEF Loops, IoAdded
<1> QED BY <1>1, <1>2, <1>3, <1>4

\* Steps that leave the table and what is in it.
LEMMA TableStays ==
    ASSUME config \in Configs, Loops, Checked, phase # "failed",
           TableFilled, IoTagsDiffer,
           UNCHANGED <<config, table, VarsAdded, HmiAdded>>,
           \A d \in DOMAIN config.devices : IoAdded(d)' = IoAdded(d)
    PROVE  TableFilled' /\ IoTagsDiffer'
<1>1. /\ Len(table) \in Nat /\ Added' = Added /\ Added <= Len(table)
      /\ VarsAdded \in Nat /\ HmiAdded \in Nat
      /\ VarsAdded = VarCount \/ HmiAdded = 0
      /\ Added = VarsAdded + HmiAdded
  BY TableTypes, AddedFacts, Tables DEF TableFilled, Added
<1>2. /\ \A k \in 1 .. Len(table) : ProcEntry(k) => ProcEntry(k)'
      /\ \A k \in Nat \ {0} : VarCount + k <= Len(table) =>
            /\ HmiVarEntry(k) => HmiVarEntry(k)'
            /\ AliasEntry(k) => AliasEntry(k)'
      /\ \A k \in 1 .. Len(table) : \A d, m : IoEntry(k, d, m) => IoEntry(k, d, m)'
  BY <1>1, EntriesKept
<1>3. \A k \in 1 .. VarsAdded : ProcEntry(k)'
  BY <1>1, <1>2 DEF TableFilled
<1>4. ASSUME NEW k \in 1 .. HmiAdded PROVE HmiVarEntry(k)' \/ AliasEntry(k)'
  <2>1. HmiVarEntry(k) \/ AliasEntry(k)
    BY DEF TableFilled
  <2>2. k \in Nat \ {0} /\ VarCount + k <= Len(table)
    BY <1>1, Tables
  <2> QED BY <1>2, <2>1, <2>2
<1>5. \A k \in 1 .. Len(table) : k > Added =>
          \E d \in DOMAIN config.devices : \E m \in 1 .. IoAdded(d) : IoEntry(k, d, m)'
  BY <1>1, <1>2 DEF TableFilled
<1>6. \A d \in DOMAIN config.devices : \A m \in 1 .. IoAdded(d) :
          \E k \in 1 .. Len(table) : k > Added /\ IoEntry(k, d, m)'
  BY <1>1, <1>2 DEF TableFilled
<1>7. TableFilled'
  BY <1>1, <1>3, <1>4, <1>5, <1>6 DEF TableFilled
<1>8. IoTagsDiffer'
  BY Same DEF IoTagsDiffer
<1> QED BY <1>7, <1>8

\* An entry of a new name at the end of the table.
LEMMA OneMoreEntry ==
    ASSUME config \in Configs, Loops, Checked, phase # "failed", TableFilled,
           config' = config, NEW e, table' = Append(table, e), Addable(e.name)
    PROVE  /\ table' \in Seq(Range(table')) /\ Len(table) \in Nat
           /\ Len(table') = Len(table) + 1 /\ Len(table') <= MaxTags
           /\ table'[Len(table) + 1] = e
           /\ \A k \in 1 .. Len(table) : table'[k] = table[k]
           /\ \A k, m \in 1 .. Len(table') : table'[k].name = table'[m].name => k = m
           /\ \A k \in 1 .. VarsAdded : ProcEntry(k)'
           /\ \A k \in 1 .. HmiAdded : HmiVarEntry(k)' \/ AliasEntry(k)'
           /\ \A k \in 1 .. Len(table) : k > Added =>
                 \E d \in DOMAIN config.devices : \E m \in 1 .. IoAdded(d) :
                     IoEntry(k, d, m)'
           /\ \A d \in DOMAIN config.devices : \A m \in 1 .. IoAdded(d) :
                 \E k \in 1 .. Len(table) : k > Added /\ IoEntry(k, d, m)'
<1>1. /\ Len(table) \in Nat /\ Added <= Len(table)
      /\ VarsAdded \in Nat /\ HmiAdded \in Nat
      /\ VarsAdded = VarCount \/ HmiAdded = 0
      /\ Added = VarsAdded + HmiAdded
  BY TableTypes, AddedFacts, Tables DEF TableFilled
<1>2. /\ table' \in Seq(Range(table')) /\ Len(table') = Len(table) + 1
      /\ table'[Len(table) + 1] = e
      /\ \A k \in 1 .. Len(table) : table'[k] = table[k]
  BY AppendFacts DEF TableFilled
<1>3. Len(table') <= MaxTags
  BY <1>1, <1>2, Sizes DEF Addable
<1>4. \A k \in 1 .. Len(table) : table[k].name # e.name
  BY <1>1, Finding DEF Addable, TableFilled
<1>5. ASSUME NEW k \in 1 .. Len(table'), NEW m \in 1 .. Len(table'),
             table'[k].name = table'[m].name
      PROVE  k = m
  <2>1. CASE k = Len(table) + 1 /\ m # Len(table) + 1
    BY <1>1, <1>2, <1>4, <1>5, <2>1
  <2>2. CASE k # Len(table) + 1 /\ m = Len(table) + 1
    BY <1>1, <1>2, <1>4, <1>5, <2>2
  <2>3. CASE k # Len(table) + 1 /\ m # Len(table) + 1
    BY <1>1, <1>2, <1>5, <2>3 DEF TableFilled
  <2> QED BY <2>1, <2>2, <2>3
<1>6. /\ \A k \in 1 .. Len(table) : ProcEntry(k) => ProcEntry(k)'
      /\ \A k \in Nat \ {0} : VarCount + k <= Len(table) =>
            /\ HmiVarEntry(k) => HmiVarEntry(k)'
            /\ AliasEntry(k) => AliasEntry(k)'
      /\ \A k \in 1 .. Len(table) : \A d, m : IoEntry(k, d, m) => IoEntry(k, d, m)'
  BY <1>1, <1>2, EntriesKept
<1>7. \A k \in 1 .. VarsAdded : ProcEntry(k)'
  BY <1>1, <1>6 DEF TableFilled
<1>8. \A k \in 1 .. HmiAdded : HmiVarEntry(k)' \/ AliasEntry(k)'
  <2>1. SUFFICES ASSUME NEW k \in 1 .. HmiAdded
                 PROVE  HmiVarEntry(k)' \/ AliasEntry(k)'
    OBVIOUS
  <2>2. HmiVarEntry(k) \/ AliasEntry(k)
    BY DEF TableFilled
  <2>3. k \in Nat \ {0} /\ VarCount + k <= Len(table)
    BY <1>1, Tables
  <2> QED BY <1>6, <2>2, <2>3
<1>9. \A k \in 1 .. Len(table) : k > Added =>
          \E d \in DOMAIN config.devices : \E m \in 1 .. IoAdded(d) : IoEntry(k, d, m)'
  BY <1>1, <1>6 DEF TableFilled
<1>10. \A d \in DOMAIN config.devices : \A m \in 1 .. IoAdded(d) :
          \E k \in 1 .. Len(table) : k > Added /\ IoEntry(k, d, m)'
  BY <1>1, <1>6 DEF TableFilled
<1> QED BY <1>1, <1>2, <1>3, <1>5, <1>7, <1>8, <1>9, <1>10

\* Before the devices' tags are added, all entries are variables and HMI tags.
LEMMA NoIoYet ==
    ASSUME config \in Configs, Loops, Checked, TableFilled,
           phase \in {"check", "create", "bind", "proc", "hmi"}
    PROVE  /\ Len(table) = Added
           /\ \A d : IoAdded(d) = 0
<1>1. \A d : IoAdded(d) = 0
  BY DEF IoAdded, Filled
<1>2. Added \in Nat /\ Len(table) \in Nat /\ Added <= Len(table)
  BY AddedFacts, TableTypes DEF TableFilled
<1>3. ASSUME Added < Len(table) PROVE FALSE
  <2>1. Len(table) \in 1 .. Len(table) /\ Len(table) > Added
    BY <1>2, <1>3
  <2>2. PICK d \in DOMAIN config.devices : \E m \in 1 .. IoAdded(d) : TRUE
    BY <2>1 DEF TableFilled
  <2> QED BY <1>1, <2>2
<1> QED BY <1>1, <1>2, <1>3
-----------------------------------------------------------------------------
(* Steps that leave a part alone. *)

LEMMA CheckedStays ==
    ASSUME Checked, config' = config, phase \notin {"check", "failed"}
    PROVE  Checked'
  BY DEF Checked

LEMMA BoundStays ==
    ASSUME BackendsBound, UNCHANGED <<config, backends>>,
           phase \in Backed, phase' \in Backed
    PROVE  BackendsBound'
<1>1. ASSUME NEW b \in 1 .. Len(backends) PROVE Bound(b)'
  <2>1. Bound(b) /\ Mine(b)' = Mine(b) /\ Reached(b)' = Reached(b)
    BY Same DEF BackendsBound, Reached, Backed, Filled
  <2> QED BY <2>1 DEF Bound
<1> QED BY <1>1 DEF BackendsBound, Backed, Filled

LEMMA StoresStay ==
    ASSUME StoresFilled, UNCHANGED <<config, proc_store, hmi_store>>,
           UNCHANGED <<VarsAdded, HmiAdded>>,
           phase' \in {"hmi", "io"} \cup Filled => phase \in {"hmi", "io"} \cup Filled,
           phase' \in {"io"} \cup Filled => phase \in {"io"} \cup Filled
    PROVE  StoresFilled'
  BY Same DEF StoresFilled

LEMMA ValuesStay ==
    ASSUME ValuesSet, UNCHANGED <<config, values, VarsAdded, HmiAdded, request>>,
           phase \in {"run", "unbound"} => phase' \in {"run", "unbound"},
           phase' \in {"views", "run", "unbound"} => phase \in {"views", "run", "unbound"}
    PROVE  ValuesSet'
  BY Same DEF ValuesSet
-----------------------------------------------------------------------------
(* Names. *)

LEMMA NamesListed ==
    ASSUME config \in Configs
    PROVE  /\ DOMAIN AllNames = 1 .. VarCount + HmiCount
           /\ \A k \in 1 .. VarCount : AllNames[k] = ProcName(k)
           /\ \A k \in 1 .. HmiCount :
                 AllNames[VarCount + k] = HmiName(k)
<1> DEFINE procs == [k \in DOMAIN config.vars |-> <<"proc", config.vars[k].name>>]
           hmis == [k \in DOMAIN config.hmi |-> <<"hmi", config.hmi[k].name>>]
           S == Range(procs) \cup Range(hmis)
<1>1. procs \in [1 .. VarCount -> S] /\ hmis \in [1 .. HmiCount -> S]
  BY Tables DEF Range
<1>2. /\ \A k \in 1 .. VarCount : procs[k] = ProcName(k)
      /\ \A k \in 1 .. HmiCount : hmis[k] = HmiName(k)
  BY Tables DEF ProcName, HmiName
<1>3. AllNames = procs \o hmis
  BY DEF AllNames
<1>4. VarCount \in Nat /\ HmiCount \in Nat
  BY Tables
<1> HIDE DEF procs, hmis, S
<1>5. /\ procs \in Seq(S) /\ hmis \in Seq(S)
      /\ Len(procs) = VarCount /\ Len(hmis) = HmiCount
  BY <1>1, <1>4, SeqDef, LenProperties
<1>6. /\ AllNames \in Seq(S) /\ Len(AllNames) = VarCount + HmiCount
      /\ \A k \in 1 .. VarCount + HmiCount : AllNames[k] =
            IF k <= VarCount THEN procs[k] ELSE hmis[k - VarCount]
  BY <1>3, <1>5, ConcatProperties
<1>7. DOMAIN AllNames = 1 .. VarCount + HmiCount
  BY <1>6, LenProperties
<1>8. ASSUME NEW k \in 1 .. VarCount PROVE AllNames[k] = ProcName(k)
  <2>1. k \in 1 .. VarCount + HmiCount /\ k <= VarCount
    BY <1>4
  <2> QED BY <1>2, <1>6, <2>1
<1>9. ASSUME NEW k \in 1 .. HmiCount
      PROVE  AllNames[VarCount + k] = HmiName(k)
  <2>1. PICK n \in 1 .. VarCount + HmiCount :
            n = VarCount + k /\ ~(n <= VarCount) /\ n - VarCount = k
    BY <1>4
  <2>2. AllNames[n] = hmis[k]
    BY <1>6, <2>1
  <2> QED BY <1>2, <2>1, <2>2
<1> QED BY <1>7, <1>8, <1>9

\* The name of each entry, by its place in the table.
LEMMA EntryNames ==
    ASSUME config \in Configs, Loops, Checked, phase # "failed", TableFilled,
           NEW k \in 1 .. Len(table)
    PROVE  /\ k <= Added => /\ k \in 1 .. VarCount + HmiCount
                            /\ table[k].name = AllNames[k] /\ table[k].name \in Names
           /\ k > Added =>
                 \E d \in DOMAIN config.devices : \E m \in 1 .. IoAdded(d) :
                     table[k].name = IoName(d, m) /\ IoName(d, m) \in IoNames
<1>1. /\ VarsAdded \in 0 .. VarCount /\ HmiAdded \in 0 .. HmiCount
      /\ VarsAdded = VarCount \/ HmiAdded = 0
      /\ Added = VarsAdded + HmiAdded
      /\ VarCount \in Nat /\ HmiCount \in Nat /\ Len(table) \in Nat
      /\ DOMAIN config.vars = 1 .. VarCount
      /\ DOMAIN config.hmi = 1 .. HmiCount
  BY AddedFacts, Tables, TableTypes DEF TableFilled
<1>2. CASE k <= VarsAdded
  <2>1. /\ k \in Nat \ {0} /\ VarsAdded \in Nat /\ VarsAdded <= Added
        /\ VarsAdded <= VarCount /\ Added \in Nat /\ VarCount \in Nat /\ HmiCount \in Nat
    BY <1>1
  <2>2. /\ k \in 1 .. VarsAdded /\ k \in 1 .. VarCount /\ k <= Added
        /\ k \in 1 .. VarCount + HmiCount
    BY <1>2, <2>1
  <2>3. table[k].name = ProcName(k)
    <3>1. ProcEntry(k)
      BY <2>2 DEF TableFilled
    <3> QED BY <3>1 DEF ProcEntry
  <2>4. AllNames[k] = ProcName(k) /\ ProcName(k) \in Names
    BY <1>1, <2>2, NamesListed DEF ProcName, Names
  <2>5. ~(k > Added)
    BY <1>1, <2>2
  <2>6. table[k].name = AllNames[k] /\ table[k].name \in Names
    BY <2>3, <2>4
  <2> QED BY <2>2, <2>5, <2>6
<1>3. CASE VarsAdded < k /\ k <= Added
  <2>1. PICK m \in 1 .. HmiAdded : k = VarCount + m
    <3>1. k - VarCount \in 1 .. HmiAdded
          /\ k = VarCount + (k - VarCount)
      BY <1>1, <1>3
    <3> QED BY <3>1
  <2>2. m \in 1 .. HmiCount /\ k \in 1 .. VarCount + HmiCount
    BY <1>1, <2>1
  <2>3. HmiVarEntry(m) \/ AliasEntry(m)
    BY <2>1 DEF TableFilled
  <2>4. table[k].name = HmiName(m)
    <3>1. CASE HmiVarEntry(m)
      BY <2>1, <3>1 DEF HmiVarEntry
    <3>2. CASE AliasEntry(m)
      BY <2>1, <3>2 DEF AliasEntry
    <3> QED BY <2>3, <3>1, <3>2
  <2>5. AllNames[k] = HmiName(m) /\ HmiName(m) \in Names
    BY <1>1, <2>1, <2>2, NamesListed DEF HmiName, Names
  <2>6. ~(k > Added)
    BY <1>1, <1>3
  <2>7. table[k].name = AllNames[k] /\ table[k].name \in Names
    BY <2>4, <2>5
  <2> QED BY <2>2, <2>6, <2>7
<1>4. CASE k > Added
  <2> PICK d \in DOMAIN config.devices : \E m \in 1 .. IoAdded(d) : IoEntry(k, d, m)
    BY <1>4 DEF TableFilled
  <2>1. PICK m \in 1 .. IoAdded(d) : IoEntry(k, d, m)
    OBVIOUS
  <2>2. table[k].name = IoName(d, m)
    BY <2>1 DEF IoEntry
  <2>3. IoName(d, m) \in IoNames
    <3>1. m \in DOMAIN TagsOf(d)
      <4>1. phase \in {"io"} \cup Filled
        BY <1>1, <2>1 DEF IoAdded
      <4>2. /\ DOMAIN TagsOf(d) = 1 .. Len(TagsOf(d)) /\ Len(TagsOf(d)) \in Nat
            /\ IoAdded(d) <= Len(TagsOf(d)) /\ IoAdded(d) \in Nat
        BY <4>1, AddedFacts
      <4> QED BY <4>2
    <3>2. TagsOf(d)[m] \in Range(TagsOf(d))
      BY <3>1 DEF Range
    <3> QED BY <3>2 DEF IoNames, IoName, TagsOf
  <2>4. ~(k <= Added)
    BY <1>1, <1>4
  <2> QED BY <2>1, <2>2, <2>3, <2>4
<1> QED BY <1>1, <1>2, <1>3, <1>4

\* A name is not added twice, unless the configuration names two tags so.
LEMMA VarNameFree ==
    ASSUME config \in Configs, Loops, Checked, TableFilled, phase = "proc",
           i <= VarCount, UniqueNames
    PROVE  FindId(ProcName(i)) = 0
<1>1. /\ Len(table) \in Nat /\ i \in Nat \ {0} /\ Len(table) = i - 1
      /\ Len(table) = Added
  BY NoIoYet, TableTypes DEF Loops, TableFilled, Added, VarsAdded, HmiAdded
<1>2. VarCount \in Nat /\ HmiCount \in Nat
  BY Tables
<1>3. SUFFICES ASSUME NEW k \in 1 .. Len(table), table[k].name = ProcName(i)
               PROVE  FALSE
  BY <1>1, Finding DEF TableFilled
<1>4. AllNames[k] = ProcName(i)
  BY <1>1, <1>3, EntryNames
<1>5. AllNames[i] = ProcName(i)
  BY <1>1, <1>2, NamesListed
<1>6. k \in DOMAIN AllNames /\ i \in DOMAIN AllNames /\ k # i
  BY <1>1, <1>2, NamesListed
<1> QED BY <1>4, <1>5, <1>6 DEF UniqueNames, IsInjective

LEMMA HmiNameFree ==
    ASSUME config \in Configs, Loops, Checked, TableFilled, phase = "hmi",
           i <= HmiCount, UniqueNames
    PROVE  FindId(HmiName(i)) = 0
<1>1. VarCount \in Nat /\ HmiCount \in Nat
  BY Tables
<1>2. /\ Len(table) \in Nat /\ i \in Nat \ {0} /\ Len(table) = VarCount + i - 1
      /\ Len(table) = Added
  BY <1>1, NoIoYet, TableTypes DEF Loops, TableFilled, Added, VarsAdded, HmiAdded
<1>3. SUFFICES ASSUME NEW k \in 1 .. Len(table), table[k].name = HmiName(i)
               PROVE  FALSE
  BY <1>2, Finding DEF TableFilled
<1>4. AllNames[k] = HmiName(i)
  BY <1>2, <1>3, EntryNames
<1>5. AllNames[VarCount + i] = HmiName(i)
  BY <1>1, <1>2, NamesListed
<1>6. /\ k \in DOMAIN AllNames /\ VarCount + i \in DOMAIN AllNames
      /\ k # VarCount + i
  BY <1>1, <1>2, NamesListed
<1> QED BY <1>4, <1>5, <1>6 DEF UniqueNames, IsInjective

LEMMA IoNameFree ==
    ASSUME config \in Configs, Loops, Checked, TableFilled, phase = "io",
           i <= Len(config.devices), j <= Len(TagsOf(i)), UniqueNames
    PROVE  FindId(IoName(i, j)) = 0
<1>1. Len(config.devices) \in Nat /\ DOMAIN config.devices = 1 .. Len(config.devices)
  BY Tables
<1>2. /\ i \in DOMAIN config.devices /\ Len(TagsOf(i)) \in Nat
      /\ DOMAIN TagsOf(i) = 1 .. Len(TagsOf(i)) /\ j \in DOMAIN TagsOf(i)
      /\ Len(table) \in Nat
  <2>1. i \in DOMAIN config.devices
    BY <1>1 DEF Loops
  <2>2. Len(TagsOf(i)) \in Nat /\ DOMAIN TagsOf(i) = 1 .. Len(TagsOf(i))
    BY <2>1, AddedFacts
  <2> QED BY <2>1, <2>2, TableTypes DEF Loops, TableFilled
<1>3. IoName(i, j) \in IoNames
  <2>1. TagsOf(i)[j] \in Range(TagsOf(i))
    BY <1>2 DEF Range
  <2> QED BY <1>2, <2>1 DEF IoNames, IoName, TagsOf
<1>4. SUFFICES ASSUME NEW k \in 1 .. Len(table), table[k].name = IoName(i, j)
               PROVE  FALSE
  BY <1>2, Finding DEF TableFilled
<1>5. Added \in Nat
  BY AddedFacts
<1>6. CASE k <= Added
  BY <1>3, <1>4, <1>6, EntryNames DEF UniqueNames
<1>7. CASE k > Added
  <2> PICK d \in DOMAIN config.devices :
          \E m \in 1 .. IoAdded(d) : IoName(d, m) = IoName(i, j)
    BY <1>4, <1>7, EntryNames
  <2>1. PICK m \in 1 .. IoAdded(d) : IoName(d, m) = IoName(i, j)
    OBVIOUS
  <2>2. /\ DOMAIN TagsOf(d) = 1 .. Len(TagsOf(d)) /\ Len(TagsOf(d)) \in Nat
        /\ IoAdded(d) <= Len(TagsOf(d)) /\ IoAdded(d) \in Nat
    BY AddedFacts
  <2>3. m \in DOMAIN TagsOf(d)
    BY <2>2
  <2>4. d = i /\ m = j
    BY <1>2, <2>1, <2>3 DEF UniqueNames, IoName
  <2>5. i \in Nat /\ j \in Nat
    BY DEF Loops
  <2>6. IoAdded(i) = j - 1
    BY <2>5 DEF IoAdded, Filled
  <2> QED BY <2>1, <2>4, <2>5, <2>6
<1> QED BY <1>5, <1>6, <1>7

\* As many names as entries, when no two entries share one.
LEMMA Listing ==
    ASSUME NEW n \in Nat, NEW f, NEW S, S = {f[k] : k \in 1 .. n}
    PROVE  /\ IsFiniteSet(S) /\ Cardinality(S) <= n
           /\ (\A k, m \in 1 .. n : f[k] = f[m] => k = m) => Cardinality(S) = n
<1> DEFINE g == [k \in 1 .. n |-> f[k]]
<1>1. g \in Surjection(1 .. n, S)
  <2>1. g \in [1 .. n -> S]
    OBVIOUS
  <2>2. \A x \in S : \E k \in 1 .. n : g[k] = x
    OBVIOUS
  <2> QED BY <2>1, <2>2 DEF Surjection
<1>2. IsFiniteSet(1 .. n) /\ Cardinality(1 .. n) = n
  BY FS_Interval
<1>3. ASSUME \A k, m \in 1 .. n : f[k] = f[m] => k = m
      PROVE  g \in Injection(1 .. n, S)
  BY <1>1, <1>3 DEF Injection, IsInjective, Surjection
<1> HIDE DEF g
<1> QED BY <1>1, <1>2, <1>3, FS_Surjection

LEMMA FiniteNames ==
    ASSUME config \in Configs,
           \A d \in DOMAIN config.devices : config.devices[d].model \in Models
    PROVE  IsFiniteSet(Names \cup IoNames)
<1>1. IsFiniteSet(Names)
  <2>1. /\ VarCount \in Nat /\ HmiCount \in Nat
        /\ DOMAIN config.vars = 1 .. VarCount /\ DOMAIN config.hmi = 1 .. HmiCount
    BY Tables
  <2> DEFINE f == [k \in 1 .. VarCount |-> ProcName(k)]
             g == [k \in 1 .. HmiCount |-> HmiName(k)]
             F == {f[k] : k \in 1 .. VarCount}
             G == {g[k] : k \in 1 .. HmiCount}
  <2>2. Names = F \cup G
    BY <2>1 DEF Names, ProcName, HmiName
  <2> HIDE DEF f, g
  <2>3. IsFiniteSet(F) /\ IsFiniteSet(G)
    BY <2>1, Listing
  <2> QED BY <2>2, <2>3, FS_Union
<1>2. IsFiniteSet(IoNames)
  <2> DEFINE Of(d) == {<<config.devices[d].name, t.name>> : t \in Range(TagsOf(d))}
             f == [d \in 1 .. Len(config.devices) |-> Of(d)]
             S == {f[d] : d \in 1 .. Len(config.devices)}
  <2>1. /\ Len(config.devices) \in Nat
        /\ DOMAIN config.devices = 1 .. Len(config.devices)
    BY Tables
  <2>2. IoNames = UNION S
    <3>1. IoNames = UNION {Of(d) : d \in DOMAIN config.devices}
      BY DEF IoNames, TagsOf
    <3>2. {Of(d) : d \in DOMAIN config.devices} = S
      <4> HIDE DEF Of
      <4> QED BY <2>1
    <3> QED BY <3>1, <3>2
  <2>3. ASSUME NEW d \in DOMAIN config.devices PROVE IsFiniteSet(Of(d))
    <3>1. Len(TagsOf(d)) \in Nat /\ DOMAIN TagsOf(d) = 1 .. Len(TagsOf(d))
      BY TagTables
    <3> DEFINE g == [m \in 1 .. Len(TagsOf(d)) |->
                         <<config.devices[d].name, TagsOf(d)[m].name>>]
    <3>2. Of(d) = {g[m] : m \in 1 .. Len(TagsOf(d))}
      BY <3>1 DEF Range
    <3> HIDE DEF g, Of
    <3> QED BY <3>1, <3>2, Listing
  <2>4. \A T \in S : IsFiniteSet(T)
    BY <2>1, <2>3
  <2> HIDE DEF f
  <2>5. IsFiniteSet(S)
    BY <2>1, Listing
  <2> HIDE DEF S
  <2> QED BY <2>2, <2>4, <2>5, FS_UNION
<1> QED BY <1>1, <1>2, FS_Union

\* When the table is full, there are names too many.
LEMMA TableFull ==
    ASSUME config \in Configs, Loops, Checked, phase \notin {"check", "failed"},
           TableFilled, NEW name \in Names \cup IoNames, FindId(name) = 0,
           ~(Len(table) < MaxTags)
    PROVE  ~Limits
<1> DEFINE f == [k \in 1 .. Len(table) |-> table[k].name]
           S == {f[k] : k \in 1 .. Len(table)}
           N == Names \cup IoNames
<1>1. Len(table) \in Nat /\ MaxTags \in Nat
  BY TableTypes, Sizes DEF TableFilled
<1>2. \A k, m \in 1 .. Len(table) : f[k] = f[m] => k = m
  BY DEF TableFilled
<1>3. S \cup {name} \subseteq N
  <2>1. \A k \in 1 .. Len(table) : table[k].name \in N
    <3>1. SUFFICES ASSUME NEW k \in 1 .. Len(table) PROVE table[k].name \in N
      OBVIOUS
    <3>2. Added \in Nat /\ (k <= Added \/ k > Added)
      BY <1>1, AddedFacts
    <3> QED BY <3>2, EntryNames
  <2> QED BY <2>1
<1>4. name \notin S
  BY <1>1, Finding DEF TableFilled
<1>5. IsFiniteSet(N)
  BY FiniteNames DEF Checked
<1>9. S = {f[k] : k \in 1 .. Len(table)}
  OBVIOUS
<1> HIDE DEF f, S
<1>6. IsFiniteSet(S) /\ Cardinality(S) = Len(table)
  <2>1. /\ IsFiniteSet(S)
        /\ (\A k, m \in 1 .. Len(table) : f[k] = f[m] => k = m)
               => Cardinality(S) = Len(table)
    BY <1>1, <1>9, Listing
  <2> QED BY <1>2, <2>1
<1>7. Cardinality(S \cup {name}) = Len(table) + 1
  BY <1>4, <1>6, FS_AddElement
<1>8. Cardinality(S \cup {name}) <= Cardinality(N) /\ Cardinality(N) \in Nat
  BY <1>3, <1>5, FS_Subset, FS_CardinalityType
<1> QED BY <1>1, <1>7, <1>8 DEF Limits
-----------------------------------------------------------------------------
(* What is built makes sense. *)

\* In the complete table every name has its place.
LEMMA Complete ==
    ASSUME config \in Configs, Loops, Checked, phase \in Filled, TableFilled
    PROVE  /\ Added = VarCount + HmiCount /\ VarsAdded = VarCount /\ HmiAdded = HmiCount
           /\ Len(table) \in Nat /\ Added <= Len(table)
           /\ VarCount \in Nat /\ HmiCount \in Nat
           /\ \A k \in 1 .. VarCount + HmiCount :
                 k \in 1 .. Len(table) /\ table[k].name = AllNames[k]
           /\ \A d \in DOMAIN config.devices :
                 /\ IoAdded(d) = Len(TagsOf(d)) /\ Len(TagsOf(d)) \in Nat
                 /\ DOMAIN TagsOf(d) = 1 .. Len(TagsOf(d))
<1>1. /\ Added = VarCount + HmiCount /\ VarCount \in Nat /\ HmiCount \in Nat
      /\ VarsAdded = VarCount /\ HmiAdded = HmiCount
      /\ Len(table) \in Nat /\ Added <= Len(table)
  BY Tables, TableTypes DEF Filled, Added, VarsAdded, HmiAdded, TableFilled
<1>2. ASSUME NEW k \in 1 .. VarCount + HmiCount
      PROVE  k \in 1 .. Len(table) /\ table[k].name = AllNames[k]
  <2>1. k \in 1 .. Len(table) /\ k <= Added
    BY <1>1
  <2> QED BY <2>1, EntryNames DEF Filled
<1>3. \A d \in DOMAIN config.devices : IoAdded(d) = Len(TagsOf(d))
  BY DEF IoAdded
<1>4. \A d \in DOMAIN config.devices :
          DOMAIN TagsOf(d) = 1 .. Len(TagsOf(d)) /\ Len(TagsOf(d)) \in Nat
  BY AddedFacts DEF Filled
<1> QED BY <1>1, <1>2, <1>3, <1>4

LEMMA FewNames ==
    ASSUME config \in Configs, Loops, Checked, phase \in Filled, TableFilled
    PROVE  Cardinality(Names \cup IoNames) <= MaxTags
<1> DEFINE f == [k \in 1 .. Len(table) |-> table[k].name]
           S == {f[k] : k \in 1 .. Len(table)}
           N == Names \cup IoNames
<1>1. Len(table) \in Nat /\ MaxTags \in Nat /\ Len(table) <= MaxTags
  BY TableTypes, Sizes DEF TableFilled
<1>2. N \subseteq S
  <2>1. \A k \in DOMAIN config.vars : ProcName(k) \in S
    <3>1. SUFFICES ASSUME NEW k \in DOMAIN config.vars PROVE ProcName(k) \in S
      OBVIOUS
    <3>2. /\ k \in 1 .. VarCount /\ VarCount \in Nat /\ HmiCount \in Nat
      BY Tables
    <3>3. k \in 1 .. VarCount + HmiCount
      BY <3>2
    <3>4. k \in 1 .. Len(table) /\ table[k].name = ProcName(k)
      BY <3>2, <3>3, Complete, NamesListed
    <3> QED BY <3>4
  <2>2. \A k \in DOMAIN config.hmi : HmiName(k) \in S
    <3>1. SUFFICES ASSUME NEW k \in DOMAIN config.hmi PROVE HmiName(k) \in S
      OBVIOUS
    <3>2. /\ k \in 1 .. HmiCount /\ VarCount \in Nat /\ HmiCount \in Nat
      BY Tables
    <3>3. VarCount + k \in 1 .. VarCount + HmiCount
      BY <3>2
    <3>4. VarCount + k \in 1 .. Len(table) /\ table[VarCount + k].name = HmiName(k)
      BY <3>2, <3>3, Complete, NamesListed
    <3> QED BY <3>4
  <2>3. ASSUME NEW d \in DOMAIN config.devices, NEW t \in Range(TagsOf(d))
        PROVE  <<config.devices[d].name, t.name>> \in S
    <3>1. PICK m \in DOMAIN TagsOf(d) : t = TagsOf(d)[m]
      BY DEF Range
    <3>2. m \in 1 .. IoAdded(d)
      BY Complete
    <3>3. PICK k \in 1 .. Len(table) : IoEntry(k, d, m)
      BY <3>2 DEF TableFilled
    <3>4. table[k].name = IoName(d, m)
      BY <3>3 DEF IoEntry
    <3> QED BY <3>1, <3>4 DEF IoName
  <2>4. IoNames \subseteq S
    <3>1. SUFFICES ASSUME NEW x \in IoNames PROVE x \in S
      OBVIOUS
    <3>2. PICK d \in DOMAIN config.devices :
              x \in {<<config.devices[d].name, t.name>> : t \in Range(TagsOf(d))}
      BY DEF IoNames, TagsOf
    <3>3. PICK t \in Range(TagsOf(d)) : x = <<config.devices[d].name, t.name>>
      BY <3>2
    <3> QED BY <2>3, <3>3
  <2> QED BY <2>1, <2>2, <2>4 DEF Names, ProcName, HmiName
<1> HIDE DEF f
<1>3. IsFiniteSet(S) /\ Cardinality(S) <= Len(table)
  BY <1>1, Listing
<1>4. Cardinality(N) <= Cardinality(S) /\ Cardinality(N) \in Nat /\ Cardinality(S) \in Nat
  BY <1>2, <1>3, FS_Subset, FS_CardinalityType
<1> HIDE DEF S, N
<1>5. Cardinality(N) <= MaxTags
  BY <1>1, <1>3, <1>4
<1> QED BY <1>5 DEF N

LEMMA WithinLimits ==
    ASSUME config \in Configs, Loops, Checked, BackendsBound, phase \in Filled,
           TableFilled, StoresFilled
    PROVE  Limits
<1>1. Len(config.backends) \in 1 .. MaxBackends /\ config.devices # <<>>
  BY DEF Checked, Filled
<1>2. \A b \in DOMAIN config.backends : Bound(b)
  BY Tables DEF BackendsBound, Backed
<1>3. \A b \in DOMAIN config.backends : config.backends[b].type = "ethercat"
  BY <1>2 DEF Bound
<1>4. ASSUME NEW d \in DOMAIN config.devices
      PROVE  /\ \E b \in DOMAIN config.backends :
                    config.backends[b].name = config.devices[d].backend
             /\ config.devices[d].model \in Models
             /\ config.devices[d].position \in 1 .. SlaveCount
             /\ \A k \in DOMAIN TagsOf(d) :
                    ValidTag(TagsOf(d)[k], config.devices[d].model)
  <2>1. PICK b \in DOMAIN config.backends :
            config.backends[b].name = config.devices[d].backend
    BY DEF Checked, Filled
  <2>2. config.devices[d].model \in Models
    BY DEF Checked, Filled
  <2>3. config.devices[d].position \in 1 .. SlaveCount
    <3>1. d \in Mine(b) /\ Reached(b) = Len(config.devices) /\ d <= Len(config.devices)
      BY <2>1, Tables DEF Mine, Reached, Filled
    <3> QED BY <1>2, <3>1 DEF Bound
  <2>4. ASSUME NEW k \in DOMAIN TagsOf(d)
        PROVE  ValidTag(TagsOf(d)[k], config.devices[d].model)
    <3>1. k \in 1 .. IoAdded(d)
      BY Complete
    <3>2. PICK n \in 1 .. Len(table) : IoEntry(n, d, k)
      BY <3>1 DEF TableFilled
    <3> QED BY <3>2 DEF IoEntry
  <2> QED BY <2>1, <2>2, <2>3, <2>4
<1>5. Len(config.vars) <= MaxVars
  BY DEF StoresFilled, VarCount
<1>6. ASSUME NEW k \in DOMAIN config.hmi PROVE config.hmi[k].kind \in {"alias", "var"}
  <2>1. k \in 1 .. HmiAdded
    BY Complete, Tables
  <2>2. HmiVarEntry(k) \/ AliasEntry(k)
    BY <2>1 DEF TableFilled
  <2> QED BY <2>2 DEF HmiVarEntry, AliasEntry
<1>7. Cardinality(HmiVars) <= MaxVars
  <2>1. HmiVars \cap (1 .. HmiCount) = HmiVars
    BY Tables DEF HmiVars
  <2>2. Rank(HmiVars, HmiCount) <= MaxVars
    BY Complete DEF StoresFilled
  <2> QED BY <2>1, <2>2 DEF Rank
<1>8. Cardinality(Names \cup IoNames) <= MaxTags
  BY FewNames
<1> QED BY <1>1, <1>3, <1>4, <1>5, <1>6, <1>7, <1>8 DEF Limits, HmiVars

LEMMA DifferentNames ==
    ASSUME config \in Configs, Loops, Checked, phase \in Filled, TableFilled,
           IoTagsDiffer
    PROVE  UniqueNames
<1>1. IsInjective(AllNames)
  <2>1. SUFFICES ASSUME NEW k \in DOMAIN AllNames, NEW m \in DOMAIN AllNames,
                        AllNames[k] = AllNames[m]
                 PROVE  k = m
    BY DEF IsInjective
  <2>2. /\ k \in 1 .. VarCount + HmiCount /\ m \in 1 .. VarCount + HmiCount
    BY NamesListed
  <2>3. /\ k \in 1 .. Len(table) /\ table[k].name = AllNames[k]
        /\ m \in 1 .. Len(table) /\ table[m].name = AllNames[m]
    BY <2>2, Complete
  <2> QED BY <2>1, <2>3 DEF TableFilled
<1>2. ASSUME NEW d \in DOMAIN config.devices, NEW m \in DOMAIN TagsOf(d)
      PROVE  /\ m \in 1 .. IoAdded(d)
             /\ \E k \in 1 .. Len(table) : k > Added /\ table[k].name = IoName(d, m)
  <2>1. m \in 1 .. IoAdded(d)
    BY Complete
  <2>2. PICK k \in 1 .. Len(table) : k > Added /\ IoEntry(k, d, m)
    BY <2>1 DEF TableFilled
  <2>3. table[k].name = IoName(d, m)
    BY <2>2 DEF IoEntry
  <2> QED BY <2>1, <2>2, <2>3
<1>3. ASSUME NEW x \in Names PROVE \E k \in 1 .. Len(table) : k <= Added /\ table[k].name = x
  <2>1. /\ VarCount \in Nat /\ HmiCount \in Nat /\ Added = VarCount + HmiCount
        /\ DOMAIN config.vars = 1 .. VarCount /\ DOMAIN config.hmi = 1 .. HmiCount
    BY Complete, Tables
  <2>2. CASE \E k \in DOMAIN config.vars : x = ProcName(k)
    <3>1. PICK k \in 1 .. VarCount : x = ProcName(k)
      BY <2>1, <2>2
    <3>2. k \in 1 .. VarCount + HmiCount /\ k <= Added
      BY <2>1
    <3>3. k \in 1 .. Len(table) /\ table[k].name = x
      BY <3>1, <3>2, Complete, NamesListed
    <3> QED BY <3>2, <3>3
  <2>3. CASE \E k \in DOMAIN config.hmi : x = HmiName(k)
    <3>1. PICK k \in 1 .. HmiCount : x = HmiName(k)
      BY <2>1, <2>3
    <3>2. PICK n \in 1 .. VarCount + HmiCount : n = VarCount + k /\ n <= Added
      BY <2>1
    <3>3. n \in 1 .. Len(table) /\ table[n].name = x
      BY <3>1, <3>2, Complete, NamesListed
    <3> QED BY <3>2, <3>3
  <2> QED BY <2>2, <2>3 DEF Names, ProcName, HmiName
<1>4. ASSUME NEW x \in Names, x \in IoNames PROVE FALSE
  <2>1. PICK d \in DOMAIN config.devices :
            x \in {<<config.devices[d].name, t.name>> : t \in Range(TagsOf(d))}
    BY <1>4 DEF IoNames, TagsOf
  <2>2. PICK m \in DOMAIN TagsOf(d) : x = IoName(d, m)
    BY <2>1 DEF Range, IoName
  <2>3. PICK k \in 1 .. Len(table) : k > Added /\ table[k].name = x
    BY <1>2, <2>2
  <2>4. PICK n \in 1 .. Len(table) : n <= Added /\ table[n].name = x
    BY <1>3
  <2>5. k = n
    BY <2>3, <2>4 DEF TableFilled
  <2>6. Added \in Nat
    BY AddedFacts DEF Filled
  <2> QED BY <2>3, <2>4, <2>5, <2>6
<1>5. ASSUME NEW d \in DOMAIN config.devices, NEW e \in DOMAIN config.devices,
             config.devices[d].name = config.devices[e].name,
             NEW k \in DOMAIN TagsOf(d), NEW m \in DOMAIN TagsOf(e),
             TagsOf(d)[k].name = TagsOf(e)[m].name
      PROVE  <<d, k>> = <<e, m>>
  <2>1. IoName(d, k) = IoName(e, m)
    BY <1>5 DEF IoName
  <2>2. k \in 1 .. IoAdded(d) /\ m \in 1 .. IoAdded(e)
    BY <1>2
  <2> QED BY <2>1, <2>2 DEF IoTagsDiffer
<1> QED BY <1>1, <1>4, <1>5 DEF UniqueNames

LEMMA DifferentPlaces ==
    ASSUME config \in Configs, Checked, BackendsBound, phase \in Filled
    PROVE  OneDevicePerPosition
<1>1. SUFFICES ASSUME NEW d \in DOMAIN config.devices, NEW e \in DOMAIN config.devices,
                      d # e, config.devices[d].backend = config.devices[e].backend
               PROVE  config.devices[d].position # config.devices[e].position
  BY DEF OneDevicePerPosition
<1>2. PICK b \in DOMAIN config.backends :
          config.backends[b].name = config.devices[d].backend
  BY DEF Checked, Filled
<1>3. Bound(b) /\ Reached(b) = Len(config.devices)
  BY Tables DEF BackendsBound, Backed, Reached, Filled
<1>4. /\ d \in Mine(b) /\ e \in Mine(b)
      /\ d <= Len(config.devices) /\ e <= Len(config.devices)
  BY <1>1, <1>2, Tables DEF Mine
<1> QED BY <1>1, <1>3, <1>4 DEF Bound

LEMMA LooksBack ==
    ASSUME config \in Configs, Loops, Checked, phase \in Filled, TableFilled
    PROVE  AliasesLookBack
<1>1. SUFFICES ASSUME NEW k \in DOMAIN config.hmi, config.hmi[k].kind = "alias"
               PROVE  \/ \E v \in DOMAIN config.vars : config.hmi[k].target = ProcName(v)
                      \/ \E m \in 1 .. k - 1 : config.hmi[k].target = HmiName(m)
  BY DEF AliasesLookBack, ProcName, HmiName
<1>2. /\ VarCount \in Nat /\ HmiCount \in Nat /\ k \in 1 .. HmiCount
      /\ DOMAIN config.vars = 1 .. VarCount
  BY Tables
<1>3. HmiVarEntry(k) \/ AliasEntry(k)
  BY <1>2, Complete DEF TableFilled
<1>4. AliasEntry(k)
  BY <1>1, <1>3 DEF HmiVarEntry
<1>5. PICK target \in 1 .. VarCount + k - 1 : table[target].name = config.hmi[k].target
  BY <1>4 DEF AliasEntry
<1>6. target \in 1 .. VarCount + HmiCount
  BY <1>2
<1>7. AllNames[target] = config.hmi[k].target
  BY <1>5, <1>6, Complete
<1>8. CASE target <= VarCount
  <2>1. target \in 1 .. VarCount
    BY <1>2, <1>8
  <2> QED BY <1>2, <1>7, <2>1, NamesListed
<1>9. CASE target > VarCount
  <2>1. PICK m \in 1 .. HmiCount : target = VarCount + m /\ m \in 1 .. k - 1
    <3>1. target - VarCount \in 1 .. HmiCount /\ target - VarCount \in 1 .. k - 1
          /\ target = VarCount + (target - VarCount)
      BY <1>2, <1>9
    <3> QED BY <3>1
  <2> QED BY <1>7, <2>1, NamesListed
<1> QED BY <1>2, <1>8, <1>9

LEMMA FilledIsSound ==
    ASSUME BuildInv, phase \in Filled
    PROVE  Sound
<1>1. /\ config \in Configs /\ Loops /\ Checked /\ BackendsBound
      /\ TableFilled /\ IoTagsDiffer /\ StoresFilled
  BY DEF BuildInv, Filled
<1> QED BY <1>1, WithinLimits, DifferentNames, DifferentPlaces, LooksBack DEF Sound
-----------------------------------------------------------------------------
(* The invariant holds at the start and when a step fails. *)

LEMMA StartsWell ==
    ASSUME Init PROVE BuildInv
<1>1. Loops /\ Checked /\ Blamed
  BY DEF Init, Loops, Phases, Checked, Blamed
<1>2. BackendsBound
  BY DEF Init, BackendsBound, Backed, Filled
<1>3. /\ VarsAdded = 0 /\ HmiAdded = 0 /\ Added = 0 /\ \A d : IoAdded(d) = 0
      /\ Rank(HmiVars, 0) = 0
  <2>1. VarsAdded = 0 /\ HmiAdded = 0 /\ \A d : IoAdded(d) = 0
    BY DEF Init, VarsAdded, HmiAdded, IoAdded, Filled
  <2>2. Rank(HmiVars, 0) = 0
    BY Ranks
  <2> QED BY <2>1, <2>2 DEF Added
<1>4. <<>> \in Seq(Range(<<>>)) /\ Len(<<>>) = 0
  BY EmptySeq
<1>5. TableFilled /\ IoTagsDiffer
  BY <1>3, <1>4, Sizes DEF Init, TableFilled, IoTagsDiffer
<1>6. StoresFilled
  <2>1. \A k \in HmiVars : ~(k <= 0)
    BY Tables DEF Init, HmiVars
  <2> QED BY <1>3, <1>4, <2>1, Sizes DEF Init, StoresFilled, EmptyStore, Filled
<1>7. ValuesSet
  BY <1>3, <1>4 DEF Init, ValuesSet
<1> QED BY <1>1, <1>2, <1>5, <1>6, <1>7 DEF Init, BuildInv

LEMMA FailStep ==
    ASSUME BuildInv, Fail, Sound => broken'
    PROVE  BuildInv'
<1>1. config' = config /\ phase' = "failed" /\ i' = 1 /\ j' = 1 /\ backends' = <<>>
  BY DEF Fail, Kept
<1>2. Loops' /\ Checked'
  BY <1>1 DEF Loops, Checked, Phases
<1>3. BackendsBound'
  BY <1>1 DEF BackendsBound, Backed, Filled
<1>4. Blamed'
  BY <1>1, SameSense DEF Blamed
<1> QED BY <1>1, <1>2, <1>3, <1>4 DEF BuildInv

\* What holds unless the build has failed.
LEMMA Parts ==
    ASSUME BuildInv, phase # "failed"
    PROVE  /\ config \in Configs /\ Loops /\ Checked /\ BackendsBound
           /\ TableFilled /\ IoTagsDiffer /\ StoresFilled /\ ValuesSet
  BY DEF BuildInv

LEMMA Whole ==
    ASSUME BuildInv, config' = config, phase' # "failed", Loops', Checked',
           BackendsBound', TableFilled', IoTagsDiffer', StoresFilled', ValuesSet'
    PROVE  BuildInv'
  BY DEF BuildInv, Blamed
-----------------------------------------------------------------------------
(* The steps of system_build. *)

\* Before the variables are added, the table and the stores stay empty.
LEMMA EmptyStays ==
    ASSUME BuildInv, phase \in {"check", "create", "bind"},
           phase' \in {"create", "bind"} \/ (phase' = "proc" /\ i' = 1),
           UNCHANGED <<config, table, stores, request>>
    PROVE  TableFilled' /\ IoTagsDiffer' /\ StoresFilled' /\ ValuesSet'
<1>1. /\ config \in Configs /\ Loops /\ Checked
      /\ TableFilled /\ IoTagsDiffer /\ StoresFilled /\ ValuesSet
  BY Parts
<1>2. UNCHANGED <<VarsAdded, HmiAdded>> /\ \A d : IoAdded(d)' = IoAdded(d)
  BY DEF VarsAdded, HmiAdded, IoAdded, Filled
<1>3. TableFilled' /\ IoTagsDiffer'
  BY <1>1, <1>2, TableStays
<1>4. StoresFilled'
  BY <1>1, <1>2, StoresStay DEF stores, Filled
<1>5. ValuesSet'
  BY <1>1, <1>2, ValuesStay DEF stores
<1> QED BY <1>3, <1>4, <1>5

LEMMA CheckConfigStep ==
    ASSUME BuildInv, CheckConfig PROVE BuildInv'
<1>1. /\ config \in Configs /\ Loops /\ BackendsBound /\ phase = "check"
  BY Parts DEF CheckConfig
<1> DEFINE Fine == /\ Len(config.backends) \in 1 .. MaxBackends
                   /\ config.devices # <<>>
                   /\ \A d \in DOMAIN config.devices :
                         /\ \E b \in DOMAIN config.backends :
                               config.backends[b].name = config.devices[d].backend
                         /\ config.devices[d].model \in Models
<1>2. CASE Fine
  <2>1. Proceed("create", 1, 1) /\ UNCHANGED built
    BY <1>2 DEF CheckConfig, Registered
  <2>2. /\ phase' = "create" /\ i' = 1 /\ j' = 1
        /\ UNCHANGED <<config, backends, table, stores, request>>
    BY <2>1 DEF Proceed, built, remote
  <2>3. Loops'
    BY <1>1, <1>2, <2>2, Sizes, Tables DEF Loops, Phases
  <2>4. Checked'
    BY <1>2, <2>2 DEF Checked
  <2>5. BackendsBound'
    BY <1>1, <2>2 DEF BackendsBound, Backed, Filled
  <2> QED BY <1>1, <2>2, <2>3, <2>4, <2>5, EmptyStays, Whole
<1>3. CASE ~Fine
  <2>1. Fail
    BY <1>3 DEF CheckConfig, Registered
  <2>2. ~Limits
    BY <1>3 DEF Limits
  <2> QED BY <2>1, <2>2, FailStep DEF Sound
<1> QED BY <1>2, <1>3

LEMMA CreateBackendStep ==
    ASSUME BuildInv, NEW ok \in BOOLEAN, CreateBackend(ok) PROVE BuildInv'
<1>1. /\ config \in Configs /\ Loops /\ Checked /\ BackendsBound /\ phase = "create"
  BY Parts DEF CreateBackend
<1>2. /\ i \in Nat \ {0} /\ i \in 1 .. Len(config.backends)
      /\ Len(config.backends) \in Nat /\ i \in DOMAIN config.backends
      /\ Len(backends) = i - 1 /\ backends \in Seq(Seq(Nat))
  BY <1>1, Tables DEF Loops, BackendsBound
<1>3. CASE ~ok
  <2>1. Fail /\ broken' = TRUE
    BY <1>3 DEF CreateBackend
  <2> QED BY <2>1, FailStep
<1>4. CASE ok /\ config.backends[i].type # "ethercat"
  <2>1. Fail
    BY <1>4 DEF CreateBackend, HasFactory
  <2>2. ~Limits
    BY <1>2, <1>4 DEF Limits
  <2> QED BY <2>1, <2>2, FailStep DEF Sound
<1>5. CASE ok /\ config.backends[i].type = "ethercat"
  <2>1. /\ phase' = "bind" /\ i' = i /\ j' = 1 /\ backends' = Append(backends, <<>>)
        /\ UNCHANGED <<config, table, stores, request>>
    BY <1>5 DEF CreateBackend, HasFactory, Proceed, remote
  <2>2. Loops'
    BY <1>1, <1>2, <2>1, Tables DEF Loops, Phases
  <2>3. Checked'
    BY <1>1, <2>1, CheckedStays
  <2>4. /\ backends' \in Seq(Seq(Nat)) /\ Len(backends') = i
        /\ \A b \in 1 .. i - 1 : backends'[b] = backends[b]
        /\ backends'[i] = <<>>
    <3>1. <<>> \in Seq(Nat)
      BY EmptySeq
    <3>2. Append(backends, <<>>)[Len(backends) + 1] = <<>>
          /\ Append(backends, <<>>) \in Seq(Seq(Nat))
          /\ Len(Append(backends, <<>>)) = Len(backends) + 1
          /\ \A b \in 1 .. Len(backends) : Append(backends, <<>>)[b] = backends[b]
      BY <1>2, <3>1, AppendProperties
    <3>3. Len(backends) + 1 = i
      BY <1>2
    <3> QED BY <1>2, <2>1, <3>2, <3>3
  <2>5. ASSUME NEW b \in 1 .. i - 1 PROVE Bound(b)'
    <3>1. Bound(b)
      BY <1>1, <1>2 DEF BackendsBound
    <3>2. Mine(b)' = Mine(b) /\ Reached(b)' = Reached(b)
      BY <1>1, <1>2, <2>1, Same DEF Reached
    <3>3. backends'[b] = backends[b]
      BY <2>4
    <3>4. PICK mine, bound, reached : /\ mine = Mine(b) /\ reached = Reached(b)
                                      /\ bound = backends[b]
      OBVIOUS
    <3>5. /\ config.backends[b].type = "ethercat"
          /\ Len(bound) = Rank(mine, reached)
          /\ \A k \in 1 .. Len(bound) : bound[k] \in mine /\ bound[k] <= reached
          /\ \A d \in mine : d <= reached =>
                /\ bound[Rank(mine, d)] = d
                /\ config.devices[d].position \in 1 .. SlaveCount
                /\ \A e \in mine : e <= reached /\ d # e =>
                      config.devices[d].position # config.devices[e].position
      BY <3>1, <3>4 DEF Bound
    <3>6. config' = config /\ Mine(b)' = mine /\ Reached(b)' = reached /\ backends'[b] = bound
      BY <2>1, <3>2, <3>3, <3>4
    <3> QED BY <3>5, <3>6 DEF Bound
  <2>6. ASSUME NEW b, b = i PROVE Bound(b)'
    <3>1. Mine(b)' = Mine(b) /\ Rank(Mine(b), 0) = 0
      BY <2>1, Same, Ranks
    <3>4. Reached(b)' = 0
      BY <2>1, <2>6 DEF Reached
    <3>5. Rank(Mine(b), Reached(b))' = 0
      BY <3>1, <3>4
    <3>6. Len(backends'[b]) = 0
      BY <2>4, <2>6, EmptySeq
    <3>2. \A d \in Mine(b) : ~(d <= 0)
      BY <1>1, Tables DEF Mine
    <3>3. backends'[b] = <<>> /\ config.backends[b].type = "ethercat"
      BY <1>5, <2>4, <2>6
    <3>7. \A k \in 1 .. Len(backends'[b]) : FALSE
      BY <3>6
    <3>8. \A d \in Mine(b)' : ~(d <= Reached(b)')
      BY <3>1, <3>2, <3>4
    <3>9. (config.backends[b].type = "ethercat")'
      BY <2>1, <3>3
    <3> QED BY <3>5, <3>6, <3>7, <3>8, <3>9 DEF Bound
  <2>7. BackendsBound'
    <3>1. \A b \in 1 .. Len(backends') : Bound(b)'
      <4>1. SUFFICES ASSUME NEW b \in 1 .. i PROVE Bound(b)'
        BY <2>4
      <4>2. b = i \/ b \in 1 .. i - 1
        BY <1>2
      <4> QED BY <2>5, <2>6, <4>2
    <3> QED BY <2>1, <2>4, <3>1 DEF BackendsBound, Backed, Filled
  <2> QED BY <1>1, <2>1, <2>2, <2>3, <2>7, EmptyStays, Whole
<1> QED BY <1>3, <1>4, <1>5

LEMMA BindDeviceStep ==
    ASSUME BuildInv, BindDevice PROVE BuildInv'
<1>1. /\ config \in Configs /\ Loops /\ Checked /\ BackendsBound /\ phase = "bind"
  BY Parts DEF BindDevice
<1>2. PICK b \in Nat \ {0} : b = i
  BY <1>1 DEF Loops
<1>3. PICK n \in Nat : n + 1 = j
  <2>1. j - 1 \in Nat /\ (j - 1) + 1 = j
    BY <1>1 DEF Loops
  <2> QED BY <2>1
<1>4. PICK d \in Nat \ {0} : d = j
  BY <1>1 DEF Loops
<1>5. /\ d \in DOMAIN config.devices /\ b \in DOMAIN config.backends
      /\ d = n + 1 /\ d <= Len(config.devices) /\ Len(config.devices) \in Nat
      /\ Len(backends) = b /\ backends \in Seq(Seq(Nat))
      /\ DOMAIN backends = 1 .. b
  <2>1. d \in 1 .. Len(config.devices) /\ Len(config.devices) \in Nat
    BY <1>1, <1>4, Tables DEF Loops, BindDevice
  <2>2. b \in 1 .. Len(config.backends) /\ Len(backends) = b /\ backends \in Seq(Seq(Nat))
    BY <1>1, <1>2 DEF Loops, BackendsBound
  <2>3. DOMAIN backends = 1 .. b
    BY <2>2, LenProperties
  <2> QED BY <1>1, <1>3, <1>4, <2>1, <2>2, <2>3, Tables
<1> DEFINE M == Mine(b)
           s == backends[b]
<1>6. /\ Bound(b) /\ Reached(b) = n /\ s \in Seq(Nat)
      /\ \A c \in 1 .. b - 1 : Bound(c) /\ Reached(c) = Len(config.devices)
  <2>1. \A c \in 1 .. b : Bound(c)
    BY <1>1, <1>5 DEF BackendsBound
  <2>2. Reached(b) = n
    BY <1>1, <1>2, <1>3 DEF Reached
  <2>3. \A c \in 1 .. b - 1 : Reached(c) = Len(config.devices)
    BY <1>2 DEF Reached
  <2>4. s \in Seq(Nat)
    BY <1>5
  <2> QED BY <2>1, <2>2, <2>3, <2>4
<1>7. /\ Rank(M, n) \in Nat
      /\ Rank(M, d) = IF d \in M THEN Rank(M, n) + 1 ELSE Rank(M, n)
  BY <1>5, Ranks
<1>8. M \subseteq DOMAIN config.devices /\ M \subseteq Nat \ {0}
  BY <1>1, Tables DEF Mine
<1>9. /\ Len(s) = Rank(M, n) /\ DOMAIN s = 1 .. Len(s)
      /\ \A k \in 1 .. Len(s) : s[k] \in M /\ s[k] <= n
      /\ \A e \in M : e <= n =>
            /\ s[Rank(M, e)] = e
            /\ config.devices[e].position \in 1 .. SlaveCount
            /\ \A f \in M : f <= n /\ e # f =>
                  config.devices[e].position # config.devices[f].position
  BY <1>6, LenProperties DEF Bound
<1>10. \A e \in M : e <= d <=> (e <= n \/ e = d)
  BY <1>5, <1>8
\* What remains of the step when the table is left alone.
<1>11. ASSUME UNCHANGED <<config, table, stores, request>>, phase' = "bind", i' = i,
              j' = j + 1, backends' \in Seq(Seq(Nat)), Len(backends') = b,
              \A c \in 1 .. b - 1 : backends'[c] = backends[c], Bound(b)'
       PROVE  BuildInv'
  <2>1. Loops'
    <3>4. d <= Len(config.devices) /\ Len(config.devices) \in Nat /\ j' = d + 1
      BY <1>4, <1>5, <1>11
    <3>1. j' \in 1 .. Len(config.devices) + 1
      BY <3>4
    <3>2. i' \in 1 .. Len(config.backends) /\ i' \in Nat
      BY <1>1, <1>11 DEF Loops
    <3>3. j' \in Nat
      BY <1>1, <1>11 DEF Loops
    <3> QED BY <1>11, <3>1, <3>2, <3>3 DEF Loops, Phases
  <2>2. Checked'
    BY <1>1, <1>11, CheckedStays
  <2>3. ASSUME NEW c \in 1 .. b PROVE Bound(c)'
    <3>1. CASE c = b
      BY <1>11, <3>1
    <3>2. CASE c # b
      <4>1. c \in 1 .. b - 1
        BY <3>2
      <4>2. Bound(c) /\ backends'[c] = backends[c] /\ Mine(c)' = Mine(c)
        BY <1>6, <1>11, <4>1, Same
      <4>3. Reached(c)' = Reached(c)
        BY <1>1, <1>2, <1>11, <3>2 DEF Reached
      <4> QED BY <1>11, <4>2, <4>3 DEF Bound
    <3> QED BY <3>1, <3>2
  <2>4. BackendsBound'
    BY <1>2, <1>11, <2>3 DEF BackendsBound, Backed, Filled
  <2> QED BY <1>1, <1>11, <2>1, <2>2, <2>4, EmptyStays, Whole
<1>12. CASE config.devices[d].backend # config.backends[b].name
  <2>1. /\ UNCHANGED <<config, table, stores, request, backends>> /\ phase' = "bind"
        /\ i' = i /\ j' = j + 1
    BY <1>2, <1>4, <1>12 DEF BindDevice, Proceed, built, remote
  <2>2. d \notin M
    BY <1>12 DEF Mine
  <2>3. Mine(b)' = M /\ backends'[b] = s
    BY <2>1, Same
  <2>4. Reached(b)' = d
    BY <1>2, <1>4, <2>1 DEF Reached
  <2>5. /\ Len(s) = Rank(M, d)
        /\ \A k \in 1 .. Len(s) : s[k] \in M /\ s[k] <= d
        /\ \A e \in M : e <= d => e <= n
    BY <1>5, <1>7, <1>8, <1>9, <1>10, <2>2
  <2>6. \A e \in M : e <= d =>
            /\ s[Rank(M, e)] = e
            /\ config.devices[e].position \in 1 .. SlaveCount
            /\ \A f \in M : f <= d /\ e # f =>
                  config.devices[e].position # config.devices[f].position
    BY <1>9, <2>5
  <2>7. Bound(b)'
    <3>1. config.backends[b].type = "ethercat"
      BY <1>6 DEF Bound
    <3> HIDE DEF M, s
    <3> QED BY <2>1, <2>3, <2>4, <2>5, <2>6, <3>1 DEF Bound
  <2> QED BY <1>5, <1>11, <2>1, <2>7
<1>13. CASE config.devices[d].backend = config.backends[b].name /\ ~Bindable(j)
  <2>1. Fail
    BY <1>2, <1>4, <1>13 DEF BindDevice
  <2>2. ~(Limits /\ OneDevicePerPosition)
    <3>1. CASE config.devices[d].position \notin 1 .. SlaveCount
      BY <1>5, <3>1 DEF Limits
    <3>2. CASE \E k \in DOMAIN s :
                   config.devices[s[k]].position = config.devices[d].position
      <4>1. PICK e \in M : e <= n /\ config.devices[e].position = config.devices[d].position
        BY <1>9, <3>2
      <4>2. e # d /\ e \in DOMAIN config.devices
            /\ config.devices[e].backend = config.devices[d].backend
        BY <1>5, <1>8, <1>13, <4>1 DEF Mine
      <4> QED BY <1>5, <4>1, <4>2 DEF OneDevicePerPosition
    <3> QED BY <1>2, <1>4, <1>13, <3>1, <3>2 DEF Bindable
  <2> QED BY <2>1, <2>2, FailStep DEF Sound
<1>14. CASE config.devices[d].backend = config.backends[b].name /\ Bindable(j)
  <2> DEFINE t == Append(s, d)
  <2>1. /\ UNCHANGED <<config, table, stores, request>> /\ phase' = "bind"
        /\ i' = i /\ j' = j + 1 /\ backends' = [backends EXCEPT ![b] = t]
    BY <1>2, <1>4, <1>14 DEF BindDevice, Proceed, remote
  <2>2. /\ t \in Seq(Nat) /\ Len(t) = Len(s) + 1 /\ t[Len(s) + 1] = d /\ Len(s) \in Nat
        /\ \A k \in 1 .. Len(s) : t[k] = s[k]
    BY <1>6, AppendProperties
  <2>3. d \in M
    BY <1>5, <1>14 DEF Mine
  <2>4. /\ config.devices[d].position \in 1 .. SlaveCount
        /\ \A k \in 1 .. Len(s) :
              config.devices[s[k]].position # config.devices[d].position
    BY <1>2, <1>4, <1>9, <1>14 DEF Bindable
  <2> HIDE DEF t
  <2>5. /\ backends' \in Seq(Seq(Nat)) /\ Len(backends') = b
        /\ \A c \in 1 .. b - 1 : backends'[c] = backends[c]
        /\ backends'[b] = t
    <3>1. backends' \in [1 .. b -> Seq(Nat)] /\ backends'[b] = t
          /\ \A c \in 1 .. b - 1 : backends'[c] = backends[c]
      BY <1>5, <2>1, <2>2
    <3> QED BY <3>1, SeqDef, LenProperties
  <2>6. Mine(b)' = M
    BY <2>1, Same
  <2>7. Reached(b)' = d
    BY <1>2, <1>4, <2>1 DEF Reached
  <2>8. Rank(M, d) = Len(s) + 1 /\ Len(t) = Rank(M, d)
    BY <1>7, <1>9, <2>2, <2>3
  <2>9. ASSUME NEW k \in 1 .. Len(t) PROVE t[k] \in M /\ t[k] <= d
    <3>1. CASE k \in 1 .. Len(s)
      <4>1. t[k] \in M /\ t[k] <= n /\ t[k] \in Nat
        BY <1>8, <1>9, <2>2, <3>1
      <4> QED BY <1>5, <4>1
    <3>2. CASE k = Len(s) + 1
      BY <1>5, <2>2, <2>3, <3>2
    <3>3. k \in 1 .. Len(s) \/ k = Len(s) + 1
      BY <2>2
    <3> QED BY <3>1, <3>2, <3>3
  <2>10. ASSUME NEW e \in M, e <= n
         PROVE  /\ Rank(M, e) \in 1 .. Len(s)
                /\ config.devices[e].position # config.devices[d].position
    <3>1. e \in Nat \ {0} /\ d \in Nat \ {0} /\ e < d
      BY <1>5, <1>8, <2>10
    <3>2. Rank(M, e) \in Nat \ {0} /\ Rank(M, e) < Rank(M, d)
      BY <2>3, <3>1, RanksDiffer
    <3>3. Rank(M, e) \in 1 .. Len(s)
      BY <2>2, <2>8, <3>2
    <3>4. s[Rank(M, e)] = e
      BY <1>9, <2>10
    <3> QED BY <2>4, <3>3, <3>4
  <2>11. ASSUME NEW e \in M, e <= d
         PROVE  /\ t[Rank(M, e)] = e
                /\ config.devices[e].position \in 1 .. SlaveCount
                /\ \A f \in M : f <= d /\ e # f =>
                      config.devices[e].position # config.devices[f].position
    <3>1. CASE e = d
      <4>1. t[Rank(M, e)] = e
        BY <2>2, <2>8, <3>1
      <4>2. \A f \in M : f <= d /\ e # f => f <= n
        BY <1>10, <3>1
      <4> QED BY <2>4, <2>10, <3>1, <4>1, <4>2
    <3>2. CASE e <= n
      <4>1. t[Rank(M, e)] = e
        BY <1>9, <2>2, <2>10, <3>2
      <4>2. \A f \in M : f <= d => f <= n \/ f = d
        BY <1>10
      <4> QED BY <1>9, <2>10, <3>2, <4>1, <4>2
    <3> QED BY <1>10, <2>11, <3>1, <3>2
  <2>12. Bound(b)'
    <3>1. config.backends[b].type = "ethercat"
      BY <1>6 DEF Bound
    <3> HIDE DEF M, s
    <3> QED BY <2>1, <2>5, <2>6, <2>7, <2>8, <2>9, <2>11, <3>1 DEF Bound
  <2> QED BY <1>11, <2>1, <2>5, <2>12
<1> QED BY <1>2, <1>4, <1>12, <1>13, <1>14

LEMMA FinalizeBackendStep ==
    ASSUME BuildInv, NEW ok \in BOOLEAN, FinalizeBackend(ok) PROVE BuildInv'
<1>1. /\ config \in Configs /\ Loops /\ Checked /\ BackendsBound /\ phase = "bind"
      /\ j > Len(config.devices)
  BY Parts DEF FinalizeBackend
<1>2. PICK b \in Nat \ {0} : b = i
  BY <1>1 DEF Loops
<1>3. /\ b \in 1 .. Len(config.backends) /\ Len(config.backends) \in Nat
      /\ Len(config.devices) \in Nat /\ j = Len(config.devices) + 1
      /\ Len(backends) = b /\ backends \in Seq(Seq(Nat))
  <2>1. Len(config.devices) \in Nat /\ Len(config.backends) \in Nat
    BY <1>1, Tables
  <2>2. b \in 1 .. Len(config.backends) /\ j \in 1 .. Len(config.devices) + 1
    BY <1>1, <1>2 DEF Loops
  <2>3. j = Len(config.devices) + 1
    BY <1>1, <2>1, <2>2
  <2>4. Len(backends) = b /\ backends \in Seq(Seq(Nat))
    BY <1>1, <1>2 DEF BackendsBound
  <2> QED BY <2>1, <2>2, <2>3, <2>4
<1>4. CASE ~ok
  <2>1. Fail /\ broken' = TRUE
    BY <1>4 DEF FinalizeBackend
  <2> QED BY <2>1, FailStep
<1>5. CASE ok
  <2>1. /\ UNCHANGED <<config, backends, table, stores, request>> /\ j' = 1
        /\ IF b < Len(config.backends) THEN phase' = "create" /\ i' = b + 1
                                       ELSE phase' = "proc" /\ i' = 1
    BY <1>2, <1>5 DEF FinalizeBackend, Proceed, built, remote
  <2>2. Loops'
    <3>1. CASE b < Len(config.backends)
      <4>1. phase' = "create" /\ i' = b + 1 /\ j' = 1 /\ config' = config
        BY <2>1, <3>1
      <4>2. b + 1 \in 1 .. Len(config.backends)
        BY <1>3, <3>1
      <4> QED BY <4>1, <4>2 DEF Loops, Phases
    <3>2. CASE ~(b < Len(config.backends))
      <4>1. phase' = "proc" /\ i' = 1 /\ j' = 1 /\ config' = config
        BY <2>1, <3>2
      <4>2. 1 \in 1 .. VarCount + 1 /\ VarCount' = VarCount
        BY <1>1, <4>1, Tables, Same
      <4> QED BY <4>1, <4>2 DEF Loops, Phases
    <3> QED BY <3>1, <3>2
  <2>3. Checked'
    BY <1>1, <2>1, CheckedStays
  <2>4. ASSUME NEW c \in 1 .. b PROVE Bound(c)'
    <3>1. Reached(c) = Len(config.devices)
      BY <1>1, <1>3 DEF Reached
    <3>2. Reached(c)' = Len(config.devices)
      BY <2>1 DEF Reached
    <3>3. Bound(c) /\ Mine(c)' = Mine(c)
      BY <1>1, <1>3, <2>1, Same DEF BackendsBound
    <3> QED BY <2>1, <3>1, <3>2, <3>3 DEF Bound
  <2>5. BackendsBound'
    BY <1>3, <2>1, <2>4 DEF BackendsBound, Backed, Filled
  <2> QED BY <1>1, <2>1, <2>2, <2>3, <2>5, EmptyStays, Whole
<1> QED BY <1>4, <1>5

LEMMA AddProcVarStep ==
    ASSUME BuildInv, AddProcVar PROVE BuildInv'
<1>1. /\ config \in Configs /\ Loops /\ Checked /\ BackendsBound /\ TableFilled
      /\ IoTagsDiffer /\ StoresFilled /\ ValuesSet /\ phase = "proc"
      /\ i <= VarCount /\ VarCount <= MaxVars
  BY Parts DEF AddProcVar, VarCount
<1>2. PICK n \in Nat \ {0} : n = i
  BY <1>1 DEF Loops
<1>3. /\ VarCount \in Nat /\ n \in 1 .. VarCount /\ n \in DOMAIN config.vars
      /\ VarsAdded = n - 1 /\ HmiAdded = 0 /\ Added = n - 1 /\ Len(table) = n - 1
  <2>1. VarCount \in Nat /\ n \in 1 .. VarCount /\ n \in DOMAIN config.vars
    BY <1>1, <1>2, Tables
  <2>2. VarsAdded = n - 1 /\ HmiAdded = 0
    BY <1>1, <1>2 DEF VarsAdded, HmiAdded
  <2> QED BY <1>1, <2>1, <2>2, NoIoYet DEF Added
<1> DEFINE e == [name |-> ProcName(n), kind |-> "proc",
                 type |-> config.vars[n].type, index |-> n]
<1>4. CASE ~Addable(ProcName(n))
  <2>1. Fail
    BY <1>2, <1>4 DEF AddProcVar, ProcName
  <2>2. ProcName(n) \in Names
    BY <1>3 DEF Names, ProcName
  <2>3. ~(Limits /\ UniqueNames)
    BY <1>1, <1>2, <1>4, <2>2, VarNameFree, TableFull DEF Addable
  <2> QED BY <2>1, <2>3, FailStep DEF Sound
<1>5. CASE Addable(ProcName(n))
  <2>1. /\ table' = Append(table, e) /\ phase' = "proc" /\ i' = n + 1 /\ j' = 1
        /\ proc_store' = [proc_store EXCEPT !.types = Append(@, config.vars[n].type)]
        /\ values' = [values EXCEPT !.proc = Append(@, 0)]
        /\ UNCHANGED <<config, backends, hmi_store, request>>
    BY <1>2, <1>5 DEF AddProcVar, ProcName, Proceed, remote
  <2>2. Loops' /\ Checked'
    <3>1. n + 1 \in 1 .. VarCount + 1 /\ n + 1 \in Nat
      BY <1>3
    <3>2. Checked' /\ VarCount' = VarCount
      BY <1>1, <2>1, CheckedStays, Same
    <3> QED BY <2>1, <3>1, <3>2 DEF Loops, Phases
  <2>3. BackendsBound'
    BY <1>1, <2>1, BoundStays DEF Backed
  <2>4. VarsAdded' = n /\ HmiAdded' = 0 /\ Added' = n /\ \A d : IoAdded(d)' = 0
    <3>1. VarsAdded' = n /\ HmiAdded' = 0 /\ \A d : IoAdded(d)' = 0
      BY <2>1 DEF VarsAdded, HmiAdded, IoAdded, Filled
    <3> QED BY <3>1 DEF Added
  <2>5. Addable(e.name)
    BY <1>5
  <2> HIDE DEF e
  <2>6. /\ table' \in Seq(Range(table')) /\ Len(table') = n /\ Len(table') <= MaxTags
        /\ table'[n] = e
        /\ \A k, m \in 1 .. Len(table') : table'[k].name = table'[m].name => k = m
        /\ \A k \in 1 .. n - 1 : ProcEntry(k)'
    BY <1>1, <1>3, <2>1, <2>5, OneMoreEntry
  <2>7. TableFilled' /\ IoTagsDiffer'
    <3>1. ProcEntry(n)'
      BY <2>1, <2>6, Same DEF ProcEntry, e
    <3>2. \A k \in 1 .. n : ProcEntry(k)'
      BY <2>6, <3>1
    <3>3. \A k \in 1 .. Len(table') : ~(k > n)
      BY <2>6
    <3> QED BY <2>4, <2>6, <3>2, <3>3 DEF TableFilled, IoTagsDiffer
  <2>8. StoresFilled'
    <3>1. /\ proc_store'.types = Append(proc_store.types, config.vars[n].type)
          /\ proc_store' = [types |-> proc_store'.types, count |-> proc_store'.count]
      BY <1>1, <2>1 DEF StoresFilled
    <3>2. /\ Len(proc_store.types) = n - 1 /\ proc_store.types \in Seq(Range(proc_store.types))
          /\ \A k \in 1 .. n - 1 : proc_store.types[k] = config.vars[k].type
      BY <1>1, <1>3 DEF StoresFilled
    <3>3. /\ proc_store'.types \in Seq(Range(proc_store'.types))
          /\ Len(proc_store'.types) = n /\ proc_store'.types[n] = config.vars[n].type
          /\ \A k \in 1 .. n - 1 : proc_store'.types[k] = config.vars[k].type
      BY <3>1, <3>2, AppendFacts
    <3>4. \A k \in 1 .. n : proc_store'.types[k] = config.vars[k].type
      BY <3>3
    <3>5. HmiVars' = HmiVars
      BY <2>1, Same
    <3> QED BY <1>1, <1>3, <2>1, <2>4, <3>1, <3>3, <3>4, <3>5 DEF StoresFilled, Filled
  <2>9. ValuesSet'
    <3>1. /\ values'.proc = Append(values.proc, 0) /\ values'.var = values.var
          /\ values' = [proc |-> values'.proc, var |-> values'.var]
      BY <1>1, <2>1 DEF ValuesSet
    <3>2. values.proc \in Seq(Range(values.proc)) /\ Len(values.proc) = n - 1
      BY <1>1, <1>3 DEF ValuesSet
    <3>3. values'.proc \in Seq(Range(values'.proc)) /\ Len(values'.proc) = n
      BY <3>1, <3>2, AppendFacts
    <3>4. HmiVars' = HmiVars
      BY <2>1, Same
    <3> QED BY <1>1, <1>3, <2>1, <2>4, <3>1, <3>3, <3>4 DEF ValuesSet
  <2> QED BY <2>1, <2>2, <2>3, <2>7, <2>8, <2>9, Whole
<1> QED BY <1>4, <1>5

LEMMA ProcVarsDoneStep ==
    ASSUME BuildInv, ProcVarsDone PROVE BuildInv'
<1>1. /\ config \in Configs /\ Loops /\ Checked /\ BackendsBound /\ TableFilled
      /\ IoTagsDiffer /\ StoresFilled /\ ValuesSet /\ phase = "proc"
  BY Parts DEF ProcVarsDone
<1>2. VarCount \in Nat /\ HmiCount \in Nat /\ MaxVars \in Nat
  BY <1>1, Tables, Sizes
<1>3. CASE VarCount > MaxVars
  <2>1. Fail
    BY <1>3 DEF ProcVarsDone, VarCount
  <2>2. ~Limits
    BY <1>2, <1>3 DEF Limits, VarCount
  <2> QED BY <2>1, <2>2, FailStep DEF Sound
<1>4. CASE ~(VarCount > MaxVars)
  <2>1. /\ i > VarCount /\ phase' = "hmi" /\ i' = 1 /\ j' = 1
        /\ proc_store' = [proc_store EXCEPT !.count = VarCount]
        /\ UNCHANGED <<config, backends, table, hmi_store, values, request>>
    BY <1>4 DEF ProcVarsDone, VarCount, Proceed, remote
  <2>2. Loops' /\ Checked'
    BY <1>1, <1>2, <2>1, CheckedStays, Same DEF Loops, Phases
  <2>3. BackendsBound'
    BY <1>1, <2>1, BoundStays DEF Backed
  <2>4. /\ VarsAdded = VarCount /\ VarsAdded' = VarCount /\ HmiAdded = 0 /\ HmiAdded' = 0
        /\ \A d : IoAdded(d)' = IoAdded(d)
    BY <1>1, <1>2, <2>1, Same DEF Loops, VarsAdded, HmiAdded, IoAdded, Filled
  <2>5. TableFilled' /\ IoTagsDiffer'
    BY <1>1, <2>1, <2>4, TableStays
  <2>6. StoresFilled'
    <3>1. /\ proc_store'.types = proc_store.types /\ proc_store'.count = VarCount
          /\ proc_store' = [types |-> proc_store'.types, count |-> proc_store'.count]
      BY <1>1, <2>1 DEF StoresFilled
    <3>2. HmiVars' = HmiVars /\ VarCount' = VarCount
      BY <2>1, Same
    <3> QED BY <1>1, <1>2, <1>4, <2>1, <2>4, <3>1, <3>2 DEF StoresFilled, Filled
  <2>7. ValuesSet'
    BY <1>1, <2>1, <2>4, ValuesStay
  <2> QED BY <2>1, <2>2, <2>3, <2>5, <2>6, <2>7, Whole
<1> QED BY <1>3, <1>4

\* Where the loop over the HMI tags is.
LEMMA HmiLoop ==
    ASSUME BuildInv, phase = "hmi", i <= HmiCount
    PROVE  /\ config \in Configs /\ Loops /\ Checked /\ BackendsBound /\ TableFilled
           /\ IoTagsDiffer /\ StoresFilled /\ ValuesSet
           /\ \E n \in Nat \ {0} :
                 /\ n = i /\ n \in DOMAIN config.hmi /\ n \in 1 .. HmiCount
                 /\ VarsAdded = VarCount /\ HmiAdded = n - 1 /\ n - 1 \in Nat
                 /\ Added = VarCount + n - 1 /\ Len(table) = VarCount + n - 1
                 /\ VarCount \in Nat /\ HmiCount \in Nat
<1>1. /\ config \in Configs /\ Loops /\ Checked /\ BackendsBound /\ TableFilled
      /\ IoTagsDiffer /\ StoresFilled /\ ValuesSet
  BY Parts
<1>2. PICK n \in Nat \ {0} : n = i
  BY <1>1 DEF Loops
<1>3. /\ n \in DOMAIN config.hmi /\ n \in 1 .. HmiCount /\ n - 1 \in Nat
      /\ VarCount \in Nat /\ HmiCount \in Nat
  BY <1>1, <1>2, Tables
<1>4. VarsAdded = VarCount /\ HmiAdded = n - 1
  BY <1>2 DEF VarsAdded, HmiAdded
<1>5. Added = VarCount + n - 1
  BY <1>3, <1>4 DEF Added
<1>6. Len(table) = Added
  BY <1>1, NoIoYet
<1> QED BY <1>1, <1>2, <1>3, <1>4, <1>5, <1>6

\* An HMI tag with a new name.
LEMMA OneMoreHmi ==
    ASSUME BuildInv, phase = "hmi", NEW n \in Nat \ {0}, n = i, i <= HmiCount,
           phase' = "hmi", i' = n + 1, j' = 1, UNCHANGED <<config, backends>>,
           NEW e, table' = Append(table, e), e.name = HmiName(n), Addable(HmiName(n)),
           table'[VarCount + n] = e => HmiVarEntry(n)' \/ AliasEntry(n)'
    PROVE  /\ Loops' /\ Checked' /\ BackendsBound' /\ TableFilled' /\ IoTagsDiffer'
           /\ VarsAdded' = VarCount /\ HmiAdded' = n /\ VarCount' = VarCount
           /\ HmiVars' = HmiVars
<1>1. /\ config \in Configs /\ Loops /\ Checked /\ BackendsBound /\ TableFilled
      /\ n \in 1 .. HmiCount /\ VarsAdded = VarCount /\ HmiAdded = n - 1
      /\ Added = VarCount + n - 1 /\ Len(table) = VarCount + n - 1
      /\ VarCount \in Nat /\ HmiCount \in Nat
  BY HmiLoop
<1>2. VarCount' = VarCount /\ HmiCount' = HmiCount /\ HmiVars' = HmiVars
  BY Same
<1>3. Loops' /\ Checked'
  <2>1. n + 1 \in 1 .. HmiCount + 1 /\ n + 1 \in Nat
    BY <1>1
  <2> QED BY <1>1, <1>2, <2>1, CheckedStays DEF Loops, Phases
<1>4. BackendsBound'
  BY <1>1, BoundStays DEF Backed
<1>5. VarsAdded' = VarCount /\ HmiAdded' = n /\ \A d : IoAdded(d)' = 0
  BY <1>2 DEF VarsAdded, HmiAdded, IoAdded, Filled
<1>6. Added' = VarCount + n
  BY <1>5 DEF Added
<1>7. /\ table' \in Seq(Range(table')) /\ Len(table') = Len(table) + 1
      /\ Len(table') <= MaxTags /\ table'[Len(table) + 1] = e
      /\ \A k, m \in 1 .. Len(table') : table'[k].name = table'[m].name => k = m
      /\ \A k \in 1 .. VarCount : ProcEntry(k)'
      /\ \A k \in 1 .. n - 1 : HmiVarEntry(k)' \/ AliasEntry(k)'
  BY <1>1, OneMoreEntry
<1>8. Len(table) + 1 = VarCount + n
  BY <1>1
<1>9. HmiVarEntry(n)' \/ AliasEntry(n)'
  BY <1>7, <1>8
<1>10. \A k \in 1 .. n : HmiVarEntry(k)' \/ AliasEntry(k)'
  <2>1. \A k \in 1 .. n : k = n \/ k \in 1 .. n - 1
    OBVIOUS
  <2> QED BY <1>7, <1>9, <2>1
<1>11. Len(table') = VarCount + n /\ VarCount + n \in Nat
  BY <1>1, <1>7, <1>8
<1>12. /\ Added' <= Len(table')
       /\ \A k \in 1 .. Len(table') : ~(k > Added')
  BY <1>6, <1>11
<1>13. TableFilled'
  BY <1>2, <1>5, <1>7, <1>10, <1>12 DEF TableFilled
<1>14. IoTagsDiffer'
  BY <1>5 DEF IoTagsDiffer
<1> QED BY <1>2, <1>3, <1>4, <1>5, <1>13, <1>14

LEMMA HmiNameRefused ==
    ASSUME BuildInv, phase = "hmi", NEW n, n = i, i <= HmiCount,
           ~Addable(HmiName(n))
    PROVE  ~Sound
<1>1. /\ config \in Configs /\ Loops /\ Checked /\ TableFilled
      /\ n \in DOMAIN config.hmi
  BY HmiLoop
<1>2. HmiName(n) \in Names
  BY <1>1 DEF Names, HmiName
<1> QED BY <1>1, <1>2, HmiNameFree, TableFull DEF Addable, Sound

LEMMA AddAliasStep ==
    ASSUME BuildInv, AddAlias PROVE BuildInv'
<1>1. phase = "hmi" /\ i <= HmiCount /\ config.hmi[i].kind = "alias"
  BY DEF AddAlias, HmiCount
<1>2. PICK n \in Nat \ {0} :
          /\ n = i /\ n \in DOMAIN config.hmi /\ n \in 1 .. HmiCount
          /\ VarsAdded = VarCount /\ HmiAdded = n - 1 /\ n - 1 \in Nat
          /\ Added = VarCount + n - 1 /\ Len(table) = VarCount + n - 1
          /\ VarCount \in Nat /\ HmiCount \in Nat
  BY <1>1, HmiLoop
<1>3. /\ config \in Configs /\ Loops /\ Checked /\ BackendsBound /\ TableFilled
      /\ IoTagsDiffer /\ StoresFilled /\ ValuesSet
  BY Parts, <1>1
<1>4. PICK target : target = FindId(config.hmi[n].target)
  OBVIOUS
<1>5. CASE target = 0
  <2>1. Fail
    BY <1>2, <1>4, <1>5 DEF AddAlias
  <2>2. \A k \in 1 .. Len(table) : table[k].name # config.hmi[n].target
    BY <1>3, <1>4, <1>5, TableTypes, Finding DEF TableFilled
  <2>3. \A k \in 1 .. VarCount + n - 1 :
            AllNames[k] # config.hmi[n].target
    <3>1. SUFFICES ASSUME NEW k \in 1 .. VarCount + n - 1
                   PROVE  AllNames[k] # config.hmi[n].target
      OBVIOUS
    <3>2. k \in 1 .. Len(table) /\ k <= Added
      BY <1>2
    <3>3. table[k].name = AllNames[k]
      BY <1>1, <1>3, <3>2, EntryNames
    <3> QED BY <2>2, <3>2, <3>3
  <2>4. ~AliasesLookBack
    <3>1. ASSUME NEW v \in DOMAIN config.vars, config.hmi[n].target = ProcName(v)
          PROVE  FALSE
      <4>1. v \in 1 .. VarCount /\ v \in 1 .. VarCount + n - 1
        BY <1>2, <1>3, Tables
      <4>2. AllNames[v] = ProcName(v)
        BY <1>3, <4>1, NamesListed
      <4> QED BY <2>3, <3>1, <4>1, <4>2
    <3>2. ASSUME NEW m \in 1 .. n - 1, config.hmi[n].target = HmiName(m)
          PROVE  FALSE
      <4>1. m \in 1 .. HmiCount /\ VarCount + m \in 1 .. VarCount + n - 1
        BY <1>2
      <4>2. AllNames[VarCount + m] = HmiName(m)
        BY <1>3, <4>1, NamesListed
      <4> QED BY <2>3, <3>2, <4>1, <4>2
    <3> QED BY <1>1, <1>2, <3>1, <3>2 DEF AliasesLookBack, ProcName, HmiName
  <2> QED BY <2>1, <2>4, FailStep DEF Sound
<1>6. CASE target # 0 /\ ~Addable(HmiName(n))
  <2>1. Fail
    BY <1>2, <1>4, <1>6 DEF AddAlias, HmiName
  <2> QED BY <1>1, <1>2, <1>6, <2>1, HmiNameRefused, FailStep
<1>7. CASE target # 0 /\ Addable(HmiName(n))
  <2> DEFINE e == [name |-> HmiName(n), kind |-> "alias", type |-> table[target].type,
                   target |-> target, access |-> config.hmi[n].access]
  <2>1. /\ table' = Append(table, e) /\ phase' = "hmi" /\ i' = n + 1 /\ j' = 1
        /\ UNCHANGED <<config, backends, proc_store, hmi_store, values, request>>
    BY <1>2, <1>4, <1>7 DEF AddAlias, HmiName, Proceed, remote, stores
  <2>2. e.name = HmiName(n)
    OBVIOUS
  <2>3. target \in 1 .. Len(table) /\ table[target].name = config.hmi[n].target
    BY <1>3, <1>4, <1>7, TableTypes, Finding DEF TableFilled
  <2>4. /\ table'[target] = table[target] /\ target \in 1 .. VarCount + n - 1
    BY <1>2, <1>3, <2>1, <2>3, AppendFacts DEF TableFilled
  <2>5. ASSUME table'[VarCount + n] = e PROVE AliasEntry(n)'
    <3>1. VarCount' = VarCount /\ HmiName(n)' = HmiName(n) /\ config' = config
      BY <2>1, Same
    <3> QED BY <1>1, <1>2, <2>3, <2>4, <2>5, <3>1 DEF AliasEntry
  <2> HIDE DEF e
  <2>6. /\ Loops' /\ Checked' /\ BackendsBound' /\ TableFilled' /\ IoTagsDiffer'
        /\ VarsAdded' = VarCount /\ HmiAdded' = n /\ HmiVars' = HmiVars
        /\ VarCount' = VarCount
    BY <1>1, <1>2, <1>7, <2>1, <2>2, <2>5, OneMoreHmi
  <2>7. Rank(HmiVars, n) = Rank(HmiVars, n - 1) /\ n \notin HmiVars
    <3>1. n \notin HmiVars
      BY <1>1, <1>2 DEF HmiVars
    <3>2. PICK m \in Nat : m + 1 = n /\ m = n - 1
      BY <1>2
    <3>3. Rank(HmiVars, m + 1) = Rank(HmiVars, m)
      BY <3>1, <3>2, Ranks
    <3> QED BY <3>1, <3>2, <3>3
  <2>8. \A k \in HmiVars : k <= n => k <= n - 1
    <3>1. HmiVars \subseteq 1 .. HmiCount
      BY <1>3, Tables DEF HmiVars
    <3> QED BY <1>2, <2>7, <3>1
  <2>9. StoresFilled'
    BY <1>1, <1>2, <1>3, <2>1, <2>6, <2>7, <2>8 DEF StoresFilled, Filled
  <2>10. ValuesSet'
    BY <1>1, <1>2, <1>3, <2>1, <2>6, <2>7 DEF ValuesSet
  <2> QED BY <2>1, <2>6, <2>9, <2>10, Whole
<1> QED BY <1>5, <1>6, <1>7

LEMMA AddHmiVarStep ==
    ASSUME BuildInv, AddHmiVar PROVE BuildInv'
<1>1. phase = "hmi" /\ i <= HmiCount /\ config.hmi[i].kind = "var"
  BY DEF AddHmiVar, HmiCount
<1>2. PICK n \in Nat \ {0} :
          /\ n = i /\ n \in DOMAIN config.hmi /\ n \in 1 .. HmiCount
          /\ VarsAdded = VarCount /\ HmiAdded = n - 1 /\ n - 1 \in Nat
          /\ Added = VarCount + n - 1 /\ Len(table) = VarCount + n - 1
          /\ VarCount \in Nat /\ HmiCount \in Nat
  BY <1>1, HmiLoop
<1>3. /\ config \in Configs /\ Loops /\ Checked /\ BackendsBound /\ TableFilled
      /\ IoTagsDiffer /\ StoresFilled /\ ValuesSet
  BY Parts, <1>1
<1>4. PICK r \in Nat : r = Rank(HmiVars, n - 1) /\ r = Len(hmi_store.types)
  BY <1>2, <1>3, Ranks DEF StoresFilled
<1>5. n \in HmiVars /\ HmiVars \subseteq 1 .. HmiCount
  BY <1>1, <1>2, <1>3, Tables DEF HmiVars
<1>6. Rank(HmiVars, n) = r + 1
  <2>1. PICK m \in Nat : m + 1 = n /\ m = n - 1
    BY <1>2
  <2>2. Rank(HmiVars, m + 1) = Rank(HmiVars, m) + 1
    BY <1>5, <2>1, Ranks
  <2> QED BY <1>4, <2>1, <2>2
<1>7. VarIndex = r + 1
  BY <1>4 DEF VarIndex
<1>8. CASE r >= MaxVars
  <2>1. Fail
    BY <1>4, <1>8 DEF AddHmiVar
  <2>2. Rank(HmiVars, n) <= Cardinality(HmiVars) /\ Cardinality(HmiVars) \in Nat
    <3>1. HmiVars \cap (1 .. HmiCount) = HmiVars
      BY <1>5
    <3>2. Cardinality(HmiVars) = Rank(HmiVars, HmiCount)
      BY <3>1 DEF Rank
    <3>3. n <= HmiCount /\ n \in Nat /\ HmiCount \in Nat
      BY <1>2
    <3>4. Rank(HmiVars, n) <= Rank(HmiVars, HmiCount)
      BY <3>3, RanksGrow
    <3>5. Rank(HmiVars, HmiCount) \in Nat
      BY <3>3, Ranks
    <3> QED BY <3>2, <3>4, <3>5
  <2>3. Cardinality(HmiVars) > MaxVars
    BY <1>6, <1>8, <2>2, Sizes
  <2>4. ~Limits
    BY <2>2, <2>3, Sizes DEF Limits, HmiVars
  <2> QED BY <2>1, <2>4, FailStep DEF Sound
<1>9. CASE ~(r >= MaxVars) /\ ~Addable(HmiName(n))
  <2>1. Fail
    BY <1>2, <1>4, <1>9 DEF AddHmiVar, HmiName
  <2> QED BY <1>1, <1>2, <1>9, <2>1, HmiNameRefused, FailStep
<1>10. CASE ~(r >= MaxVars) /\ Addable(HmiName(n))
  <2> DEFINE e == [name |-> HmiName(n), kind |-> "var", type |-> config.hmi[n].type,
                   index |-> r + 1, access |-> config.hmi[n].access]
  <2>1. /\ table' = Append(table, e) /\ phase' = "hmi" /\ i' = n + 1 /\ j' = 1
        /\ hmi_store' = [hmi_store EXCEPT !.types = Append(@, config.hmi[n].type)]
        /\ values' = [values EXCEPT !.var = Append(@, 0)]
        /\ UNCHANGED <<config, backends, proc_store, request>>
    BY <1>2, <1>4, <1>7, <1>10 DEF AddHmiVar, HmiName, Proceed, remote
  <2>2. e.name = HmiName(n)
    OBVIOUS
  <2>3. HmiVars' = HmiVars /\ VarCount' = VarCount /\ HmiName(n)' = HmiName(n)
    BY <2>1, Same
  <2>4. Rank(HmiVars, n)' = r + 1
    BY <1>6, <2>3
  <2>5. ASSUME table'[VarCount + n] = e PROVE HmiVarEntry(n)'
    BY <1>1, <1>2, <2>1, <2>3, <2>4, <2>5 DEF HmiVarEntry
  <2> HIDE DEF e
  <2>6. /\ Loops' /\ Checked' /\ BackendsBound' /\ TableFilled' /\ IoTagsDiffer'
        /\ VarsAdded' = VarCount /\ HmiAdded' = n
    BY <1>1, <1>2, <1>10, <2>1, <2>2, <2>5, OneMoreHmi
  <2>7. r + 1 <= MaxVars /\ MaxVars \in Nat
    BY <1>10, Sizes
  <2>8. StoresFilled'
    <3>1. /\ hmi_store'.types = Append(hmi_store.types, config.hmi[n].type)
          /\ hmi_store' = [types |-> hmi_store'.types, count |-> hmi_store'.count]
      BY <1>3, <2>1 DEF StoresFilled
    <3>2. /\ hmi_store.types \in Seq(Range(hmi_store.types))
          /\ \A k \in HmiVars : k <= n - 1 =>
                hmi_store.types[Rank(HmiVars, k)] = config.hmi[k].type
      BY <1>2, <1>3 DEF StoresFilled
    <3>3. /\ hmi_store'.types \in Seq(Range(hmi_store'.types))
          /\ Len(hmi_store'.types) = r + 1
          /\ hmi_store'.types[r + 1] = config.hmi[n].type
          /\ \A k \in 1 .. r : hmi_store'.types[k] = hmi_store.types[k]
      BY <1>4, <3>1, <3>2, AppendFacts
    <3>4. ASSUME NEW k \in HmiVars, k <= n
          PROVE  hmi_store'.types[Rank(HmiVars, k)] = config.hmi[k].type
      <4>1. CASE k = n
        BY <1>6, <3>3, <4>1
      <4>2. CASE k # n
        <5>1. k \in Nat \ {0} /\ n \in Nat \ {0} /\ k < n /\ k <= n - 1
          BY <1>2, <1>5, <3>4, <4>2
        <5>2. Rank(HmiVars, k) \in Nat \ {0} /\ Rank(HmiVars, k) < Rank(HmiVars, n)
          BY <1>5, <5>1, RanksDiffer
        <5>3. Rank(HmiVars, k) \in 1 .. r
          BY <1>4, <1>6, <5>2
        <5> QED BY <3>2, <3>3, <5>1, <5>3
      <4> QED BY <4>1, <4>2
    <3> QED BY <1>1, <1>2, <1>3, <1>6, <2>1, <2>3, <2>6, <2>7, <3>1, <3>3, <3>4
            DEF StoresFilled, Filled
  <2>9. ValuesSet'
    <3>1. /\ values'.var = Append(values.var, 0) /\ values'.proc = values.proc
          /\ values' = [proc |-> values'.proc, var |-> values'.var]
      BY <1>3, <2>1 DEF ValuesSet
    <3>2. values.var \in Seq(Range(values.var)) /\ Len(values.var) = r
      BY <1>2, <1>3, <1>4 DEF ValuesSet
    <3>3. values'.var \in Seq(Range(values'.var)) /\ Len(values'.var) = r + 1
      BY <3>1, <3>2, AppendFacts
    <3> QED BY <1>1, <1>2, <1>3, <2>1, <2>4, <2>6, <3>1, <3>3 DEF ValuesSet
  <2> QED BY <2>1, <2>6, <2>8, <2>9, Whole
<1> QED BY <1>8, <1>9, <1>10

LEMMA AddOtherStep ==
    ASSUME BuildInv, AddOther PROVE BuildInv'
<1>1. /\ phase = "hmi" /\ i <= HmiCount /\ config.hmi[i].kind \notin {"alias", "var"}
      /\ Fail
  BY DEF AddOther, HmiCount
<1>2. PICK n \in DOMAIN config.hmi : n = i
  BY <1>1, HmiLoop
<1>3. ~Limits
  BY <1>1, <1>2 DEF Limits
<1> QED BY <1>1, <1>3, FailStep DEF Sound

LEMMA HmiDoneStep ==
    ASSUME BuildInv, HmiDone PROVE BuildInv'
<1>1. /\ config \in Configs /\ Loops /\ Checked /\ BackendsBound /\ TableFilled
      /\ IoTagsDiffer /\ StoresFilled /\ ValuesSet /\ phase = "hmi" /\ i > HmiCount
  BY Parts DEF HmiDone, HmiCount
<1>2. /\ VarCount \in Nat /\ HmiCount \in Nat /\ i = HmiCount + 1
  BY <1>1, Tables DEF Loops
<1>3. /\ phase' = "io" /\ i' = 1 /\ j' = 1
      /\ hmi_store' = [hmi_store EXCEPT !.count = Len(hmi_store.types)]
      /\ UNCHANGED <<config, backends, table, proc_store, values, request>>
  BY DEF HmiDone, Proceed, remote
<1>4. Checked' /\ VarCount' = VarCount /\ HmiCount' = HmiCount /\ HmiVars' = HmiVars
  BY <1>1, <1>3, CheckedStays, Same
<1>5. Loops'
  <2>1. Len(config.devices) \in Nat /\ DOMAIN config.devices = 1 .. Len(config.devices)
    BY <1>1, Tables
  <2>2. \A d \in DOMAIN config.devices : Len(TagsOf(d)) \in Nat
    BY <1>1, TagTables DEF Checked
  <2>3. \A d \in DOMAIN config.devices : TagsOf(d)' = TagsOf(d)
    BY <1>3, Same
  <2>4. ASSUME 1 <= Len(config.devices)
        PROVE  1 \in 1 .. Len(TagsOf(1)) + 1 /\ TagsOf(1)' = TagsOf(1)
    <3>1. 1 \in DOMAIN config.devices
      BY <2>1, <2>4
    <3>2. Len(TagsOf(1)) \in Nat
      BY <2>2, <3>1
    <3> QED BY <2>3, <3>1, <3>2
  <2>5. 1 \in 1 .. Len(config.devices) + 1
    BY <2>1
  <2>6. TagsOf(i)' = TagsOf(1)'
    BY <1>3 DEF TagsOf
  <2> QED BY <1>3, <2>4, <2>5, <2>6 DEF Loops, Phases
<1>6. BackendsBound'
  BY <1>1, <1>3, BoundStays DEF Backed
<1>7. /\ VarsAdded = VarCount /\ VarsAdded' = VarCount
      /\ HmiAdded = HmiCount /\ HmiAdded' = HmiCount
  BY <1>1, <1>2, <1>3, <1>4 DEF VarsAdded, HmiAdded
<1>8. ASSUME NEW d \in DOMAIN config.devices PROVE IoAdded(d)' = IoAdded(d)
  <2>1. d \in Nat \ {0}
    BY <1>1, Tables
  <2> QED BY <1>1, <1>3, <2>1 DEF IoAdded, Filled
<1>9. TableFilled' /\ IoTagsDiffer'
  BY <1>1, <1>3, <1>7, <1>8, TableStays
<1>10. StoresFilled'
  <2>1. /\ hmi_store'.types = hmi_store.types /\ hmi_store'.count = Len(hmi_store.types)
        /\ hmi_store' = [types |-> hmi_store'.types, count |-> hmi_store'.count]
    BY <1>1, <1>3 DEF StoresFilled
  <2> QED BY <1>1, <1>3, <1>4, <1>7, <2>1 DEF StoresFilled, Filled
<1>11. ValuesSet'
  BY <1>1, <1>3, <1>7, ValuesStay
<1> QED BY <1>3, <1>4, <1>5, <1>6, <1>9, <1>10, <1>11, Whole

LEMMA AddIoTagStep ==
    ASSUME BuildInv, AddIoTag PROVE BuildInv'
<1>1. /\ config \in Configs /\ Loops /\ Checked /\ BackendsBound /\ TableFilled
      /\ IoTagsDiffer /\ StoresFilled /\ ValuesSet /\ phase = "io"
      /\ i <= Len(config.devices) /\ j <= Len(TagsOf(i))
  BY Parts DEF AddIoTag, TagsOf
<1>2. PICK d \in Nat \ {0} : d = i
  BY <1>1 DEF Loops
<1>3. PICK m \in Nat \ {0} : m = j
  BY <1>1, <1>2 DEF Loops
<1>4. /\ d \in DOMAIN config.devices /\ d <= Len(config.devices)
      /\ Len(config.devices) \in Nat /\ DOMAIN config.devices = 1 .. Len(config.devices)
  BY <1>1, <1>2, Tables
<1>5. /\ Len(TagsOf(d)) \in Nat /\ DOMAIN TagsOf(d) = 1 .. Len(TagsOf(d))
      /\ m \in DOMAIN TagsOf(d) /\ m <= Len(TagsOf(d))
  <2>1. Len(TagsOf(d)) \in Nat /\ DOMAIN TagsOf(d) = 1 .. Len(TagsOf(d))
    BY <1>1, <1>4, AddedFacts
  <2>2. m <= Len(TagsOf(d))
    BY <1>1, <1>2, <1>3
  <2> QED BY <2>1, <2>2
<1> DEFINE t == TagsOf(d)[m]
           model == config.devices[d].model
           e == [name |-> IoName(d, m), kind |-> "io", type |-> t.type,
                 backend |-> BackendIndex(d), device |-> DeviceIndex(d), dir |-> t.dir,
                 offset |-> t.offset, bit |-> t.bit]
<1>6. CASE ~ValidTag(t, model)
  <2>1. Fail
    BY <1>2, <1>3, <1>6 DEF AddIoTag, TagsOf
  <2>2. ~Limits
    BY <1>4, <1>5, <1>6 DEF Limits
  <2> QED BY <2>1, <2>2, FailStep DEF Sound
<1>7. CASE ~Addable(IoName(d, m))
  <2>1. Fail
    BY <1>2, <1>3, <1>7 DEF AddIoTag, TagsOf, IoName
  <2>2. IoName(d, m) \in IoNames
    <3>1. t \in Range(TagsOf(d))
      BY <1>5 DEF Range
    <3> QED BY <1>4, <3>1 DEF IoNames, IoName, TagsOf
  <2>3. ~(Limits /\ UniqueNames)
    <3>1. CASE ~(Len(table) < MaxTags) /\ FindId(IoName(d, m)) = 0
      BY <1>1, <2>2, <3>1, TableFull
    <3>2. CASE FindId(IoName(d, m)) # 0
      <4>1. IoName(i, j) = IoName(d, m)
        BY <1>2, <1>3
      <4> QED BY <1>1, <3>2, <4>1, IoNameFree
    <3> QED BY <1>7, <3>1, <3>2 DEF Addable
  <2> QED BY <2>1, <2>3, FailStep DEF Sound
<1>8. CASE ValidTag(t, model) /\ Addable(IoName(d, m))
  <2>1. /\ table' = Append(table, e) /\ phase' = "io" /\ i' = d /\ j' = m + 1
        /\ UNCHANGED <<config, backends, proc_store, hmi_store, values, request>>
    BY <1>2, <1>3, <1>8 DEF AddIoTag, TagsOf, IoName, Proceed, remote, stores
  <2>2. e.name = IoName(d, m)
    OBVIOUS
  <2>3. /\ VarCount' = VarCount /\ HmiCount' = HmiCount /\ HmiVars' = HmiVars
        /\ TagsOf(d)' = TagsOf(d) /\ BackendIndex(d)' = BackendIndex(d)
        /\ DeviceIndex(d)' = DeviceIndex(d) /\ IoName(d, m)' = IoName(d, m)
    BY <2>1, Same
  <2>4. ASSUME NEW k, table'[k] = e PROVE IoEntry(k, d, m)'
    <3>1. ValidTag(TagsOf(d)[m], config.devices[d].model)'
      BY <1>8, <2>1, <2>3 DEF ValidTag, IoSize
    <3> QED BY <2>1, <2>3, <2>4, <3>1 DEF IoEntry
  <2> HIDE DEF e, t
  <2>5. Loops'
    <3>1. TagsOf(i)' = TagsOf(d)
      BY <2>1, <2>3 DEF TagsOf
    <3>2. m + 1 \in 1 .. Len(TagsOf(d)) + 1 /\ d \in 1 .. Len(config.devices) + 1
      BY <1>4, <1>5
    <3> QED BY <2>1, <3>1, <3>2 DEF Loops, Phases
  <2>6. Checked'
    BY <1>1, <2>1, CheckedStays
  <2>7. BackendsBound'
    BY <1>1, <2>1, BoundStays DEF Backed
  <2>8. /\ VarsAdded = VarCount /\ VarsAdded' = VarCount
        /\ HmiAdded = HmiCount /\ HmiAdded' = HmiCount
    BY <1>1, <2>1, <2>3 DEF VarsAdded, HmiAdded
  <2>9. Added' = Added
    BY <2>8 DEF Added
  <2>10. IoAdded(d) = m - 1 /\ IoAdded(d)' = m
    <3>1. IoAdded(d) = m - 1
      BY <1>1, <1>2, <1>3 DEF IoAdded, Filled
    <3>2. IoAdded(d)' = (m + 1) - 1
      BY <2>1 DEF IoAdded, Filled
    <3> QED BY <3>1, <3>2
  <2>11. \A c \in DOMAIN config.devices : c # d => IoAdded(c)' = IoAdded(c)
    BY <1>1, <1>2, <1>4, <2>1, Same DEF IoAdded, Filled
  <2>12. ASSUME NEW c \in DOMAIN config.devices, NEW n
         PROVE  n \in 1 .. IoAdded(c)' <=> n \in 1 .. IoAdded(c) \/ (c = d /\ n = m)
    <3>1. CASE c = d
      BY <2>10, <3>1
    <3>2. CASE c # d
      BY <2>11, <3>2
    <3> QED BY <3>1, <3>2
  <2>13. /\ table' \in Seq(Range(table')) /\ Len(table') = Len(table) + 1
         /\ Len(table) \in Nat
         /\ Len(table') <= MaxTags /\ table'[Len(table) + 1] = e
         /\ \A k, n \in 1 .. Len(table') : table'[k].name = table'[n].name => k = n
         /\ \A k \in 1 .. VarsAdded : ProcEntry(k)'
         /\ \A k \in 1 .. HmiAdded : HmiVarEntry(k)' \/ AliasEntry(k)'
         /\ \A k \in 1 .. Len(table) : k > Added =>
               \E c \in DOMAIN config.devices : \E n \in 1 .. IoAdded(c) : IoEntry(k, c, n)'
         /\ \A c \in DOMAIN config.devices : \A n \in 1 .. IoAdded(c) :
               \E k \in 1 .. Len(table) : k > Added /\ IoEntry(k, c, n)'
    BY <1>1, <1>8, <2>1, <2>2, OneMoreEntry
  <2>14. PICK last \in Nat : last = Len(table) + 1
    BY <2>13
  <2>15. IoEntry(last, d, m)' /\ last \in 1 .. Len(table')
    BY <2>4, <2>13, <2>14
  <2>16. Added <= Len(table') /\ last > Added /\ Added \in Nat
    <3>1. Added \in Nat /\ Added <= Len(table)
      BY <1>1, AddedFacts DEF TableFilled
    <3> QED BY <2>13, <2>14, <3>1
  <2>17. ASSUME NEW k \in 1 .. Len(table'), k > Added
         PROVE  \E c \in DOMAIN config.devices : \E n \in 1 .. IoAdded(c)' : IoEntry(k, c, n)'
    <3>1. CASE k = last
      BY <1>4, <2>12, <2>15, <3>1
    <3>2. CASE k # last
      <4>1. k \in 1 .. Len(table)
        BY <2>13, <2>14, <3>2
      <4>2. PICK c \in DOMAIN config.devices : \E n \in 1 .. IoAdded(c) : IoEntry(k, c, n)'
        BY <2>13, <2>17, <4>1
      <4> QED BY <2>12, <4>2
    <3> QED BY <3>1, <3>2
  <2>18. ASSUME NEW c \in DOMAIN config.devices, NEW n \in 1 .. IoAdded(c)'
         PROVE  \E k \in 1 .. Len(table') : k > Added /\ IoEntry(k, c, n)'
    <3>1. CASE c = d /\ n = m
      BY <2>15, <2>16, <3>1
    <3>2. CASE n \in 1 .. IoAdded(c)
      <4>1. PICK k \in 1 .. Len(table) : k > Added /\ IoEntry(k, c, n)'
        BY <2>13, <3>2
      <4>2. k \in 1 .. Len(table')
        BY <2>13
      <4> QED BY <4>1, <4>2
    <3> QED BY <2>12, <3>1, <3>2
  <2>19. TableFilled'
    BY <2>1, <2>8, <2>9, <2>13, <2>16, <2>17, <2>18 DEF TableFilled
  <2>20. ASSUME NEW c \in DOMAIN config.devices, NEW n \in 1 .. IoAdded(c)
         PROVE  IoName(c, n) # IoName(d, m)
    <3>1. PICK k \in 1 .. Len(table) : IoEntry(k, c, n)
      BY <1>1 DEF TableFilled
    <3>2. table[k].name = IoName(c, n)
      BY <3>1 DEF IoEntry
    <3>3. table[k].name # IoName(d, m)
      BY <1>1, <1>8, TableTypes, Finding DEF Addable, TableFilled
    <3> QED BY <3>2, <3>3
  <2>21. ASSUME NEW a \in DOMAIN config.devices, NEW c \in DOMAIN config.devices,
                NEW k \in 1 .. IoAdded(a)', NEW n \in 1 .. IoAdded(c)',
                IoName(a, k) = IoName(c, n)
         PROVE  a = c /\ k = n
    <3>1. /\ k \in 1 .. IoAdded(a) \/ (a = d /\ k = m)
          /\ n \in 1 .. IoAdded(c) \/ (c = d /\ n = m)
      BY <2>12
    <3>2. CASE k \in 1 .. IoAdded(a) /\ n \in 1 .. IoAdded(c)
      BY <1>1, <2>21, <3>2 DEF IoTagsDiffer
    <3>3. CASE k \in 1 .. IoAdded(a) /\ c = d /\ n = m
      BY <2>20, <2>21, <3>3
    <3>4. CASE a = d /\ k = m /\ n \in 1 .. IoAdded(c)
      BY <2>20, <2>21, <3>4
    <3> QED BY <3>1, <3>2, <3>3, <3>4
  <2>22. IoTagsDiffer'
    <3>1. \A a, k : IoName(a, k)' = IoName(a, k)
      BY <2>1, Same
    <3> QED BY <2>1, <2>21, <3>1 DEF IoTagsDiffer
  <2>23. StoresFilled'
    BY <1>1, <2>1, <2>8, StoresStay
  <2>24. ValuesSet'
    BY <1>1, <2>1, <2>8, ValuesStay
  <2> QED BY <2>1, <2>5, <2>6, <2>7, <2>19, <2>22, <2>23, <2>24, Whole
<1> QED BY <1>6, <1>7, <1>8

LEMMA IoTagsDoneStep ==
    ASSUME BuildInv, IoTagsDone PROVE BuildInv'
<1>1. /\ config \in Configs /\ Loops /\ Checked /\ BackendsBound /\ TableFilled
      /\ IoTagsDiffer /\ StoresFilled /\ ValuesSet /\ phase = "io"
  BY Parts DEF IoTagsDone
<1>2. PICK d \in Nat \ {0} : d = i
  BY <1>1 DEF Loops
<1>3. /\ Len(config.devices) \in Nat /\ DOMAIN config.devices = 1 .. Len(config.devices)
      /\ d \in 1 .. Len(config.devices) + 1
  BY <1>1, <1>2, Tables DEF Loops
<1>4. UNCHANGED <<config, backends, table, proc_store, hmi_store, values, request>>
  BY DEF IoTagsDone, Proceed, remote, built, stores
<1>5. /\ VarCount' = VarCount /\ HmiCount' = HmiCount /\ Checked'
      /\ \A c : TagsOf(c)' = TagsOf(c)
  BY <1>1, <1>4, Same, CheckedStays
<1>6. CASE d > Len(config.devices)
  <2>1. phase' = "stores" /\ i' = 1 /\ j' = 1
    BY <1>2, <1>6 DEF IoTagsDone, Proceed
  <2>2. Loops'
    BY <2>1 DEF Loops, Phases
  <2>3. UNCHANGED <<VarsAdded, HmiAdded>>
    BY <1>1, <1>5, <2>1 DEF VarsAdded, HmiAdded
  <2>4. ASSUME NEW c \in DOMAIN config.devices PROVE IoAdded(c)' = IoAdded(c)
    <3>1. c < d
      BY <1>3, <1>6
    <3>2. IoAdded(c) = Len(TagsOf(c))
      BY <1>1, <1>2, <3>1 DEF IoAdded
    <3>3. IoAdded(c)' = Len(TagsOf(c)')
      BY <2>1 DEF IoAdded, Filled
    <3> QED BY <1>5, <3>2, <3>3
  <2>5. BackendsBound'
    BY <1>1, <1>4, <2>1, BoundStays DEF Backed, Filled
  <2>6. TableFilled' /\ IoTagsDiffer'
    BY <1>1, <1>4, <2>3, <2>4, TableStays
  <2>7. StoresFilled'
    BY <1>1, <1>4, <2>1, <2>3, StoresStay
  <2>8. ValuesSet'
    BY <1>1, <1>4, <2>1, <2>3, ValuesStay
  <2> QED BY <1>4, <1>5, <2>1, <2>2, <2>5, <2>6, <2>7, <2>8, Whole
<1>7. CASE ~(d > Len(config.devices))
  <2>1. phase' = "io" /\ i' = d + 1 /\ j' = 1 /\ j > Len(TagsOf(d))
    BY <1>2, <1>7 DEF IoTagsDone, Proceed, TagsOf
  <2>2. d \in DOMAIN config.devices /\ d <= Len(config.devices)
    BY <1>3, <1>7
  <2>3. \A c \in DOMAIN config.devices : Len(TagsOf(c)) \in Nat
    BY <1>1, AddedFacts
  <2>4. j = Len(TagsOf(d)) + 1
    <3>1. j \in 1 .. Len(TagsOf(d)) + 1
      BY <1>1, <1>2, <2>2 DEF Loops
    <3> QED BY <2>1, <2>2, <2>3, <3>1
  <2>5. Loops'
    <3>1. d + 1 \in 1 .. Len(config.devices) + 1
      BY <1>3, <2>2
    <3>2. ASSUME d + 1 <= Len(config.devices)
          PROVE  1 \in 1 .. Len(TagsOf(d + 1)) + 1
      <4>1. d + 1 \in DOMAIN config.devices
        BY <1>3, <3>1, <3>2
      <4> QED BY <2>3, <4>1
    <3>3. TagsOf(i)' = TagsOf(d + 1)
      BY <1>4, <2>1 DEF TagsOf
    <3> QED BY <1>4, <2>1, <3>1, <3>2, <3>3 DEF Loops, Phases
  <2>6. UNCHANGED <<VarsAdded, HmiAdded>>
    BY <1>1, <1>5, <2>1 DEF VarsAdded, HmiAdded
  <2>7. ASSUME NEW c \in DOMAIN config.devices PROVE IoAdded(c)' = IoAdded(c)
    <3>1. c \in Nat
      BY <1>3
    <3>2. CASE c < d
      BY <1>1, <1>2, <1>5, <2>1, <3>1, <3>2 DEF IoAdded
    <3>3. CASE c = d
      <4>1. IoAdded(c) = j - 1
        BY <1>1, <1>2, <3>3 DEF IoAdded, Filled
      <4>2. IoAdded(c)' = Len(TagsOf(c)')
        BY <2>1, <3>3 DEF IoAdded
      <4> QED BY <1>5, <2>2, <2>3, <2>4, <3>3, <4>1, <4>2
    <3>4. CASE c > d
      <4>1. IoAdded(c) = 0
        BY <1>1, <1>2, <3>1, <3>4 DEF IoAdded, Filled
      <4>2. IoAdded(c)' = 0
        BY <2>1, <3>1, <3>4 DEF IoAdded, Filled
      <4> QED BY <4>1, <4>2
    <3> QED BY <3>1, <3>2, <3>3, <3>4
  <2>8. BackendsBound'
    BY <1>1, <1>4, <2>1, BoundStays DEF Backed, Filled
  <2>9. TableFilled' /\ IoTagsDiffer'
    BY <1>1, <1>4, <2>6, <2>7, TableStays
  <2>10. StoresFilled'
    BY <1>1, <1>4, <2>1, <2>6, StoresStay
  <2>11. ValuesSet'
    BY <1>1, <1>4, <2>1, <2>6, ValuesStay
  <2> QED BY <1>4, <1>5, <2>1, <2>5, <2>8, <2>9, <2>10, <2>11, Whole
<1> QED BY <1>6, <1>7
-----------------------------------------------------------------------------
(* Initial values. *)

\* tag_table_find_id finds each entry by its name.
LEMMA FoundAt ==
    ASSUME TableFilled, NEW k \in 1 .. Len(table)
    PROVE  FindId(table[k].name) = k
<1>1. Len(table) \in Nat
  BY TableTypes DEF TableFilled
<1>2. PICK m \in 0 .. Len(table) : m = FindId(table[k].name)
  BY <1>1, Finding DEF TableFilled
<1>3. m # 0 /\ table[m].name = table[k].name
  BY <1>1, <1>2, Finding DEF TableFilled
<1>4. m \in 1 .. Len(table)
  BY <1>1, <1>2, <1>3
<1> QED BY <1>2, <1>3, <1>4 DEF TableFilled

\* The entries of the variables, by their names.
LEMMA VarsFound ==
    ASSUME BuildInv, phase \in Filled
    PROVE  /\ VarCount \in Nat /\ DOMAIN config.vars = 1 .. VarCount
           /\ HmiVars \subseteq 1 .. HmiCount /\ HmiCount \in Nat
           /\ DOMAIN config.hmi = 1 .. HmiCount
           /\ \A k \in 1 .. VarCount :
                 k \in 1 .. Len(table) /\ FindId(ProcName(k)) = k /\ ProcEntry(k)
           /\ \A k \in 1 .. HmiCount :
                 /\ VarCount + k \in 1 .. Len(table)
                 /\ FindId(HmiName(k)) = VarCount + k
                 /\ HmiVarEntry(k) \/ AliasEntry(k)
           /\ \A k \in HmiVars : HmiVarEntry(k)
<1>1. config \in Configs /\ Loops /\ Checked /\ TableFilled
  BY Parts DEF Filled
<1>2. /\ VarCount \in Nat /\ DOMAIN config.vars = 1 .. VarCount
      /\ HmiVars \subseteq 1 .. HmiCount /\ HmiCount \in Nat
      /\ DOMAIN config.hmi = 1 .. HmiCount
  BY <1>1, Tables DEF HmiVars
<1>3. ASSUME NEW k \in 1 .. VarCount
      PROVE  k \in 1 .. Len(table) /\ FindId(ProcName(k)) = k /\ ProcEntry(k)
  <2>1. k \in 1 .. VarCount + HmiCount
    BY <1>2
  <2>2. k \in 1 .. Len(table) /\ VarsAdded = VarCount
    BY <1>1, <2>1, Complete
  <2>3. ProcEntry(k)
    BY <1>1, <2>2 DEF TableFilled
  <2>4. table[k].name = ProcName(k)
    BY <2>3 DEF ProcEntry
  <2>5. FindId(table[k].name) = k
    BY <1>1, <2>2, FoundAt
  <2> QED BY <2>2, <2>3, <2>4, <2>5
<1>4. ASSUME NEW k \in 1 .. HmiCount
      PROVE  /\ VarCount + k \in 1 .. Len(table)
             /\ FindId(HmiName(k)) = VarCount + k
             /\ HmiVarEntry(k) \/ AliasEntry(k)
  <2>1. VarCount + k \in 1 .. VarCount + HmiCount
    BY <1>2
  <2>2. VarCount + k \in 1 .. Len(table) /\ HmiAdded = HmiCount
    BY <1>1, <2>1, Complete
  <2>3. HmiVarEntry(k) \/ AliasEntry(k)
    BY <1>1, <2>2 DEF TableFilled
  <2>4. table[VarCount + k].name = HmiName(k)
    <3>1. CASE HmiVarEntry(k)
      BY <3>1 DEF HmiVarEntry
    <3>2. CASE AliasEntry(k)
      BY <3>2 DEF AliasEntry
    <3> QED BY <2>3, <3>1, <3>2
  <2>5. FindId(table[VarCount + k].name) = VarCount + k
    BY <1>1, <2>2, FoundAt
  <2> QED BY <2>2, <2>3, <2>4, <2>5
<1>5. ASSUME NEW k \in HmiVars PROVE HmiVarEntry(k)
  <2>1. config.hmi[k].kind = "var" /\ k \in 1 .. HmiCount
    BY <1>2 DEF HmiVars
  <2> QED BY <1>4, <2>1 DEF AliasEntry
<1> QED BY <1>2, <1>3, <1>4, <1>5

\* proc_init
LEMMA ProcInitials ==
    ASSUME BuildInv, phase \in Filled, NEW v, v = Initialised("proc", "proc", proc_store)
    PROVE  /\ v \in Seq(Range(v)) /\ Len(v) = VarCount
           /\ \A k \in DOMAIN config.vars : v[k] = config.vars[k].initial
<1>1. /\ StoresFilled /\ ValuesSet /\ VarCount \in Nat
      /\ DOMAIN config.vars = 1 .. VarCount /\ VarsAdded = VarCount
  BY Parts, VarsFound, Complete DEF Filled
<1>2. ASSUME NEW k \in 1 .. VarCount
      PROVE  Slot("proc", <<"proc", config.vars[k].name>>, proc_store) = k
  <2>1. FindId(<<"proc", config.vars[k].name>>) = k /\ ProcEntry(k)
    BY <1>2, VarsFound DEF ProcName
  <2>2. table[k].kind = "proc" /\ table[k].index = k
    BY <2>1 DEF ProcEntry
  <2>3. k <= proc_store.count /\ k # 0
    BY <1>1 DEF StoresFilled
  <2> QED BY <2>1, <2>2, <2>3 DEF Slot
<1> DEFINE at(k) == {desc \in Descs("proc") :
                         Slot("proc", <<"proc", desc.name>>, proc_store) = k}
<1>3. ASSUME NEW k \in 1 .. VarCount PROVE at(k) = {config.vars[k]}
  <2>1. Descs("proc") = {config.vars[m] : m \in 1 .. VarCount}
    BY <1>1 DEF Descs, Range
  <2> QED BY <1>2, <2>1
<1>4. DOMAIN values["proc"] = 1 .. VarCount
  <2>1. values.proc \in Seq(Range(values.proc)) /\ Len(values.proc) = VarCount
    BY <1>1 DEF ValuesSet
  <2> QED BY <2>1, LenProperties
<1>5. v = [k \in 1 .. VarCount |-> IF at(k) = {} THEN values["proc"][k]
                                   ELSE (CHOOSE desc \in at(k) : TRUE).initial]
  BY <1>4 DEF Initialised
<1>6. ASSUME NEW k \in 1 .. VarCount PROVE v[k] = config.vars[k].initial
  <2> HIDE DEF at
  <2>1. at(k) # {} /\ (CHOOSE desc \in at(k) : TRUE) = config.vars[k]
    BY <1>3
  <2> QED BY <1>5, <2>1
<1>7. v \in [1 .. VarCount -> Range(v)]
  <2> HIDE DEF at
  <2> QED BY <1>5 DEF Range
<1> QED BY <1>1, <1>6, <1>7, SeqDef, LenProperties

\* hmi_init
LEMMA HmiInitials ==
    ASSUME BuildInv, phase \in Filled, NEW v, v = Initialised("var", "hmi", hmi_store)
    PROVE  /\ v \in Seq(Range(v)) /\ Len(v) = Rank(HmiVars, HmiCount)
           /\ \A k \in HmiVars : v[Rank(HmiVars, k)] = config.hmi[k].initial
<1>1. /\ StoresFilled /\ ValuesSet /\ HmiCount \in Nat /\ HmiAdded = HmiCount
      /\ HmiVars \subseteq 1 .. HmiCount /\ DOMAIN config.hmi = 1 .. HmiCount
  BY Parts, VarsFound, Complete DEF Filled
<1>2. PICK n \in Nat : n = Rank(HmiVars, HmiCount)
  BY <1>1, Ranks
<1>3. ASSUME NEW k \in HmiVars PROVE Rank(HmiVars, k) \in 1 .. n
  <2>1. k \in Nat \ {0} /\ k <= HmiCount
    BY <1>1
  <2>2. Rank(HmiVars, k) \in Nat \ {0}
    BY <2>1, RanksDiffer
  <2>3. Rank(HmiVars, k) <= Rank(HmiVars, HmiCount)
    BY <1>1, <2>1, RanksGrow
  <2> QED BY <1>2, <2>2, <2>3
<1>4. ASSUME NEW k \in HmiVars
      PROVE  Slot("var", <<"hmi", config.hmi[k].name>>, hmi_store) = Rank(HmiVars, k)
  <2>1. PICK m \in Nat \ {0} : m = VarCount + k /\ FindId(HmiName(k)) = m
    BY <1>1, VarsFound
  <2>2. FindId(<<"hmi", config.hmi[k].name>>) = m
    BY <2>1 DEF HmiName
  <2>6. HmiVarEntry(k)
    BY VarsFound
  <2>3. table[m].kind = "var" /\ table[m].index = Rank(HmiVars, k)
    BY <2>1, <2>6 DEF HmiVarEntry
  <2>4. hmi_store.count = n
    BY <1>1, <1>2 DEF StoresFilled
  <2>5. Rank(HmiVars, k) <= hmi_store.count
    BY <1>3, <2>4
  <2> QED BY <2>1, <2>2, <2>3, <2>5 DEF Slot
<1> DEFINE at(k) == {desc \in Descs("var") :
                         Slot("var", <<"hmi", desc.name>>, hmi_store) = k}
<1>5. ASSUME NEW k \in HmiVars PROVE at(Rank(HmiVars, k)) = {config.hmi[k]}
  <2>1. Descs("var") = {config.hmi[m] : m \in HmiVars}
    BY <1>1 DEF Descs, Range, HmiVars
  <2>2. \A m \in HmiVars : Rank(HmiVars, m) = Rank(HmiVars, k) => m = k
    <3>1. SUFFICES ASSUME NEW m \in HmiVars, Rank(HmiVars, m) = Rank(HmiVars, k)
                   PROVE  m = k
      OBVIOUS
    <3>2. m \in Nat \ {0} /\ k \in Nat \ {0}
      BY <1>1
    <3> QED BY <3>1, <3>2, RanksDiffer
  <2> QED BY <1>4, <2>1, <2>2
<1>6. DOMAIN values["var"] = 1 .. n
  <2>1. values.var \in Seq(Range(values.var)) /\ Len(values.var) = n
    BY <1>1, <1>2 DEF ValuesSet
  <2> QED BY <2>1, LenProperties
<1>7. v = [k \in 1 .. n |-> IF at(k) = {} THEN values["var"][k]
                            ELSE (CHOOSE desc \in at(k) : TRUE).initial]
  BY <1>6 DEF Initialised
<1>8. ASSUME NEW k \in HmiVars PROVE v[Rank(HmiVars, k)] = config.hmi[k].initial
  <2> HIDE DEF at
  <2>1. PICK r \in 1 .. n : r = Rank(HmiVars, k)
    BY <1>3
  <2>2. at(r) # {} /\ (CHOOSE desc \in at(r) : TRUE) = config.hmi[k]
    BY <1>5, <2>1
  <2> QED BY <1>7, <2>1, <2>2
<1>9. v \in [1 .. n -> Range(v)]
  <2> HIDE DEF at
  <2> QED BY <1>7 DEF Range
<1> QED BY <1>2, <1>8, <1>9, SeqDef, LenProperties

LEMMA InitStoresStep ==
    ASSUME BuildInv, InitStores PROVE BuildInv'
<1>1. /\ config \in Configs /\ Loops /\ Checked /\ BackendsBound /\ TableFilled
      /\ IoTagsDiffer /\ StoresFilled /\ ValuesSet /\ phase = "stores" /\ phase \in Filled
  BY Parts DEF InitStores, Filled
<1>2. /\ phase' = "views" /\ i' = 1 /\ j' = 1 /\ phase' \in Filled
      /\ values' = AllInitialised
      /\ UNCHANGED <<config, backends, table, proc_store, hmi_store, request>>
  BY DEF InitStores, Proceed, remote, Filled
<1>3. Loops' /\ Checked'
  BY <1>1, <1>2, CheckedStays DEF Loops, Phases
<1>4. BackendsBound'
  BY <1>1, <1>2, BoundStays DEF Backed
<1>5. /\ VarCount' = VarCount /\ HmiCount' = HmiCount /\ HmiVars' = HmiVars
      /\ \A d : TagsOf(d)' = TagsOf(d)
  BY <1>2, Same
<1>6. /\ VarsAdded = VarCount /\ VarsAdded' = VarCount
      /\ HmiAdded = HmiCount /\ HmiAdded' = HmiCount
  BY <1>1, <1>2, <1>5 DEF VarsAdded, HmiAdded
<1>7. \A d \in DOMAIN config.devices : IoAdded(d)' = IoAdded(d)
  BY <1>1, <1>2, <1>5 DEF IoAdded
<1>8. TableFilled' /\ IoTagsDiffer'
  BY <1>1, <1>2, <1>6, <1>7, TableStays
<1>9. StoresFilled'
  BY <1>1, <1>2, <1>6, StoresStay
<1>10. ValuesSet'
  <2>1. /\ values' = [proc |-> values'.proc, var |-> values'.var]
        /\ values'.proc = Initialised("proc", "proc", proc_store)
        /\ values'.var = Initialised("var", "hmi", hmi_store)
    BY <1>2 DEF AllInitialised
  <2>2. /\ values'.proc \in Seq(Range(values'.proc)) /\ Len(values'.proc) = VarCount
        /\ \A k \in DOMAIN config.vars : values'.proc[k] = config.vars[k].initial
    BY <1>1, <2>1, ProcInitials
  <2>3. /\ values'.var \in Seq(Range(values'.var))
        /\ Len(values'.var) = Rank(HmiVars, HmiCount)
        /\ \A k \in HmiVars : values'.var[Rank(HmiVars, k)] = config.hmi[k].initial
    BY <1>1, <2>1, HmiInitials
  <2>4. request' = NoRequest
    BY <1>1, <1>2 DEF ValuesSet
  <2> QED BY <1>2, <1>5, <1>6, <2>1, <2>2, <2>3, <2>4 DEF ValuesSet
<1> QED BY <1>2, <1>3, <1>4, <1>8, <1>9, <1>10, Whole

LEMMA BindViewsStep ==
    ASSUME BuildInv, BindViews PROVE BuildInv'
<1>1. /\ config \in Configs /\ Loops /\ Checked /\ BackendsBound /\ TableFilled
      /\ IoTagsDiffer /\ StoresFilled /\ ValuesSet /\ phase = "views" /\ phase \in Filled
  BY Parts DEF BindViews, Filled
<1>2. /\ phase' \in {"run", "unbound"} /\ i' = 1 /\ j' = 1 /\ phase' \in Filled
      /\ UNCHANGED <<config, backends, table, proc_store, hmi_store, values, request>>
  BY DEF BindViews, Proceed, remote, built, stores, Filled
<1>3. Loops' /\ Checked'
  BY <1>1, <1>2, CheckedStays DEF Loops, Phases
<1>4. BackendsBound'
  BY <1>1, <1>2, BoundStays DEF Backed
<1>5. /\ VarCount' = VarCount /\ HmiCount' = HmiCount /\ \A d : TagsOf(d)' = TagsOf(d)
  BY <1>2, Same
<1>6. UNCHANGED <<VarsAdded, HmiAdded>>
  BY <1>1, <1>2, <1>5 DEF VarsAdded, HmiAdded
<1>7. \A d \in DOMAIN config.devices : IoAdded(d)' = IoAdded(d)
  BY <1>1, <1>2, <1>5 DEF IoAdded
<1>8. TableFilled' /\ IoTagsDiffer'
  BY <1>1, <1>2, <1>6, <1>7, TableStays
<1>9. StoresFilled'
  BY <1>1, <1>2, <1>6, StoresStay
<1>10. ValuesSet'
  BY <1>1, <1>2, <1>6, ValuesStay
<1> QED BY <1>2, <1>3, <1>4, <1>8, <1>9, <1>10, Whole
-----------------------------------------------------------------------------
(* Aliases are followed to the end. *)

\* resolve_entry has a result for each entry, however often it has followed an
\* alias on the way to it.
LEMMA Resolving ==
    ASSUME NEW for_write
    PROVE  Resolve(for_write) =
               [depth \in 0 .. MaxHops + 1 |-> [k \in 0 .. Len(table) |->
                   IF depth > MaxHops \/ k = 0 \/ (for_write /\ Denied(k)) THEN 0
                   ELSE IF table[k].kind = "alias"
                        THEN Resolve(for_write)[depth + 1][table[k].target]
                   ELSE k]]
<1> DEFINE Row(g, depth) ==
               [k \in 0 .. Len(table) |->
                   IF depth > MaxHops \/ k = 0 \/ (for_write /\ Denied(k)) THEN 0
                   ELSE IF table[k].kind = "alias" THEN g[depth + 1][table[k].target]
                   ELSE k]
           From(n) == n .. MaxHops + 1
           Good == {n \in 0 .. MaxHops + 1 :
                        \E g : g = [depth \in From(n) |-> Row(g, depth)]}
<1>1. MaxHops \in Nat
  BY Sizes
<1>2. MaxHops + 1 \in Good
  <2> DEFINE g == [depth \in From(MaxHops + 1) |-> [k \in 0 .. Len(table) |-> 0]]
  <2>1. ASSUME NEW depth \in From(MaxHops + 1), NEW h
        PROVE  Row(h, depth) = [k \in 0 .. Len(table) |-> 0]
    <3>1. depth > MaxHops
      BY <1>1
    <3> QED BY <3>1
  <2> HIDE DEF Row
  <2>2. g = [depth \in From(MaxHops + 1) |-> Row(g, depth)]
    BY <2>1
  <2> HIDE DEF g
  <2>3. MaxHops + 1 \in 0 .. MaxHops + 1
    BY <1>1
  <2> QED BY <2>2, <2>3
<1>3. PICK n \in Good : \A m \in Good : n <= m
  <2>1. Good \subseteq Nat /\ Good # {}
    <3> HIDE DEF Row
    <3>1. Good \subseteq 0 .. MaxHops + 1
      OBVIOUS
    <3> HIDE DEF Good
    <3> QED BY <1>1, <1>2, <3>1
  <2> HIDE DEF Good
  <2> QED BY <2>1, Least
<1>4. ASSUME n # 0 PROVE FALSE
  <2>1. PICK m \in 0 .. MaxHops : m + 1 = n
    <3>1. n \in 0 .. MaxHops + 1
      OBVIOUS
    <3>2. n - 1 \in 0 .. MaxHops /\ (n - 1) + 1 = n
      BY <1>1, <1>4, <3>1
    <3> QED BY <3>2
  <2>2. PICK g : g = [depth \in From(n) |-> Row(g, depth)]
    OBVIOUS
  <2> DEFINE h == [depth \in From(m) |-> IF depth = m THEN Row(g, m) ELSE g[depth]]
  <2>3. ASSUME NEW depth \in From(m) PROVE h[depth] = Row(h, depth)
    <3>1. depth \in From(n) \/ depth = m
      BY <1>1, <2>1
    <3>2. CASE depth > MaxHops
      <4>1. depth \in From(n) /\ depth # m
        BY <1>1, <2>1, <3>1, <3>2
      <4>2. h[depth] = Row(g, depth)
        <5> HIDE DEF Row
        <5> QED BY <2>2, <4>1
      <4>3. Row(g, depth) = Row(h, depth)
        <5> HIDE DEF h
        <5> QED BY <3>2
      <4> QED BY <4>2, <4>3
    <3>3. CASE ~(depth > MaxHops)
      <4>1. depth + 1 \in From(n) /\ depth + 1 \in From(m) /\ depth + 1 # m
        BY <1>1, <2>1, <3>3
      <4>2. h[depth + 1] = g[depth + 1]
        <5> HIDE DEF Row
        <5> QED BY <4>1
      <4>3. Row(g, depth) = Row(h, depth)
        <5> HIDE DEF h
        <5> QED BY <4>2
      <4>4. h[depth] = Row(g, depth)
        <5> HIDE DEF Row
        <5> QED BY <2>1, <2>2, <3>1
      <4> QED BY <4>3, <4>4
    <3> QED BY <3>2, <3>3
  <2>4. h = [depth \in From(m) |-> Row(h, depth)]
    <3>1. h = [depth \in From(m) |-> h[depth]]
      <4> HIDE DEF Row
      <4> QED OBVIOUS
    <3> HIDE DEF h, Row
    <3> QED BY <2>3, <3>1
  <2> HIDE DEF h, Row
  <2>5. m \in Good
    <3>1. m \in 0 .. MaxHops + 1
      BY <1>1
    <3> QED BY <2>4, <3>1
  <2>6. n <= m
    BY <1>3, <2>5
  <2> QED BY <1>1, <2>1, <2>6
<1>5. \E g : g = [depth \in 0 .. MaxHops + 1 |-> Row(g, depth)]
  <2> HIDE DEF Row
  <2> QED BY <1>4
<1> QED BY <1>5 DEF Resolve

LEMMA ResolveStep ==
    ASSUME NEW for_write, NEW depth \in 0 .. MaxHops + 1, NEW k \in 0 .. Len(table)
    PROVE  Resolve(for_write)[depth][k] =
               IF depth > MaxHops \/ k = 0 \/ (for_write /\ Denied(k)) THEN 0
               ELSE IF table[k].kind = "alias"
                    THEN Resolve(for_write)[depth + 1][table[k].target]
               ELSE k
<1> DEFINE f == Resolve(for_write)
<1>1. f = [n \in 0 .. MaxHops + 1 |-> [m \in 0 .. Len(table) |->
              IF n > MaxHops \/ m = 0 \/ (for_write /\ Denied(m)) THEN 0
              ELSE IF table[m].kind = "alias" THEN f[n + 1][table[m].target]
              ELSE m]]
  BY Resolving
<1> HIDE DEF f
<1>2. f[depth] = [m \in 0 .. Len(table) |->
              IF depth > MaxHops \/ m = 0 \/ (for_write /\ Denied(m)) THEN 0
              ELSE IF table[m].kind = "alias" THEN f[depth + 1][table[m].target]
              ELSE m]
  BY <1>1
<1>3. f[depth][k] = IF depth > MaxHops \/ k = 0 \/ (for_write /\ Denied(k)) THEN 0
              ELSE IF table[k].kind = "alias" THEN f[depth + 1][table[k].target]
              ELSE k
  BY <1>2
<1> QED BY <1>3 DEF f
-----------------------------------------------------------------------------
(* Remote writes. *)

LEMMA ManyInARow ==
    ASSUME NEW S, NEW n \in Nat, NEW t \in [1 .. n -> S]
    PROVE  t \in Seq(S) /\ Len(t) = n
  BY SeqDef, LenProperties

LEMMA OneChanged ==
    ASSUME NEW s, s \in Seq(Range(s)), NEW k, NEW y, NEW t, t = [s EXCEPT ![k] = y]
    PROVE  t \in Seq(Range(t)) /\ Len(t) = Len(s)
<1>1. PICK n \in Nat : n = Len(s) /\ DOMAIN s = 1 .. n
  BY LenProperties
<1>2. t \in [1 .. n -> Range(t)]
  <2>1. s = [m \in 1 .. n |-> s[m]]
    BY <1>1
  <2>2. t = [m \in 1 .. n |-> t[m]]
    BY <1>1, <2>1
  <2> QED BY <2>2 DEF Range
<1>3. t \in Seq(Range(t)) /\ Len(t) = n
  BY <1>2, ManyInARow
<1> QED BY <1>1, <1>3

\* A write changes a value at most.
LEMMA WrittenShape ==
    ASSUME values = [proc |-> values.proc, var |-> values.var],
           values.proc \in Seq(Range(values.proc)),
           values.var \in Seq(Range(values.var)), NEW e, NEW x, NEW v, v = Written(e, x)
    PROVE  /\ v = [proc |-> v.proc, var |-> v.var]
           /\ v.proc \in Seq(Range(v.proc)) /\ Len(v.proc) = Len(values.proc)
           /\ v.var \in Seq(Range(v.var)) /\ Len(v.var) = Len(values.var)
           /\ e.kind = "io" => v = values
<1>2. PICK y : y = IF e.type = "U32" THEN x ELSE x % (TypeMax[e.type] + 1)
  OBVIOUS
<1>3. CASE e.kind = "io"
  BY <1>3 DEF Written
<1>4. CASE e.kind = "proc"
  <2>1. v = [values EXCEPT !["proc"] = [values.proc EXCEPT ![e.index] = y]]
    BY <1>2, <1>4 DEF Written
  <2>2. /\ v = [proc |-> v.proc, var |-> v.var] /\ v.var = values.var
        /\ v.proc = [values.proc EXCEPT ![e.index] = y]
    BY <2>1
  <2>3. v.proc \in Seq(Range(v.proc)) /\ Len(v.proc) = Len(values.proc)
    <3>1. PICK s, t, k : s = values.proc /\ t = v.proc /\ k = e.index
      OBVIOUS
    <3>2. s \in Seq(Range(s)) /\ t = [s EXCEPT ![k] = y]
      BY <2>2, <3>1
    <3>3. t \in Seq(Range(t)) /\ Len(t) = Len(s)
      BY <3>2, OneChanged
    <3> QED BY <3>1, <3>3
  <2>4. v.var \in Seq(Range(v.var)) /\ Len(v.var) = Len(values.var)
    BY <2>2
  <2> QED BY <1>4, <2>2, <2>3, <2>4
<1>5. CASE e.kind = "var"
  <2>1. v = [values EXCEPT !["var"] = [values.var EXCEPT ![e.index] = y]]
    BY <1>2, <1>5 DEF Written
  <2>2. /\ v = [proc |-> v.proc, var |-> v.var] /\ v.proc = values.proc
        /\ v.var = [values.var EXCEPT ![e.index] = y]
    BY <2>1
  <2>3. v.var \in Seq(Range(v.var)) /\ Len(v.var) = Len(values.var)
    <3>1. PICK s, t, k : s = values.var /\ t = v.var /\ k = e.index
      OBVIOUS
    <3>2. s \in Seq(Range(s)) /\ t = [s EXCEPT ![k] = y]
      BY <2>2, <3>1
    <3>3. t \in Seq(Range(t)) /\ Len(t) = Len(s)
      BY <3>2, OneChanged
    <3> QED BY <3>1, <3>3
  <2>4. v.proc \in Seq(Range(v.proc)) /\ Len(v.proc) = Len(values.proc)
    BY <2>2
  <2> QED BY <1>5, <2>2, <2>3, <2>4
<1>6. CASE e.kind \notin {"io", "proc", "var"}
  <2>1. v = [values EXCEPT ![e.kind][e.index] = y]
    BY <1>2, <1>6 DEF Written
  <2>2. DOMAIN values = {"proc", "var"}
    OBVIOUS
  <2>3. v = values
    BY <1>6, <2>1, <2>2
  <2> QED BY <1>6, <2>3
<1> QED BY <1>3, <1>4, <1>5, <1>6

\* While the program runs only the values and the request change.
LEMMA RunsOn ==
    ASSUME BuildInv, phase = "run", ValuesSet',
           UNCHANGED <<config, phase, i, j, backends, table, proc_store, hmi_store>>
    PROVE  BuildInv'
<1>1. /\ config \in Configs /\ Loops /\ Checked /\ BackendsBound /\ TableFilled
      /\ IoTagsDiffer /\ StoresFilled
  BY Parts
<1>2. /\ VarCount' = VarCount /\ HmiCount' = HmiCount /\ \A d : TagsOf(d)' = TagsOf(d)
  BY Same
<1>3. Loops' /\ Checked'
  BY <1>1, CheckedStays DEF Loops
<1>4. BackendsBound'
  BY <1>1, BoundStays DEF Backed, Filled
<1>5. UNCHANGED <<VarsAdded, HmiAdded>>
  BY <1>2 DEF VarsAdded, HmiAdded
<1>6. \A d \in DOMAIN config.devices : IoAdded(d)' = IoAdded(d)
  BY <1>2 DEF IoAdded
<1>7. TableFilled' /\ IoTagsDiffer'
  BY <1>1, <1>5, <1>6, TableStays
<1>8. StoresFilled'
  BY <1>1, <1>5, StoresStay
<1> QED BY <1>3, <1>4, <1>7, <1>8, Whole

\* The empty name is no variable's.
LEMMA NoEmptyVariable ==
    ASSUME BuildInv, phase = "run", NEW id \in 1 .. Len(table),
           table[id].name = NoRequest.name
    PROVE  table[id].kind = "io"
<1>1. /\ config \in Configs /\ Loops /\ Checked /\ TableFilled /\ phase # "failed"
      /\ Len(table) \in Nat
  BY Parts, TableTypes DEF TableFilled
<1>2. Added \in Nat
  BY <1>1, AddedFacts
<1>3. ASSUME id <= Added PROVE FALSE
  <2>1. NoRequest.name \in Names
    BY <1>1, <1>3, EntryNames
  <2>2. \/ \E k \in DOMAIN config.vars : <<"", "">> = <<"proc", config.vars[k].name>>
        \/ \E k \in DOMAIN config.hmi : <<"", "">> = <<"hmi", config.hmi[k].name>>
    BY <2>1 DEF Names, NoRequest
  <2>3. "" = "proc" \/ "" = "hmi"
    BY <2>2
  <2> QED BY <2>3
<1>4. id > Added
  <2>1. id \in Nat /\ ~(id <= Added)
    BY <1>1, <1>3
  <2> QED BY <1>2, <2>1
<1>5. PICK d \in DOMAIN config.devices : \E m \in 1 .. IoAdded(d) : IoEntry(id, d, m)
  BY <1>1, <1>4 DEF TableFilled
<1>6. PICK m : IoEntry(id, d, m)
  BY <1>5
<1>7. table[id] = [name |-> IoName(d, m), kind |-> "io", type |-> TagsOf(d)[m].type,
                   backend |-> BackendIndex(d), device |-> DeviceIndex(d),
                   dir |-> TagsOf(d)[m].dir, offset |-> TagsOf(d)[m].offset,
                   bit |-> TagsOf(d)[m].bit]
  BY <1>6 DEF IoEntry
<1> QED BY <1>7

LEMMA RemoteWriteStep ==
    ASSUME BuildInv, NEW name, NEW x, RemoteWrite(name, x)
    PROVE  BuildInv'
<1>1. /\ config \in Configs /\ TableFilled /\ ValuesSet /\ phase = "run" /\ phase' = "run"
      /\ request = NoRequest /\ request' = [name |-> name, number |-> x]
      /\ UNCHANGED <<config, phase, i, j, backends, table, proc_store, hmi_store>>
  BY Parts DEF RemoteWrite
<1>2. Len(table) \in Nat
  BY <1>1, TableTypes DEF TableFilled
<1>3. PICK id \in 0 .. Len(table) : id = FindId(name)
  BY <1>1, <1>2, Finding DEF TableFilled
<1>4. /\ VarCount' = VarCount /\ HmiCount' = HmiCount /\ HmiVars' = HmiVars
  BY <1>1, Same
<1>5. VarsAdded' = VarsAdded /\ HmiAdded' = HmiAdded
  BY <1>1, <1>4 DEF VarsAdded, HmiAdded
<1>6. /\ values' = [proc |-> values'.proc, var |-> values'.var]
      /\ values'.proc \in Seq(Range(values'.proc)) /\ Len(values'.proc) = Len(values.proc)
      /\ values'.var \in Seq(Range(values'.var)) /\ Len(values'.var) = Len(values.var)
      /\ request' = NoRequest => values' = values
  <2>1. CASE values' = values
    BY <1>1, <2>1 DEF ValuesSet
  <2>2. CASE /\ id # 0 /\ ResolveEntry(id, TRUE) # 0
             /\ values' = Written(table[ResolveEntry(id, TRUE)], StrToUl(x))
    <3>1. ASSUME request' = NoRequest
          PROVE  table[ResolveEntry(id, TRUE)].kind = "io"
      <4>1. name = NoRequest.name
        <5>1. [name |-> name, number |-> x].name = NoRequest.name
          BY <1>1, <3>1
        <5> QED BY <5>1
      <4>2. id \in 1 .. Len(table) /\ table[id].name = NoRequest.name
        <5>1. table[id].name = name
          BY <1>1, <1>2, <1>3, <2>2, Finding DEF TableFilled
        <5> QED BY <1>2, <1>3, <2>2, <4>1, <5>1
      <4>3. table[id].kind = "io"
        BY <1>1, <4>2, NoEmptyVariable
      <4>4. 0 \in 0 .. MaxHops + 1
        BY Sizes
      <4>5. Resolve(TRUE)[0][id] \in {0, id}
        <5>1. Resolve(TRUE)[0][id] =
                  IF 0 > MaxHops \/ id = 0 \/ (TRUE /\ Denied(id)) THEN 0
                  ELSE IF table[id].kind = "alias"
                       THEN Resolve(TRUE)[0 + 1][table[id].target]
                  ELSE id
          BY <4>4, ResolveStep
        <5> QED BY <4>3, <5>1
      <4> QED BY <2>2, <4>3, <4>5 DEF ResolveEntry
    <3>2. PICK e, n : e = table[ResolveEntry(id, TRUE)] /\ n = StrToUl(x)
      OBVIOUS
    <3>3. values' = Written(e, n)
      BY <2>2, <3>2
    <3>4. PICK v : v = values'
      OBVIOUS
    <3>5. /\ values = [proc |-> values.proc, var |-> values.var]
          /\ values.proc \in Seq(Range(values.proc)) /\ values.var \in Seq(Range(values.var))
      BY <1>1 DEF ValuesSet
    <3>6. /\ v = [proc |-> v.proc, var |-> v.var]
          /\ v.proc \in Seq(Range(v.proc)) /\ Len(v.proc) = Len(values.proc)
          /\ v.var \in Seq(Range(v.var)) /\ Len(v.var) = Len(values.var)
          /\ e.kind = "io" => v = values
      BY <3>3, <3>4, <3>5, WrittenShape
    <3> QED BY <3>1, <3>2, <3>4, <3>6
  <2> QED BY <1>3, <2>1, <2>2 DEF RemoteWrite, Accessible
<1>7. ValuesSet'
  <2>1. CASE request' = NoRequest
    <3>1. values' = values /\ request' = request
      BY <1>1, <1>6, <2>1
    <3> QED BY <1>1, <1>5, <3>1, ValuesStay
  <2>2. CASE request' # NoRequest
    BY <1>1, <1>4, <1>5, <1>6, <2>2 DEF ValuesSet
  <2> QED BY <2>1, <2>2
<1> QED BY <1>1, <1>7, RunsOn

LEMMA FactoryResetStep ==
    ASSUME BuildInv, FactoryReset PROVE BuildInv'
<1>1. /\ config \in Configs /\ ValuesSet /\ phase = "run" /\ phase \in Filled
      /\ request' = NoRequest /\ values' = AllInitialised
      /\ UNCHANGED <<config, phase, i, j, backends, table, proc_store, hmi_store>>
  BY Parts DEF FactoryReset, Filled
<1>2. VarCount' = VarCount /\ HmiCount' = HmiCount /\ HmiVars' = HmiVars
  BY <1>1, Same
<1>3. VarsAdded' = VarCount /\ HmiAdded' = HmiCount
  BY <1>1, <1>2 DEF VarsAdded, HmiAdded
<1>4. ValuesSet'
  <2>1. /\ values' = [proc |-> values'.proc, var |-> values'.var]
        /\ values'.proc = Initialised("proc", "proc", proc_store)
        /\ values'.var = Initialised("var", "hmi", hmi_store)
    BY <1>1 DEF AllInitialised
  <2>2. /\ values'.proc \in Seq(Range(values'.proc)) /\ Len(values'.proc) = VarCount
        /\ \A k \in DOMAIN config.vars : values'.proc[k] = config.vars[k].initial
    BY <1>1, <2>1, ProcInitials
  <2>3. /\ values'.var \in Seq(Range(values'.var))
        /\ Len(values'.var) = Rank(HmiVars, HmiCount)
        /\ \A k \in HmiVars : values'.var[Rank(HmiVars, k)] = config.hmi[k].initial
    BY <1>1, <2>1, HmiInitials
  <2> QED BY <1>1, <1>2, <1>3, <2>1, <2>2, <2>3 DEF ValuesSet
<1> QED BY <1>1, <1>4, RunsOn
-----------------------------------------------------------------------------
(* The invariant, and what it says of the programs that are built. *)

LEMMA StutterStep ==
    ASSUME BuildInv, UNCHANGED vars PROVE BuildInv'
<1>1. UNCHANGED <<config, phase, i, j, backends, table, proc_store, hmi_store, values,
                  broken, request>>
  BY DEF vars, built, stores, remote
<1>2. /\ VarCount' = VarCount /\ HmiCount' = HmiCount /\ HmiVars' = HmiVars
      /\ \A d : TagsOf(d)' = TagsOf(d)
  BY <1>1, Same
<1>3. UNCHANGED <<VarsAdded, HmiAdded>>
  BY <1>1, <1>2 DEF VarsAdded, HmiAdded
<1>4. \A d \in DOMAIN config.devices : IoAdded(d)' = IoAdded(d)
  BY <1>1, <1>2 DEF IoAdded
<1>5. config \in Configs /\ Loops /\ Checked /\ BackendsBound
  BY DEF BuildInv
<1>6. Loops' /\ Checked' /\ BackendsBound' /\ (Blamed => Blamed')
  <2>1. Loops'
    BY <1>1, <1>2, <1>5 DEF Loops
  <2>2. Checked'
    BY <1>1, <1>5 DEF Checked
  <2>3. ASSUME NEW b \in 1 .. Len(backends) PROVE Bound(b)'
    <3>1. Bound(b) /\ Mine(b)' = Mine(b) /\ Reached(b)' = Reached(b)
      BY <1>1, <1>5, Same DEF BackendsBound, Reached
    <3> QED BY <1>1, <3>1 DEF Bound
  <2>4. BackendsBound'
    BY <1>1, <1>5, <2>3 DEF BackendsBound
  <2>5. Blamed => Blamed'
    BY <1>1, SameSense DEF Blamed
  <2> QED BY <2>1, <2>2, <2>4, <2>5
<1>7. ASSUME phase # "failed"
      PROVE  TableFilled' /\ IoTagsDiffer' /\ StoresFilled' /\ ValuesSet'
  <2>1. TableFilled /\ IoTagsDiffer /\ StoresFilled /\ ValuesSet
    BY <1>7, Parts
  <2>2. TableFilled' /\ IoTagsDiffer'
    BY <1>1, <1>3, <1>4, <1>5, <1>7, <2>1, TableStays
  <2>3. StoresFilled'
    BY <1>1, <1>3, <2>1, StoresStay
  <2>4. ValuesSet'
    BY <1>1, <1>3, <2>1, ValuesStay
  <2> QED BY <2>2, <2>3, <2>4
<1> QED BY <1>1, <1>6, <1>7 DEF BuildInv

\* At each step of system_build the backends, the tag table and the stores hold
\* what the configuration asks for, as far as the build has come, and the values
\* are the initial ones until a client writes.
THEOREM BuildCorrect == Spec => []BuildInv
<1>1. Init => BuildInv
  BY StartsWell
<1>2. ASSUME BuildInv, [Next]_vars PROVE BuildInv'
  <2>1. CASE UNCHANGED vars
    BY <1>2, <2>1, StutterStep
  <2>2. CASE CheckConfig
    BY <1>2, <2>2, CheckConfigStep
  <2>3. ASSUME NEW ok \in BOOLEAN, CreateBackend(ok) PROVE BuildInv'
    BY <1>2, <2>3, CreateBackendStep
  <2>4. ASSUME NEW ok \in BOOLEAN, FinalizeBackend(ok) PROVE BuildInv'
    BY <1>2, <2>4, FinalizeBackendStep
  <2>5. CASE BindDevice
    BY <1>2, <2>5, BindDeviceStep
  <2>6. CASE AddProcVar
    BY <1>2, <2>6, AddProcVarStep
  <2>7. CASE ProcVarsDone
    BY <1>2, <2>7, ProcVarsDoneStep
  <2>8. CASE AddAlias
    BY <1>2, <2>8, AddAliasStep
  <2>9. CASE AddHmiVar
    BY <1>2, <2>9, AddHmiVarStep
  <2>10. CASE AddOther
    BY <1>2, <2>10, AddOtherStep
  <2>11. CASE HmiDone
    BY <1>2, <2>11, HmiDoneStep
  <2>12. CASE AddIoTag
    BY <1>2, <2>12, AddIoTagStep
  <2>13. CASE IoTagsDone
    BY <1>2, <2>13, IoTagsDoneStep
  <2>14. CASE InitStores
    BY <1>2, <2>14, InitStoresStep
  <2>15. CASE BindViews
    BY <1>2, <2>15, BindViewsStep
  <2>16. CASE FactoryReset
    BY <1>2, <2>16, FactoryResetStep
  <2>17. ASSUME NEW name \in Asked, NEW x \in Numbers, RemoteWrite(name, x)
         PROVE  BuildInv'
    BY <1>2, <2>17, RemoteWriteStep
  <2> QED BY <1>2, <2>1, <2>2, <2>3, <2>4, <2>5, <2>6, <2>7, <2>8, <2>9, <2>10, <2>11,
             <2>12, <2>13, <2>14, <2>15, <2>16, <2>17 DEF Next, Build
<1> QED BY <1>1, <1>2, PTL DEF Spec

\* system_build accepts a configuration only when it makes sense, and refuses
\* one that does only when a backend fails.
THEOREM OnlySoundBuilt == Spec => []OnlySoundIsBuilt
<1>1. ASSUME BuildInv PROVE OnlySoundIsBuilt
  <2>1. phase \in {"stores", "views", "run", "unbound"} => Sound
    BY <1>1, FilledIsSound DEF Filled
  <2>2. phase = "failed" => backends = <<>> /\ (Sound => broken)
    BY <1>1 DEF BuildInv, BackendsBound, Blamed
  <2> QED BY <2>1, <2>2 DEF OnlySoundIsBuilt
<1> QED BY <1>1, BuildCorrect, PTL
-----------------------------------------------------------------------------
(* Input and output tags. *)

\* find_backend_index finds the device's backend, and
\* find_backend_device_index its place there.
LEMMA FindsDevice ==
    ASSUME config \in Configs, Checked, BackendsBound, phase \in Filled,
           NEW d \in DOMAIN config.devices
    PROVE  \E b \in Nat \ {0}, r \in Nat \ {0} :
              /\ b = BackendIndex(d) /\ r = DeviceIndex(d) /\ b <= Len(backends)
              /\ r <= Len(backends[b]) /\ backends[b][r] = d
<1>1. /\ DOMAIN config.backends = 1 .. Len(config.backends) /\ Len(config.backends) \in Nat
      /\ DOMAIN config.devices = 1 .. Len(config.devices) /\ Len(config.devices) \in Nat
  BY Tables
<1> DEFINE Ours == {c \in DOMAIN config.backends :
                        config.backends[c].name = config.devices[d].backend}
<1>2. PICK c \in Ours : \A m \in Ours : c <= m
  <2>1. Ours \subseteq Nat /\ Ours # {}
    BY <1>1 DEF Checked, Filled
  <2> HIDE DEF Ours
  <2> QED BY <2>1, Least
<1>3. \A m \in 1 .. c - 1 : config.backends[m].name # config.devices[d].backend
  <2>1. SUFFICES ASSUME NEW m \in 1 .. c - 1,
                        config.backends[m].name = config.devices[d].backend
                 PROVE  FALSE
    OBVIOUS
  <2>2. c \in 1 .. Len(config.backends)
    BY <1>1
  <2>3. m \in DOMAIN config.backends /\ ~(c <= m)
    BY <1>1, <2>2
  <2> QED BY <1>2, <2>1, <2>3
<1>4. PICK b : b = BackendIndex(d)
  OBVIOUS
<1>5. b \in DOMAIN config.backends /\ config.backends[b].name = config.devices[d].backend
  <2>1. \E n \in DOMAIN config.backends :
            /\ config.backends[n].name = config.devices[d].backend
            /\ \A m \in 1 .. n - 1 : config.backends[m].name # config.devices[d].backend
    BY <1>2, <1>3
  <2> QED BY <1>4, <2>1 DEF BackendIndex
<1>6. d \in Nat \ {0} /\ d <= Len(config.devices)
  BY <1>1
<1>7. d \in Mine(b)
  BY <1>5 DEF Mine
<1>8. /\ Bound(b) /\ Reached(b) = Len(config.devices) /\ b \in Nat \ {0}
      /\ b <= Len(backends)
  <2>1. b \in 1 .. Len(backends) /\ Len(backends) = Len(config.backends)
    BY <1>1, <1>5 DEF BackendsBound, Backed
  <2>2. b \in Nat \ {0} /\ b <= Len(backends)
    BY <1>1, <2>1
  <2>3. Reached(b) = Len(config.devices)
    BY DEF Reached, Filled
  <2> QED BY <2>1, <2>2, <2>3 DEF BackendsBound
<1>9. DeviceIndex(d) = Rank(Mine(b), d)
  <2>1. {e \in 1 .. d : config.devices[e].backend = config.devices[d].backend}
            = Mine(b) \cap (1 .. d)
    BY <1>1, <1>5, <1>6 DEF Mine
  <2> QED BY <2>1 DEF DeviceIndex, Rank
<1>10. PICK r \in Nat \ {0} : r = Rank(Mine(b), d)
  BY <1>6, <1>7, RanksDiffer
<1>11. backends[b][r] = d
  BY <1>6, <1>7, <1>8, <1>10 DEF Bound
<1>12. r <= Len(backends[b])
  <2>1. Rank(Mine(b), d) <= Rank(Mine(b), Len(config.devices))
    BY <1>1, <1>6, RanksGrow
  <2>2. Len(backends[b]) = Rank(Mine(b), Len(config.devices))
    BY <1>8 DEF Bound
  <2> QED BY <1>10, <2>1, <2>2
<1> QED BY <1>4, <1>8, <1>9, <1>10, <1>11, <1>12

LEMMA IoTagsFound ==
    ASSUME BuildInv PROVE IoTagsFindTheirDevice
<1>1. SUFFICES ASSUME phase = "run", NEW id \in DOMAIN table, table[id].kind = "io"
               PROVE  /\ Accessible(id, FALSE)
                      /\ Accessible(id, TRUE) <=> table[id].dir = "out"
                      /\ config.devices[backends[table[id].backend][table[id].device]].name
                             = table[id].name[1]
  BY DEF IoTagsFindTheirDevice
<1>2. /\ config \in Configs /\ Loops /\ Checked /\ BackendsBound /\ TableFilled
      /\ phase \in Filled /\ Len(table) \in Nat /\ id \in 1 .. Len(table)
  BY <1>1, Parts, TableTypes DEF TableFilled, Filled
<1>3. PICK d \in DOMAIN config.devices : \E m \in 1 .. IoAdded(d) : IoEntry(id, d, m)
  <2>1. /\ Added = VarCount + HmiCount /\ VarsAdded = VarCount /\ HmiAdded = HmiCount
        /\ VarCount \in Nat /\ HmiCount \in Nat /\ id \in Nat \ {0}
    BY <1>2, Complete
  <2>2. CASE id <= VarCount
    <3>1. id \in 1 .. VarsAdded
      BY <2>1, <2>2
    <3>2. ProcEntry(id)
      BY <1>2, <3>1 DEF TableFilled
    <3>3. table[id].kind = "proc"
      BY <3>2 DEF ProcEntry
    <3> QED BY <1>1, <3>3
  <2>3. CASE VarCount < id /\ id <= Added
    <3>1. PICK k \in 1 .. HmiAdded : id = VarCount + k
      <4>1. id - VarCount \in 1 .. HmiAdded /\ id = VarCount + (id - VarCount)
        BY <2>1, <2>3
      <4> QED BY <4>1
    <3>2. HmiVarEntry(k) \/ AliasEntry(k)
      BY <1>2 DEF TableFilled
    <3>3. table[id].kind \in {"var", "alias"}
      <4>1. CASE HmiVarEntry(k)
        BY <3>1, <4>1 DEF HmiVarEntry
      <4>2. CASE AliasEntry(k)
        BY <3>1, <4>2 DEF AliasEntry
      <4> QED BY <3>2, <4>1, <4>2
    <3> QED BY <1>1, <3>3
  <2>4. CASE id > Added
    BY <1>2, <2>4 DEF TableFilled
  <2> QED BY <2>1, <2>2, <2>3, <2>4
<1>4. PICK m : IoEntry(id, d, m)
  BY <1>3
<1>5. PICK t, e : t = TagsOf(d)[m] /\ e = table[id]
  OBVIOUS
<1>6. /\ e.kind = "io" /\ e.type = t.type /\ e.dir = t.dir /\ e.offset = t.offset
      /\ e.backend = BackendIndex(d) /\ e.device = DeviceIndex(d)
      /\ e.name = <<config.devices[d].name, t.name>>
      /\ ValidTag(t, config.devices[d].model)
  BY <1>4, <1>5 DEF IoEntry, IoName
<1>7. PICK b \in Nat \ {0}, r \in Nat \ {0} :
          /\ b = BackendIndex(d) /\ r = DeviceIndex(d) /\ b <= Len(backends)
          /\ r <= Len(backends[b]) /\ backends[b][r] = d
  BY <1>2, FindsDevice
<1>8. ASSUME NEW for_write \in BOOLEAN
      PROVE  /\ ResolveEntry(id, for_write) = id
             /\ Reachable(e, for_write) <=> (for_write => e.dir = "out")
  <2>1. Resolve(for_write)[0][id] = id
    <3>1. 0 \in 0 .. MaxHops + 1 /\ ~(0 > MaxHops) /\ id \in 0 .. Len(table) /\ id # 0
      BY <1>2, Sizes
    <3>2. ~Denied(id)
      BY <1>1 DEF Denied
    <3>3. Resolve(for_write)[0][id] =
              IF 0 > MaxHops \/ id = 0 \/ (for_write /\ Denied(id)) THEN 0
              ELSE IF table[id].kind = "alias"
                   THEN Resolve(for_write)[0 + 1][table[id].target]
              ELSE id
      BY <3>1, ResolveStep
    <3>4. table[id].kind # "alias"
      BY <1>1
    <3> QED BY <3>1, <3>2, <3>3, <3>4
  <2>2. IF e.type = "BOOL" THEN e.offset < IoSize(config.devices[d].model, e.dir)
        ELSE e.offset + Size(e.type) <= IoSize(config.devices[d].model, e.dir)
    BY <1>6 DEF ValidTag
  <2>3. Reachable(e, for_write) <=>
            /\ for_write => e.dir = "out"
            /\ e.backend <= Len(backends)
            /\ e.device <= Len(backends[e.backend])
            /\ LET model == config.devices[backends[e.backend][e.device]].model
                   size == IoSize(model, e.dir)
               IN IF e.type = "BOOL" THEN e.offset < size
                  ELSE e.offset + Size(e.type) <= size
    BY <1>6 DEF Reachable
  <2>4. e.backend = b /\ e.device = r /\ backends[e.backend][e.device] = d
    BY <1>6, <1>7
  <2> QED BY <1>7, <2>1, <2>2, <2>3, <2>4 DEF ResolveEntry
<1>9. ASSUME NEW for_write \in BOOLEAN
      PROVE  Accessible(id, for_write) <=> (for_write => e.dir = "out")
  <2>1. id # 0
    BY <1>2
  <2> QED BY <1>5, <1>8, <2>1 DEF Accessible
<1>10. config.devices[backends[e.backend][e.device]].name = e.name[1]
  BY <1>6, <1>7
<1> QED BY <1>5, <1>9, <1>10

\* Each input or output tag leads into the process image of the device that it
\* is named after.
THEOREM IoTagsLeadToDevices == Spec => []IoTagsFindTheirDevice
  BY IoTagsFound, BuildCorrect, PTL
-----------------------------------------------------------------------------
(* Aliases lead to variables. *)

\* The names of the variables and HMI tags, and their entries in the table.
LEMMA Places ==
    ASSUME BuildInv, phase \in Filled
    PROVE  /\ Entries \in Nat /\ Names = {AllNames[k] : k \in 1 .. Entries}
           /\ \A k, m \in 1 .. Entries : AllNames[k] = AllNames[m] => k = m
           /\ \A k \in 1 .. Entries :
                 /\ k \in 1 .. Len(table) /\ FindId(AllNames[k]) = k
                 /\ table[k].kind \in {"proc", "var", "alias"}
                 /\ table[k].kind = "alias" =>
                       /\ table[k].target \in 1 .. k - 1
                       /\ table[table[k].target].type = table[k].type
                       /\ <<AllNames[k], AllNames[table[k].target]>> \in AliasOf
           /\ \A a \in AliasOf : \E k \in 1 .. Entries :
                 table[k].kind = "alias" /\ a = <<AllNames[k], AllNames[table[k].target]>>
<1>1. /\ config \in Configs /\ Loops /\ Checked /\ TableFilled /\ IoTagsDiffer
  BY Parts DEF Filled
<1>2. /\ VarCount \in Nat /\ HmiCount \in Nat /\ Entries \in Nat
      /\ Entries = VarCount + HmiCount
      /\ DOMAIN config.vars = 1 .. VarCount /\ DOMAIN config.hmi = 1 .. HmiCount
  BY VarsFound DEF Entries
<1>3. \A k \in 1 .. Entries : k \in 1 .. Len(table) /\ table[k].name = AllNames[k]
  BY <1>1, Complete DEF Entries
<1>4. \A k, m \in 1 .. Entries : AllNames[k] = AllNames[m] => k = m
  BY <1>1, <1>3 DEF TableFilled
<1>5. \A k \in 1 .. Entries : FindId(AllNames[k]) = k
  BY <1>1, <1>3, FoundAt
<1>6. Names = {AllNames[k] : k \in 1 .. Entries}
  <2>1. ASSUME NEW k \in 1 .. VarCount PROVE \E m \in 1 .. Entries : AllNames[m] = ProcName(k)
    <3>1. k \in 1 .. Entries
      BY <1>2
    <3> QED BY <1>1, <3>1, NamesListed
  <2>2. ASSUME NEW k \in 1 .. HmiCount PROVE \E m \in 1 .. Entries : AllNames[m] = HmiName(k)
    <3>1. VarCount + k \in 1 .. Entries
      BY <1>2
    <3> QED BY <1>1, <3>1, NamesListed
  <2>3. ASSUME NEW k \in 1 .. Entries PROVE AllNames[k] \in Names
    <3>1. k \in 1 .. Len(table) /\ k <= Added
      BY <1>1, <1>2, <1>3, Complete
    <3> QED BY <1>1, <1>3, <3>1, EntryNames DEF Filled
  <2>4. Names = {ProcName(k) : k \in 1 .. VarCount} \cup {HmiName(k) : k \in 1 .. HmiCount}
    BY <1>2 DEF Names, ProcName, HmiName
  <2> QED BY <2>1, <2>2, <2>3, <2>4
\* An alias's entry leads to that of its target.
<1>7. ASSUME NEW k \in 1 .. HmiCount, NEW p, p = VarCount + k
      PROVE  /\ table[p].kind = "var" \/ table[p].kind = "alias"
             /\ table[p].kind = "alias" =>
                   /\ config.hmi[k].kind = "alias"
                   /\ table[p].target \in 1 .. p - 1
                   /\ table[table[p].target].type = table[p].type
                   /\ config.hmi[k].target = AllNames[table[p].target]
             /\ config.hmi[k].kind = "alias" => table[p].kind = "alias"
  <2>1. HmiVarEntry(k) \/ AliasEntry(k)
    BY VarsFound
  <2>2. CASE HmiVarEntry(k)
    <3>1. table[p].kind = "var" /\ config.hmi[k].kind = "var"
      BY <1>7, <2>2 DEF HmiVarEntry
    <3> QED BY <3>1
  <2>3. CASE AliasEntry(k)
    <3>1. PICK target \in 1 .. VarCount + k - 1 :
              /\ table[target].name = config.hmi[k].target
              /\ table[VarCount + k] =
                    [name |-> HmiName(k), kind |-> "alias",
                     type |-> table[target].type, target |-> target,
                     access |-> config.hmi[k].access]
      BY <2>3 DEF AliasEntry
    <3>2. /\ table[p].kind = "alias" /\ table[p].target = target
          /\ table[p].type = table[target].type
      BY <1>7, <3>1
    <3>3. config.hmi[k].kind = "alias"
      BY <2>3 DEF AliasEntry
    <3>4. target \in 1 .. Entries /\ target \in 1 .. p - 1
      BY <1>2, <1>7
    <3>5. config.hmi[k].target = AllNames[target]
      BY <1>3, <3>1, <3>4
    <3> QED BY <3>2, <3>3, <3>4, <3>5
  <2> QED BY <2>1, <2>2, <2>3
<1>8. ASSUME NEW p \in 1 .. Entries
      PROVE  /\ table[p].kind \in {"proc", "var", "alias"}
             /\ table[p].kind = "alias" =>
                   /\ table[p].target \in 1 .. p - 1
                   /\ table[table[p].target].type = table[p].type
                   /\ <<AllNames[p], AllNames[table[p].target]>> \in AliasOf
  <2>1. CASE p <= VarCount
    <3>1. p \in 1 .. VarCount
      BY <1>2, <2>1
    <3>2. ProcEntry(p)
      BY <3>1, VarsFound
    <3>3. table[p].kind = "proc"
      BY <3>2 DEF ProcEntry
    <3> QED BY <3>3
  <2>2. CASE p > VarCount
    <3>1. PICK k \in 1 .. HmiCount : p = VarCount + k
      <4>1. p - VarCount \in 1 .. HmiCount /\ p = VarCount + (p - VarCount)
        BY <1>2, <2>2
      <4> QED BY <4>1
    <3>2. ASSUME table[p].kind = "alias"
          PROVE  <<AllNames[p], AllNames[table[p].target]>> \in AliasOf
      <4>1. config.hmi[k].kind = "alias" /\ config.hmi[k].target = AllNames[table[p].target]
        BY <1>7, <3>1, <3>2
      <4>2. AllNames[p] = HmiName(k)
        BY <1>1, <3>1, NamesListed
      <4> QED BY <1>2, <4>1, <4>2 DEF AliasOf, HmiName
    <3> QED BY <1>7, <3>1, <3>2
  <2> QED BY <1>2, <2>1, <2>2
<1>9. ASSUME NEW a \in AliasOf
      PROVE  \E p \in 1 .. Entries :
                 table[p].kind = "alias" /\ a = <<AllNames[p], AllNames[table[p].target]>>
  <2>1. PICK k \in 1 .. HmiCount :
            config.hmi[k].kind = "alias" /\ a = <<HmiName(k), config.hmi[k].target>>
    BY <1>2 DEF AliasOf, HmiName
  <2>2. PICK p \in 1 .. Entries : p = VarCount + k
    BY <1>2
  <2>3. table[p].kind = "alias" /\ config.hmi[k].target = AllNames[table[p].target]
    BY <1>7, <2>1, <2>2
  <2>4. AllNames[p] = HmiName(k)
    BY <1>1, <2>2, NamesListed
  <2> QED BY <2>1, <2>3, <2>4
<1> QED BY <1>2, <1>3, <1>4, <1>5, <1>6, <1>8, <1>9

\* A set that the aliases do not lead out of.
Closed(S) == \A a \in AliasOf : a[1] \in S => a[2] \in S

\* A name's chain is the least such set.
LEMMA Chains ==
    ASSUME BuildInv, phase \in Filled, NEW name \in Names
    PROVE  /\ name \in Chain(name) /\ Closed(Chain(name))
           /\ \A S \in SUBSET Names : name \in S /\ Closed(S) => Chain(name) \subseteq S
<1>1. ASSUME NEW m
      PROVE  m \in Chain(name) <=>
                /\ m \in Names
                /\ \A S \in SUBSET Names : name \in S /\ Closed(S) => m \in S
  BY DEF Chain, Closed
<1>2. ASSUME NEW a \in AliasOf PROVE a[2] \in Names
  <2>1. PICK p \in 1 .. Entries :
            table[p].kind = "alias" /\ a = <<AllNames[p], AllNames[table[p].target]>>
    BY Places
  <2>2. PICK t \in 1 .. p - 1 : t = table[p].target
    BY <2>1, Places
  <2>3. t \in 1 .. Entries
    BY Places
  <2>4. AllNames[t] \in Names
    BY <2>3, Places
  <2> QED BY <2>1, <2>2, <2>4
<1>3. ASSUME NEW a \in AliasOf, a[1] \in Chain(name) PROVE a[2] \in Chain(name)
  <2>1. ASSUME NEW S \in SUBSET Names, name \in S, Closed(S) PROVE a[2] \in S
    <3>1. a[1] \in S
      BY <1>1, <1>3, <2>1
    <3> QED BY <2>1, <3>1 DEF Closed
  <2> QED BY <1>1, <1>2, <2>1
<1>4. Closed(Chain(name))
  BY <1>3 DEF Closed
<1>5. name \in Chain(name)
  BY <1>1
<1>6. \A S \in SUBSET Names : name \in S /\ Closed(S) => Chain(name) \subseteq S
  BY <1>1
<1> QED BY <1>4, <1>5, <1>6

LEMMA ChainStep ==
    ASSUME BuildInv, phase \in Filled, NEW k \in 1 .. Entries
    PROVE  /\ AllNames[k] \in Names
           /\ table[k].kind # "alias" => Chain(AllNames[k]) = {AllNames[k]}
           /\ table[k].kind = "alias" =>
                 \E t \in 1 .. k - 1 :
                    /\ t = table[k].target /\ t \in 1 .. Entries
                    /\ table[t].type = table[k].type
                    /\ Chain(AllNames[k]) = {AllNames[k]} \cup Chain(AllNames[t])
<1>1. AllNames[k] \in Names
  BY Places
<1>2. ASSUME NEW a \in AliasOf, a[1] = AllNames[k]
      PROVE  table[k].kind = "alias" /\ a[2] = AllNames[table[k].target]
  <2>1. PICK p \in 1 .. Entries :
            table[p].kind = "alias" /\ a = <<AllNames[p], AllNames[table[p].target]>>
    BY Places
  <2>2. AllNames[p] = AllNames[k]
    BY <1>2, <2>1
  <2>3. p = k
    BY <2>2, Places
  <2> QED BY <2>1, <2>3
<1>3. ASSUME table[k].kind # "alias" PROVE Chain(AllNames[k]) = {AllNames[k]}
  <2>1. Closed({AllNames[k]})
    BY <1>2, <1>3 DEF Closed
  <2> QED BY <1>1, <2>1, Chains
<1>4. ASSUME table[k].kind = "alias"
      PROVE  \E t \in 1 .. k - 1 :
                 /\ t = table[k].target /\ t \in 1 .. Entries
                 /\ table[t].type = table[k].type
                 /\ Chain(AllNames[k]) = {AllNames[k]} \cup Chain(AllNames[t])
  <2>1. PICK t \in 1 .. k - 1 : t = table[k].target
    BY <1>4, Places
  <2>2. /\ t \in 1 .. Entries /\ table[t].type = table[k].type
        /\ <<AllNames[k], AllNames[t]>> \in AliasOf
    BY <1>4, <2>1, Places
  <2>3. AllNames[t] \in Names
    BY <2>2, Places
  <2> DEFINE S == {AllNames[k]} \cup Chain(AllNames[t])
  <2>4. S \in SUBSET Names
    BY <1>1 DEF Chain
  <2>5. Closed(S)
    <3>1. ASSUME NEW a \in AliasOf, a[1] \in S PROVE a[2] \in S
      <4>1. CASE a[1] = AllNames[k]
        <5>1. a[2] = AllNames[t]
          BY <1>2, <2>1, <4>1
        <5> QED BY <2>3, <5>1, Chains
      <4>2. CASE a[1] \in Chain(AllNames[t])
        BY <2>3, <4>2, Chains DEF Closed
      <4> QED BY <3>1, <4>1, <4>2
    <3> QED BY <3>1 DEF Closed
  <2>6. Chain(AllNames[k]) \subseteq S
    BY <1>1, <2>4, <2>5, Chains
  <2>7. AllNames[t] \in Chain(AllNames[k])
    <3>1. Closed(Chain(AllNames[k])) /\ AllNames[k] \in Chain(AllNames[k])
      BY <1>1, Chains
    <3>2. PICK a : a = <<AllNames[k], AllNames[t]>>
      OBVIOUS
    <3>3. a \in AliasOf /\ a[1] = AllNames[k] /\ a[2] = AllNames[t]
      BY <2>2, <3>2
    <3> QED BY <3>1, <3>3 DEF Closed
  <2>8. Chain(AllNames[t]) \subseteq Chain(AllNames[k])
    <3>1. Closed(Chain(AllNames[k]))
      BY <1>1, Chains
    <3>2. Chain(AllNames[k]) \in SUBSET Names
      BY DEF Chain
    <3> QED BY <2>3, <2>7, <3>1, <3>2, Chains
  <2>9. AllNames[k] \in Chain(AllNames[k])
    BY <1>1, Chains
  <2> QED BY <2>1, <2>2, <2>6, <2>8, <2>9
<1> QED BY <1>1, <1>3, <1>4

\* The condition under which the k-th name leads on from a depth.
LEMMA LeadsAtOnce ==
    ASSUME BuildInv, phase \in Filled, NEW k \in 1 .. Entries, table[k].kind # "alias"
    PROVE  Leads(k, k, 0)
<1>1. k \in Nat \ {0} /\ k \in 1 .. k /\ k \in 1 .. Len(table) /\ Entries \in Nat
  <2>1. k \in 1 .. Len(table) /\ Entries \in Nat
    BY Places
  <2>2. k \in Nat \ {0} /\ k \in 1 .. k
    BY <2>1
  <2> QED BY <2>1, <2>2
<1>2. Chain(AllNames[k]) = {AllNames[k]}
  BY ChainStep
<1>3. /\ IsFiniteSet(Chain(AllNames[k])) /\ Cardinality(Chain(AllNames[k])) = 0 + 1
      /\ Chain(AllNames[k]) \subseteq {AllNames[m] : m \in 1 .. k}
      /\ AllNames[k] \in Chain(AllNames[k])
  <2>1. IsFiniteSet({AllNames[k]}) /\ Cardinality({AllNames[k]}) = 1
    BY FS_Singleton
  <2> QED BY <1>1, <1>2, <2>1
<1>4. ASSUME NEW m \in 1 .. k, AllNames[m] \in Chain(AllNames[k]) PROVE m = k
  <2>1. AllNames[m] = AllNames[k]
    BY <1>2, <1>4
  <2>2. m \in 1 .. Entries
    BY <1>1
  <2> QED BY <2>1, <2>2, Places
<1>5. ASSUME NEW depth \in 0 .. MaxHops + 1, NEW for_write \in BOOLEAN
      PROVE  Resolve(for_write)[depth][k] =
                 IF depth + 0 <= MaxHops /\
                    (for_write => \A m \in 1 .. k :
                                      AllNames[m] \in Chain(AllNames[k]) => ~Denied(m))
                 THEN k ELSE 0
  <2>1. k \in 0 .. Len(table) /\ k # 0
    BY <1>1
  <2>2. Resolve(for_write)[depth][k] =
            IF depth > MaxHops \/ (for_write /\ Denied(k)) THEN 0 ELSE k
    <3>1. Resolve(for_write)[depth][k] =
               IF depth > MaxHops \/ k = 0 \/ (for_write /\ Denied(k)) THEN 0
               ELSE IF table[k].kind = "alias"
                    THEN Resolve(for_write)[depth + 1][table[k].target]
               ELSE k
      BY <2>1, ResolveStep
    <3> QED BY <2>1, <3>1
  <2>3. (\A m \in 1 .. k : AllNames[m] \in Chain(AllNames[k]) => ~Denied(m)) <=> ~Denied(k)
    BY <1>1, <1>3, <1>4
  <2>4. depth > MaxHops <=> ~(depth + 0 <= MaxHops)
    BY Sizes
  <2> QED BY <2>2, <2>3, <2>4
<1> QED BY <1>1, <1>3, <1>4, <1>5 DEF Leads

LEMMA LeadsOn ==
    ASSUME BuildInv, phase \in Filled, NEW k \in 1 .. Entries, table[k].kind = "alias",
           NEW t \in 1 .. k - 1, t = table[k].target, t \in 1 .. Entries,
           table[t].type = table[k].type,
           Chain(AllNames[k]) = {AllNames[k]} \cup Chain(AllNames[t]),
           NEW b, NEW n, Leads(t, b, n)
    PROVE  Leads(k, b, n + 1)
<1>1. k \in Nat \ {0} /\ t \in Nat \ {0} /\ t < k /\ k \in 1 .. Len(table) /\ Entries \in Nat
  <2>1. k \in 1 .. Len(table) /\ Entries \in Nat
    BY Places
  <2>2. k \in Nat \ {0} /\ t \in Nat \ {0} /\ t < k
    BY <2>1
  <2> QED BY <2>1, <2>2
<1>2. n \in Nat /\ b \in 1 .. t /\ b \in 1 .. k
  <2>1. n \in Nat /\ b \in 1 .. t
    BY DEF Leads
  <2> QED BY <1>1, <2>1
<1>3. ASSUME NEW m \in 1 .. k, AllNames[m] \in Chain(AllNames[t]) PROVE m \in 1 .. t
  <2>1. PICK l \in 1 .. t : AllNames[m] = AllNames[l]
    BY <1>3 DEF Leads
  <2>2. m \in 1 .. Entries /\ l \in 1 .. Entries
    BY <1>1
  <2>3. m = l
    BY <2>1, <2>2, Places
  <2> QED BY <2>3
<1>4. AllNames[k] \notin Chain(AllNames[t])
  <2>1. k \in 1 .. k /\ ~(k \in 1 .. t)
    BY <1>1
  <2> QED BY <1>3, <2>1
<1>5. /\ IsFiniteSet(Chain(AllNames[k])) /\ Cardinality(Chain(AllNames[k])) = n + 1 + 1
      /\ Chain(AllNames[k]) \subseteq {AllNames[m] : m \in 1 .. k}
      /\ AllNames[b] \in Chain(AllNames[k])
  <2>1. /\ IsFiniteSet(Chain(AllNames[t])) /\ Cardinality(Chain(AllNames[t])) = n + 1
        /\ Chain(AllNames[t]) \subseteq {AllNames[m] : m \in 1 .. t}
        /\ AllNames[b] \in Chain(AllNames[t])
    BY DEF Leads
  <2>2. /\ IsFiniteSet(Chain(AllNames[t]) \cup {AllNames[k]})
        /\ Cardinality(Chain(AllNames[t]) \cup {AllNames[k]})
               = Cardinality(Chain(AllNames[t])) + 1
    BY <1>4, <2>1, FS_AddElement
  <2>3. Chain(AllNames[k]) = Chain(AllNames[t]) \cup {AllNames[k]}
    OBVIOUS
  <2>4. {AllNames[m] : m \in 1 .. t} \subseteq {AllNames[m] : m \in 1 .. k}
    <3>1. 1 .. t \subseteq 1 .. k
      BY <1>1
    <3> QED BY <3>1
  <2>5. AllNames[k] \in {AllNames[m] : m \in 1 .. k}
    <3>1. k \in 1 .. k
      BY <1>1
    <3> QED BY <3>1
  <2>6. Cardinality(Chain(AllNames[k])) = n + 1 + 1
    BY <2>1, <2>2, <2>3
  <2>7. Chain(AllNames[k]) \subseteq {AllNames[m] : m \in 1 .. k}
    BY <2>1, <2>3, <2>4, <2>5
  <2> QED BY <2>1, <2>2, <2>3, <2>6, <2>7
<1>6. ASSUME NEW m \in 1 .. k, AllNames[m] \in Chain(AllNames[k])
      PROVE  m = k \/ (m \in 1 .. t /\ AllNames[m] \in Chain(AllNames[t]))
  <2>1. CASE AllNames[m] = AllNames[k]
    <3>1. m \in 1 .. Entries
      BY <1>1
    <3> QED BY <2>1, <3>1, Places
  <2>2. CASE AllNames[m] \in Chain(AllNames[t])
    BY <1>3, <2>2
  <2> QED BY <1>6, <2>1, <2>2
<1>7. ASSUME NEW m \in 1 .. k, AllNames[m] \in Chain(AllNames[k]), table[m].kind # "alias"
      PROVE  m = b
  <2>1. m \in 1 .. t /\ AllNames[m] \in Chain(AllNames[t])
    BY <1>6, <1>7
  <2> QED BY <1>7, <2>1 DEF Leads
<1>8. (\A m \in 1 .. k : AllNames[m] \in Chain(AllNames[k]) => ~Denied(m))
          <=> /\ ~Denied(k)
              /\ \A m \in 1 .. t : AllNames[m] \in Chain(AllNames[t]) => ~Denied(m)
  <2>1. k \in 1 .. k /\ 1 .. t \subseteq 1 .. k
    BY <1>1
  <2>2. AllNames[k] \in Chain(AllNames[k]) /\ Chain(AllNames[t]) \subseteq Chain(AllNames[k])
    OBVIOUS
  <2> QED BY <1>6, <2>1, <2>2
<1>9. ASSUME NEW depth \in 0 .. MaxHops + 1, NEW for_write \in BOOLEAN
      PROVE  Resolve(for_write)[depth][k] =
                 IF depth + (n + 1) <= MaxHops /\
                    (for_write => \A m \in 1 .. k :
                                      AllNames[m] \in Chain(AllNames[k]) => ~Denied(m))
                 THEN b ELSE 0
  <2>1. k \in 0 .. Len(table) /\ k # 0
    BY <1>1
  <2>2. Resolve(for_write)[depth][k] =
            IF depth > MaxHops \/ (for_write /\ Denied(k)) THEN 0
            ELSE Resolve(for_write)[depth + 1][t]
    <3>1. Resolve(for_write)[depth][k] =
               IF depth > MaxHops \/ k = 0 \/ (for_write /\ Denied(k)) THEN 0
               ELSE IF table[k].kind = "alias"
                    THEN Resolve(for_write)[depth + 1][table[k].target]
               ELSE k
      BY <2>1, ResolveStep
    <3> QED BY <2>1, <3>1
  <2>3. CASE depth > MaxHops
    <3>1. ~(depth + (n + 1) <= MaxHops)
      BY <1>2, <2>3, Sizes
    <3> QED BY <2>2, <2>3, <3>1
  <2>4. CASE ~(depth > MaxHops)
    <3>1. depth + 1 \in 0 .. MaxHops + 1
      BY <2>4, Sizes
    <3>2. depth + 1 + n <= MaxHops <=> depth + (n + 1) <= MaxHops
      BY <1>2, Sizes
    <3>3. Resolve(for_write)[depth + 1][t] =
              IF depth + 1 + n <= MaxHops /\
                 (for_write => \A m \in 1 .. t :
                                   AllNames[m] \in Chain(AllNames[t]) => ~Denied(m))
              THEN b ELSE 0
      BY <3>1 DEF Leads
    <3>4. CASE for_write
      BY <1>8, <2>2, <2>4, <3>2, <3>3, <3>4
    <3>5. CASE ~for_write
      BY <2>2, <2>4, <3>2, <3>3, <3>5
    <3> QED BY <3>4, <3>5
  <2> QED BY <2>3, <2>4
<1>10. table[b].kind # "alias" /\ table[b].type = table[k].type /\ n + 1 \in Nat
  <2>1. table[b].kind # "alias" /\ table[b].type = table[t].type
    BY DEF Leads
  <2> QED BY <1>2, <2>1
<1> QED BY <1>2, <1>5, <1>7, <1>9, <1>10 DEF Leads

\* Every name leads to a variable.
LEMMA EachLeads ==
    ASSUME BuildInv, phase \in Filled
    PROVE  \A k \in 1 .. Entries : \E b, n : Leads(k, b, n)
<1> DEFINE Bad == {k \in 1 .. Entries : \A b, n : ~Leads(k, b, n)}
<1>1. SUFFICES ASSUME Bad # {} PROVE FALSE
  OBVIOUS
<1>2. Bad \subseteq Nat
  BY Places
<1>3. PICK k \in Bad : \A m \in Bad : k <= m
  <2> HIDE DEF Bad
  <2> QED BY <1>1, <1>2, Least
<1>4. k \in 1 .. Entries /\ \A b, n : ~Leads(k, b, n)
  OBVIOUS
<1>5. table[k].kind = "alias"
  BY <1>4, LeadsAtOnce
<1>6. PICK t \in 1 .. k - 1 :
          /\ t = table[k].target /\ t \in 1 .. Entries
          /\ table[t].type = table[k].type
          /\ Chain(AllNames[k]) = {AllNames[k]} \cup Chain(AllNames[t])
  BY <1>4, <1>5, ChainStep
<1>7. t \notin Bad
  <2>1. ~(k <= t)
    BY <1>2, <1>3, <1>6
  <2> QED BY <1>3, <2>1
<1>8. PICK b, n : Leads(t, b, n)
  BY <1>6, <1>7
<1>9. Leads(k, b, n + 1)
  BY <1>4, <1>5, <1>6, <1>8, LeadsOn
<1> QED BY <1>4, <1>9

\* The variable that a name means is the one at the end of its chain, and its
\* entry and its value are where they should be.
LEMMA BaseFound ==
    ASSUME BuildInv, phase \in Filled, NEW k \in 1 .. Entries, NEW b, NEW n, Leads(k, b, n)
    PROVE  /\ Base(AllNames[k]) = AllNames[b] /\ Follows(AllNames[k]) = n
           /\ \/ /\ b \in 1 .. VarCount /\ ProcEntry(b)
                 /\ BaseDesc(AllNames[k]) = config.vars[b]
              \/ \E l \in HmiVars : /\ b = VarCount + l /\ HmiVarEntry(l)
                                    /\ BaseDesc(AllNames[k]) = config.hmi[l]
<1>1. /\ k \in Nat \ {0} /\ Entries \in Nat /\ b \in 1 .. k /\ b \in 1 .. Entries
      /\ n \in Nat /\ table[b].kind # "alias"
  <2>1. Entries \in Nat
    BY Places
  <2>2. n \in Nat /\ b \in 1 .. k /\ table[b].kind # "alias"
    BY DEF Leads
  <2>3. k \in Nat \ {0} /\ b \in 1 .. Entries
    BY <2>1, <2>2
  <2> QED BY <2>1, <2>2, <2>3
<1>2. Follows(AllNames[k]) = n
  <2>1. Cardinality(Chain(AllNames[k])) = n + 1
    BY DEF Leads
  <2> QED BY <1>1, <2>1 DEF Follows
<1>3. Base(AllNames[k]) = AllNames[b]
  <2>1. AllNames[b] \in Chain(AllNames[k])
    BY DEF Leads
  <2>2. ASSUME NEW a \in AliasOf PROVE a[1] # AllNames[b]
    <3>1. PICK p \in 1 .. Entries :
              table[p].kind = "alias" /\ a = <<AllNames[p], AllNames[table[p].target]>>
      BY Places
    <3>2. p # b
      BY <1>1, <3>1
    <3>3. AllNames[p] # AllNames[b]
      BY <1>1, <3>2, Places
    <3> QED BY <3>1, <3>3
  <2>3. ASSUME NEW m \in Chain(AllNames[k]), \A a \in AliasOf : a[1] # m
        PROVE  m = AllNames[b]
    <3>1. PICK q \in 1 .. k : m = AllNames[q]
      BY DEF Leads
    <3>2. q \in 1 .. Entries
      BY <1>1
    <3>3. table[q].kind # "alias"
      <4>1. SUFFICES ASSUME table[q].kind = "alias" PROVE FALSE
        OBVIOUS
      <4>2. PICK a : a = <<AllNames[q], AllNames[table[q].target]>>
        OBVIOUS
      <4>3. a \in AliasOf /\ a[1] = m
        BY <3>1, <3>2, <4>1, <4>2, Places
      <4> QED BY <2>3, <4>3
    <3>4. q = b
      BY <3>1, <3>3 DEF Leads
    <3> QED BY <3>1, <3>4
  <2> QED BY <2>1, <2>2, <2>3 DEF Base
<1>4. /\ config \in Configs /\ VarCount \in Nat /\ HmiCount \in Nat
      /\ Entries = VarCount + HmiCount
      /\ DOMAIN config.vars = 1 .. VarCount /\ DOMAIN config.hmi = 1 .. HmiCount
  BY VarsFound, Parts DEF Entries, Filled
<1>5. CASE b <= VarCount
  <2>1. b \in 1 .. VarCount
    BY <1>1, <1>4, <1>5
  <2>2. ProcEntry(b)
    BY <2>1, VarsFound
  <2>3. AllNames[b] = <<"proc", config.vars[b].name>>
    BY <1>4, <2>1, NamesListed DEF ProcName
  <2>4. ASSUME NEW m \in DOMAIN config.vars, config.vars[m].name = config.vars[b].name
        PROVE  m = b
    <3>1. m \in 1 .. VarCount /\ m \in 1 .. Entries
      BY <1>4
    <3>2. AllNames[m] = <<"proc", config.vars[m].name>>
      BY <1>4, <3>1, NamesListed DEF ProcName
    <3>3. AllNames[m] = AllNames[b]
      BY <2>3, <2>4, <3>2
    <3> QED BY <1>1, <3>1, <3>3, Places
  <2>5. Base(AllNames[k])[1] = "proc" /\ Base(AllNames[k])[2] = config.vars[b].name
    BY <1>3, <2>3
  <2>6. b = CHOOSE m \in DOMAIN config.vars : config.vars[m].name = config.vars[b].name
    BY <1>4, <2>1, <2>4
  <2>7. BaseDesc(AllNames[k]) = config.vars[b]
    BY <2>5, <2>6 DEF BaseDesc
  <2> QED BY <1>2, <1>3, <2>1, <2>2, <2>7
<1>6. CASE b > VarCount
  <2>1. PICK l \in 1 .. HmiCount : b = VarCount + l
    <3>1. b - VarCount \in 1 .. HmiCount /\ b = VarCount + (b - VarCount)
      BY <1>1, <1>4, <1>6
    <3> QED BY <3>1
  <2>2. HmiVarEntry(l) \/ AliasEntry(l)
    BY VarsFound
  <2>3. HmiVarEntry(l)
    <3>1. SUFFICES ASSUME AliasEntry(l) PROVE FALSE
      BY <2>2
    <3>2. table[b].kind = "alias"
      BY <2>1, <3>1 DEF AliasEntry
    <3> QED BY <1>1, <3>2
  <2>4. config.hmi[l].kind = "var"
    BY <2>3 DEF HmiVarEntry
  <2>5. l \in HmiVars
    BY <1>4, <2>4 DEF HmiVars
  <2>6. AllNames[b] = <<"hmi", config.hmi[l].name>>
    BY <1>4, <2>1, NamesListed DEF HmiName
  <2>7. ASSUME NEW m \in DOMAIN config.hmi, config.hmi[m].name = config.hmi[l].name
        PROVE  m = l
    <3>1. m \in 1 .. HmiCount /\ VarCount + m \in 1 .. Entries
      BY <1>4
    <3>2. AllNames[VarCount + m] = <<"hmi", config.hmi[m].name>>
      BY <1>4, <3>1, NamesListed DEF HmiName
    <3>3. AllNames[VarCount + m] = AllNames[b]
      BY <2>6, <2>7, <3>2
    <3>4. VarCount + m = b
      BY <1>1, <3>1, <3>3, Places
    <3> QED BY <1>4, <2>1, <3>1, <3>4
  <2>8. Base(AllNames[k])[1] = "hmi" /\ Base(AllNames[k])[2] = config.hmi[l].name
    BY <1>3, <2>6
  <2>9. l = CHOOSE m \in DOMAIN config.hmi : config.hmi[m].name = config.hmi[l].name
    BY <1>4, <2>1, <2>7
  <2>10. BaseDesc(AllNames[k]) = config.hmi[l]
    BY <2>8, <2>9 DEF BaseDesc
  <2> QED BY <1>2, <1>3, <2>1, <2>3, <2>5, <2>10
<1> QED BY <1>1, <1>4, <1>5, <1>6

\* Variables can be read and written, and hold their initial values until a
\* client writes.
LEMMA BaseReachable ==
    ASSUME BuildInv, phase = "run", NEW k \in 1 .. Entries, NEW b, NEW n, Leads(k, b, n)
    PROVE  /\ \A for_write \in BOOLEAN : Reachable(table[b], for_write)
           /\ table[b].type = BaseDesc(AllNames[k]).type
           /\ table[b].kind \in {"proc", "var"}
           /\ table[b].index \in DOMAIN values[table[b].kind]
           /\ request = NoRequest =>
                 values[table[b].kind][table[b].index] = BaseDesc(AllNames[k]).initial
<1>1. /\ phase \in Filled /\ StoresFilled /\ ValuesSet /\ VarsAdded = VarCount
      /\ HmiAdded = HmiCount /\ VarCount \in Nat /\ HmiCount \in Nat
      /\ DOMAIN config.vars = 1 .. VarCount /\ DOMAIN config.hmi = 1 .. HmiCount
  <2>1. phase \in Filled
    BY DEF Filled
  <2>2. config \in Configs /\ Loops /\ Checked /\ TableFilled
    BY <2>1, Parts
  <2> QED BY <2>1, <2>2, Parts, Complete, VarsFound
<1>2. PICK e, desc : e = table[b] /\ desc = BaseDesc(AllNames[k])
  OBVIOUS
<1>3. CASE b \in 1 .. VarCount /\ ProcEntry(b) /\ desc = config.vars[b]
  <2>1. e.kind = "proc" /\ e.type = desc.type /\ e.index = b
    BY <1>2, <1>3 DEF ProcEntry
  <2>2. proc_store.count = VarCount /\ proc_store.types[b] = desc.type
    BY <1>1, <1>3 DEF StoresFilled
  <2>3. \A for_write : Reachable(e, for_write)
    <3>1. b <= VarCount
      BY <1>1, <1>3
    <3> QED BY <2>1, <2>2, <3>1 DEF Reachable
  <2>4. DOMAIN values.proc = 1 .. VarCount
    BY <1>1, LenProperties DEF ValuesSet
  <2>5. request = NoRequest => values.proc[b] = desc.initial
    BY <1>1, <1>3 DEF ValuesSet
  <2>6. values["proc"] = values.proc
    OBVIOUS
  <2> QED BY <1>2, <1>3, <2>1, <2>3, <2>4, <2>5, <2>6
<1>4. ASSUME NEW l \in HmiVars, b = VarCount + l, HmiVarEntry(l), desc = config.hmi[l]
      PROVE  /\ \A for_write \in BOOLEAN : Reachable(table[b], for_write)
             /\ table[b].type = desc.type
             /\ table[b].kind \in {"proc", "var"}
             /\ table[b].index \in DOMAIN values[table[b].kind]
             /\ request = NoRequest => values[table[b].kind][table[b].index] = desc.initial
  <2>1. PICK r : r = Rank(HmiVars, l)
    OBVIOUS
  <2>2. e.kind = "var" /\ e.type = desc.type /\ e.index = r
    BY <1>2, <1>4, <2>1 DEF HmiVarEntry
  <2>3. l \in 1 .. HmiCount /\ HmiVars \subseteq Nat /\ l \in Nat \ {0} /\ l <= HmiCount
    <3>1. l \in 1 .. HmiCount /\ HmiVars \subseteq Nat
      BY <1>1 DEF HmiVars
    <3> QED BY <1>1, <3>1
  <2>4. r \in Nat \ {0} /\ r <= Rank(HmiVars, HmiCount)
    BY <1>1, <2>1, <2>3, RanksDiffer, RanksGrow
  <2>5. /\ hmi_store.count = Rank(HmiVars, HmiCount)
        /\ hmi_store.types[r] = desc.type
    BY <1>1, <1>4, <2>1, <2>3 DEF StoresFilled
  <2>6. \A for_write : Reachable(e, for_write)
    BY <2>2, <2>4, <2>5 DEF Reachable
  <2>7. DOMAIN values.var = 1 .. Rank(HmiVars, HmiCount)
    BY <1>1, LenProperties DEF ValuesSet
  <2>8. r \in DOMAIN values.var
    <3>1. Rank(HmiVars, HmiCount) \in Nat
      <4>1. values.var \in Seq(Range(values.var)) /\ Len(values.var) = Rank(HmiVars, HmiCount)
        BY <1>1 DEF ValuesSet
      <4> QED BY <4>1, LenProperties
    <3> QED BY <2>4, <2>7, <3>1
  <2>9. request = NoRequest => values.var[r] = desc.initial
    BY <1>1, <1>4, <2>1 DEF ValuesSet
  <2>10. values["var"] = values.var
    OBVIOUS
  <2> QED BY <1>2, <2>2, <2>6, <2>8, <2>9, <2>10
<1> QED BY <1>1, <1>2, <1>3, <1>4, BaseFound

LEMMA NamesFound ==
    ASSUME BuildInv PROVE NamesMeanVariables
<1>1. SUFFICES ASSUME phase = "run", NEW name \in Names
               PROVE  /\ FindId(name) # 0
                      /\ table[FindId(name)].type = BaseDesc(name).type
                      /\ Accessible(FindId(name), FALSE) <=> Follows(name) <= MaxHops
                      /\ Accessible(FindId(name), FALSE) /\ request = NoRequest =>
                             ReadValue(FindId(name)) = BaseDesc(name).initial
  BY DEF NamesMeanVariables
<1>2. phase \in Filled
  BY <1>1 DEF Filled
<1>3. PICK k \in 1 .. Entries : name = AllNames[k]
  BY <1>2, Places
<1>4. FindId(name) = k /\ k # 0
  <2>1. FindId(name) = k
    BY <1>2, <1>3, Places
  <2>2. k # 0
    OBVIOUS
  <2> QED BY <2>1, <2>2
<1>5. PICK b, n : Leads(k, b, n)
  BY <1>2, EachLeads
<1>6. /\ n \in Nat /\ b # 0 /\ table[b].type = table[k].type
      /\ ResolveEntry(k, FALSE) = IF n <= MaxHops THEN b ELSE 0
  <2>1. n \in Nat /\ b \in 1 .. k /\ table[b].type = table[k].type
    BY <1>5 DEF Leads
  <2>2. b # 0
    BY <2>1
  <2>3. 0 \in 0 .. MaxHops + 1 /\ FALSE \in BOOLEAN
    BY Sizes
  <2>4. Resolve(FALSE)[0][k] = IF 0 + n <= MaxHops THEN b ELSE 0
    BY <1>5, <2>3 DEF Leads
  <2>5. 0 + n = n
    BY <2>1
  <2> QED BY <2>1, <2>2, <2>4, <2>5 DEF ResolveEntry
<1>7. /\ Reachable(table[b], FALSE) /\ table[b].type = BaseDesc(name).type
      /\ request = NoRequest =>
            values[table[b].kind][table[b].index] = BaseDesc(name).initial
  BY <1>1, <1>3, <1>5, BaseReachable
<1>8. Follows(name) = n
  BY <1>2, <1>3, <1>5, BaseFound
<1>9. Accessible(k, FALSE) <=> n <= MaxHops
  BY <1>6, <1>7 DEF Accessible
<1>10. ASSUME Accessible(k, FALSE), request = NoRequest
       PROVE  ReadValue(k) = BaseDesc(name).initial
  BY <1>6, <1>7, <1>9, <1>10 DEF ReadValue
<1> QED BY <1>4, <1>6, <1>7, <1>8, <1>9, <1>10

\* Whatever the configuration mixes, each of its names stands for its variable,
\* which has its initial value at the start and after a factory reset.
THEOREM NamesFindVariables == Spec => []NamesMeanVariables
  BY NamesFound, BuildCorrect, PTL
-----------------------------------------------------------------------------
(* Remote writes. *)

\* Numbers in a type's range are stored as they are.
LEMMA NumbersStored ==
    ASSUME NEW type \in DOMAIN TypeMax \cup {"U32"}, NEW x \in Int, NEW top,
           top = IF type = "U32" THEN UlongMax ELSE TypeMax[type]
    PROVE  /\ x \in 0 .. top =>
                 /\ InRange(type, x) /\ StrToUl(x) = x
                 /\ type # "U32" => StrToUl(x) % (TypeMax[type] + 1) = x
           /\ x > top /\ type # "U32" => ~InRange(type, x)
<1>1. /\ UlongMax \in Nat /\ top \in 0 .. UlongMax
      /\ type # "U32" => top = TypeMax[type] /\ top \in 0 .. UlongMax - 1
  BY RangeAssumption
<1>2. ASSUME x \in 0 .. top PROVE StrToUl(x) = x
  <2>1. x \in Nat /\ x <= UlongMax /\ ~(-x > UlongMax)
    BY <1>1, <1>2
  <2> QED BY <1>1, <2>1 DEF StrToUl
<1>3. ASSUME x \in 0 .. top, type # "U32" PROVE StrToUl(x) % (TypeMax[type] + 1) = x
  <2>1. top \in Nat /\ x \in 0 .. top /\ TypeMax[type] = top
    BY <1>1, <1>3
  <2>2. x % (top + 1) = x
    BY <2>1
  <2> QED BY <1>2, <1>3, <2>1, <2>2
<1>4. ASSUME x > top, type # "U32" PROVE StrToUl(x) > top
  <2>1. x \in Nat /\ x > top /\ top < UlongMax /\ top \in Nat
    BY <1>1, <1>4
  <2>2. StrToUl(x) = IF x > UlongMax THEN UlongMax ELSE x
    BY <1>1, <2>1 DEF StrToUl
  <2> QED BY <1>1, <2>1, <2>2
<1>5. CASE type = "BOOL"
  <2>1. top = 1 /\ (InRange(type, x) <=> x \in {0, 1})
    BY <1>1, <1>5, RangeAssumption DEF InRange
  <2> QED BY <1>2, <1>3, <1>5, <2>1
<1>6. CASE type = "U32"
  <2>1. InRange(type, x)
    BY <1>6 DEF InRange
  <2> QED BY <1>2, <1>6, <2>1
<1>7. CASE type \notin {"BOOL", "U32"}
  <2>1. InRange(type, x) <=> StrToUl(x) <= top
    BY <1>1, <1>7 DEF InRange
  <2>2. x \in 0 .. top => StrToUl(x) <= top
    BY <1>1, <1>2
  <2>3. x > top => ~(StrToUl(x) <= top)
    <3>1. SUFFICES ASSUME x > top PROVE ~(StrToUl(x) <= top)
      OBVIOUS
    <3>2. PICK y : y = StrToUl(x)
      OBVIOUS
    <3>3. y > top /\ y \in Int
      <4>1. y = UlongMax \/ y = x
        BY <1>1, <3>1, <3>2 DEF StrToUl
      <4> QED BY <1>1, <1>4, <1>7, <3>1, <3>2, <4>1
    <3> QED BY <1>1, <3>2, <3>3
  <2> QED BY <1>2, <1>3, <1>7, <2>1, <2>2, <2>3
<1> QED BY <1>5, <1>6, <1>7

\* The tags that may not be written are the read-only ones.
LEMMA ReadOnlyDenied ==
    ASSUME BuildInv, phase \in Filled, NEW k \in 1 .. Entries
    PROVE  Denied(k) <=> AllNames[k] \in ReadOnlyNames
<1>1. /\ config \in Configs /\ VarCount \in Nat /\ HmiCount \in Nat
      /\ Entries = VarCount + HmiCount /\ DOMAIN config.hmi = 1 .. HmiCount
  BY VarsFound, Parts DEF Entries, Filled
<1>2. ReadOnlyNames = {HmiName(l) : l \in {m \in 1 .. HmiCount : ~config.hmi[m].access}}
  BY <1>1 DEF ReadOnlyNames, HmiName
<1>3. CASE k <= VarCount
  <2>1. k \in 1 .. VarCount
    BY <1>1, <1>3
  <2>2. ProcEntry(k) /\ AllNames[k] = ProcName(k)
    BY <1>1, <2>1, VarsFound, NamesListed
  <2>3. table[k].kind = "proc" /\ AllNames[k][1] = "proc"
    BY <2>2 DEF ProcEntry, ProcName
  <2>4. ~Denied(k)
    BY <2>3 DEF Denied
  <2>5. \A l : HmiName(l)[1] = "hmi"
    BY DEF HmiName
  <2>6. AllNames[k] \notin ReadOnlyNames
    <3>1. SUFFICES ASSUME AllNames[k] \in ReadOnlyNames PROVE FALSE
      OBVIOUS
    <3>2. PICK l \in 1 .. HmiCount : AllNames[k] = HmiName(l)
      BY <1>2, <3>1
    <3>3. "proc" = "hmi"
      BY <2>3, <2>5, <3>2
    <3> QED BY <3>3
  <2> QED BY <2>4, <2>6
<1>4. CASE k > VarCount
  <2>1. PICK l \in 1 .. HmiCount : k = VarCount + l
    <3>1. k - VarCount \in 1 .. HmiCount /\ k = VarCount + (k - VarCount)
      BY <1>1, <1>4
    <3> QED BY <3>1
  <2>2. table[k].kind \in {"var", "alias"} /\ table[k].access = config.hmi[l].access
    <3>1. HmiVarEntry(l) \/ AliasEntry(l)
      BY VarsFound
    <3>2. CASE HmiVarEntry(l)
      BY <2>1, <3>2 DEF HmiVarEntry
    <3>3. CASE AliasEntry(l)
      BY <2>1, <3>3 DEF AliasEntry
    <3> QED BY <3>1, <3>2, <3>3
  <2>3. Denied(k) <=> ~config.hmi[l].access
    BY <2>2 DEF Denied
  <2>4. AllNames[k] = HmiName(l)
    BY <1>1, <2>1, NamesListed
  <2>5. ASSUME NEW m \in 1 .. HmiCount, HmiName(m) = HmiName(l) PROVE m = l
    <3>1. VarCount + m \in 1 .. Entries /\ AllNames[VarCount + m] = AllNames[k]
      BY <1>1, <2>4, <2>5, NamesListed
    <3>2. VarCount + m = k
      BY <3>1, Places
    <3> QED BY <1>1, <2>1, <3>2
  <2> QED BY <1>2, <2>3, <2>4, <2>5
<1> QED BY <1>1, <1>3, <1>4

\* A name may be written when nothing on its way is read-only.
LEMMA Writable ==
    ASSUME BuildInv, phase = "run", NEW k \in 1 .. Entries, NEW b, NEW n, Leads(k, b, n)
    PROVE  /\ Accessible(k, TRUE) <=> /\ Chain(AllNames[k]) \cap ReadOnlyNames = {}
                                      /\ Follows(AllNames[k]) <= MaxHops
           /\ Accessible(k, TRUE) => ResolveEntry(k, TRUE) = b
           /\ Accessible(k, FALSE) => ResolveEntry(k, FALSE) = b
<1>1. phase \in Filled /\ k # 0
  <2>1. phase \in Filled
    BY DEF Filled
  <2>2. k # 0
    OBVIOUS
  <2> QED BY <2>1, <2>2
<1>2. Follows(AllNames[k]) = n
  BY <1>1, BaseFound
<1>3. n \in Nat /\ b \in 1 .. k /\ b # 0
  <2>1. n \in Nat /\ b \in 1 .. k
    BY DEF Leads
  <2>2. b # 0
    BY <2>1
  <2> QED BY <2>1, <2>2
<1>4. (\A m \in 1 .. k : AllNames[m] \in Chain(AllNames[k]) => ~Denied(m))
          <=> Chain(AllNames[k]) \cap ReadOnlyNames = {}
  <2>1. Chain(AllNames[k]) \subseteq {AllNames[m] : m \in 1 .. k}
    BY DEF Leads
  <2>2. \A m \in 1 .. k : m \in 1 .. Entries
    BY <1>1, Places
  <2>3. \A m \in 1 .. k : Denied(m) <=> AllNames[m] \in ReadOnlyNames
    BY <1>1, <2>2, ReadOnlyDenied
  <2> QED BY <2>1, <2>3
<1>5. ASSUME NEW for_write \in BOOLEAN
      PROVE  ResolveEntry(k, for_write) =
                 IF n <= MaxHops /\
                    (for_write => \A m \in 1 .. k :
                                      AllNames[m] \in Chain(AllNames[k]) => ~Denied(m))
                 THEN b ELSE 0
  <2>1. 0 \in 0 .. MaxHops + 1 /\ 0 + n = n
    BY <1>3, Sizes
  <2>2. Resolve(for_write)[0][k] =
            IF 0 + n <= MaxHops /\
               (for_write => \A m \in 1 .. k :
                                 AllNames[m] \in Chain(AllNames[k]) => ~Denied(m))
            THEN b ELSE 0
    BY <2>1 DEF Leads
  <2> QED BY <2>1, <2>2 DEF ResolveEntry
<1>6. ResolveEntry(k, TRUE) =
          IF n <= MaxHops /\ Chain(AllNames[k]) \cap ReadOnlyNames = {} THEN b ELSE 0
  BY <1>4, <1>5
<1>7. ResolveEntry(k, FALSE) = IF n <= MaxHops THEN b ELSE 0
  BY <1>5
<1>8. Reachable(table[b], TRUE)
  BY BaseReachable
<1> QED BY <1>1, <1>2, <1>3, <1>6, <1>7, <1>8 DEF Accessible

\* Different variables have different values.
LEMMA ValuesDiffer ==
    ASSUME BuildInv, phase \in Filled, NEW k \in 1 .. Entries, NEW b, NEW n, Leads(k, b, n),
           NEW k2 \in 1 .. Entries, NEW b2, NEW n2, Leads(k2, b2, n2),
           table[b].kind = table[b2].kind, table[b].index = table[b2].index
    PROVE  b = b2
<1>1. /\ \/ b \in 1 .. VarCount /\ ProcEntry(b)
         \/ \E l \in HmiVars : b = VarCount + l /\ HmiVarEntry(l)
      /\ \/ b2 \in 1 .. VarCount /\ ProcEntry(b2)
         \/ \E l \in HmiVars : b2 = VarCount + l /\ HmiVarEntry(l)
  BY BaseFound
<1>2. ASSUME NEW m, ProcEntry(m) PROVE table[m].kind = "proc" /\ table[m].index = m
  BY <1>2 DEF ProcEntry
<1>3. ASSUME NEW l, NEW m, m = VarCount + l, HmiVarEntry(l)
      PROVE  table[m].kind = "var" /\ table[m].index = Rank(HmiVars, l)
  BY <1>3 DEF HmiVarEntry
<1>4. CASE ProcEntry(b) /\ ProcEntry(b2)
  BY <1>2, <1>4
<1>5. ASSUME NEW l \in HmiVars, NEW l2 \in HmiVars, b = VarCount + l, b2 = VarCount + l2,
             HmiVarEntry(l), HmiVarEntry(l2)
      PROVE  b = b2
  <2>1. Rank(HmiVars, l) = Rank(HmiVars, l2)
    BY <1>3, <1>5
  <2>2. l \in Nat \ {0} /\ l2 \in Nat \ {0}
    BY VarsFound
  <2>3. l = l2
    BY <2>1, <2>2, RanksDiffer
  <2> QED BY <1>5, <2>3
<1>6. "proc" # "var"
  OBVIOUS
<1> QED BY <1>1, <1>2, <1>3, <1>4, <1>5, <1>6

\* A write changes one value.
LEMMA OneWritten ==
    ASSUME values = [proc |-> values.proc, var |-> values.var],
           NEW e, NEW x, e.kind \in {"proc", "var"}, e.index \in DOMAIN values[e.kind],
           NEW v, v = Written(e, x)
    PROVE  /\ v[e.kind][e.index] = IF e.type = "U32" THEN x
                                   ELSE x % (TypeMax[e.type] + 1)
           /\ \A kind \in {"proc", "var"} : \A m \in DOMAIN values[kind] :
                 kind # e.kind \/ m # e.index => v[kind][m] = values[kind][m]
<1>1. PICK kind1, k1, y : /\ kind1 = e.kind /\ k1 = e.index
                          /\ y = IF e.type = "U32" THEN x ELSE x % (TypeMax[e.type] + 1)
  OBVIOUS
<1>2. v = [values EXCEPT ![kind1][k1] = y]
  <2>1. e.kind # "io"
    OBVIOUS
  <2> QED BY <1>1, <2>1 DEF Written
<1>3. kind1 \in DOMAIN values /\ DOMAIN values = {"proc", "var"}
  <2>1. DOMAIN [proc |-> values.proc, var |-> values.var] = {"proc", "var"}
    OBVIOUS
  <2> QED BY <1>1, <2>1
<1>4. /\ v[kind1] = [values[kind1] EXCEPT ![k1] = y]
      /\ \A kind \in {"proc", "var"} : kind # kind1 => v[kind] = values[kind]
  BY <1>2, <1>3
<1>5. v[kind1][k1] = y
  BY <1>1, <1>4
<1>6. \A m \in DOMAIN values[kind1] : m # k1 => v[kind1][m] = values[kind1][m]
  BY <1>4
<1> QED BY <1>1, <1>4, <1>5, <1>6

\* What a read returns, after a step that leaves the table alone.
LEMMA ReadLater ==
    ASSUME table' = table, NEW k
    PROVE  ReadValue(k)' = values'[table[ResolveEntry(k, FALSE)].kind]
                                  [table[ResolveEntry(k, FALSE)].index]
<1>1. ResolveEntry(k, FALSE)' = ResolveEntry(k, FALSE)
  BY DEF ResolveEntry, Resolve, Denied
<1> QED BY <1>1 DEF ReadValue

\* The types of the variables.
LEMMA VariableTypes ==
    ASSUME BuildInv, phase \in Filled, NEW k \in 1 .. Entries
    PROVE  BaseDesc(AllNames[k]).type \in DOMAIN TypeMax \cup {"U32"}
<1>1. PICK b, n : Leads(k, b, n)
  BY EachLeads
<1>2. /\ config \in Configs /\ DOMAIN config.vars = 1 .. VarCount
  BY VarsFound, Parts DEF Filled
<1>3. CASE b \in 1 .. VarCount /\ BaseDesc(AllNames[k]) = config.vars[b]
  <2>1. config.vars[b] \in Range(config.vars)
    BY <1>2, <1>3 DEF Range
  <2> QED BY <1>2, <1>3, <2>1, RangeAssumption
<1>4. CASE \E l \in HmiVars : BaseDesc(AllNames[k]) = config.hmi[l]
  <2>1. PICK l \in HmiVars : BaseDesc(AllNames[k]) = config.hmi[l]
    BY <1>4
  <2>2. config.hmi[l] \in Range(config.hmi) /\ config.hmi[l].kind = "var"
    BY DEF HmiVars, Range
  <2> QED BY <1>2, <2>1, <2>2, RangeAssumption
<1> QED BY <1>1, <1>3, <1>4, BaseFound

\* The same of a name.
LEMMA ReadByName ==
    ASSUME table' = table, NEW name, NEW k, k = FindId(name)
    PROVE  ReadValue(FindId(name))' = values'[table[ResolveEntry(k, FALSE)].kind]
                                             [table[ResolveEntry(k, FALSE)].index]
<1>1. FindId(name)' = k
  BY DEF FindId, FindIn
<1>2. ResolveEntry(k, FALSE)' = ResolveEntry(k, FALSE)
  BY DEF ResolveEntry, Resolve, Denied
<1> QED BY <1>1, <1>2 DEF ReadValue

\* Only remote writes ask for a variable.
LEMMA OnlyWritesAsk ==
    ASSUME [Next]_vars, request' # request, request'.name \in Names
    PROVE  \E name \in Names, x \in Numbers :
               RemoteWrite(name, x) /\ request'.name = name /\ request'.number = x
<1>1. ~UNCHANGED vars
  BY DEF vars, remote
<1>2. ~Build
  <2>1. Fail => request' = request
    BY DEF Fail, remote
  <2>2. \A step, outer, inner : Proceed(step, outer, inner) => request' = request
    BY DEF Proceed, remote
  <2> QED BY <2>1, <2>2 DEF Build, CheckConfig, CreateBackend, FinalizeBackend, BindDevice,
             AddProcVar, ProcVarsDone, AddAlias, AddHmiVar, AddOther, HmiDone, AddIoTag,
             IoTagsDone
<1>3. ~InitStores /\ ~BindViews
  BY DEF InitStores, BindViews, Proceed, remote
<1>4. ~FactoryReset
  <2>1. SUFFICES ASSUME FactoryReset PROVE FALSE
    OBVIOUS
  <2>2. <<"", "">> \in Names
    BY <2>1 DEF FactoryReset, NoRequest
  <2>3. \/ \E k \in DOMAIN config.vars : <<"", "">> = <<"proc", config.vars[k].name>>
        \/ \E k \in DOMAIN config.hmi : <<"", "">> = <<"hmi", config.hmi[k].name>>
    BY <2>2 DEF Names
  <2>4. "" = "proc" \/ "" = "hmi"
    BY <2>3
  <2> QED BY <2>4
<1>5. PICK name \in Asked, x \in Numbers : RemoteWrite(name, x)
  BY <1>1, <1>2, <1>3, <1>4 DEF Next
<1>6. request'.name = name /\ request'.number = x
  BY <1>5 DEF RemoteWrite
<1> QED BY <1>5, <1>6

LEMMA WritesReach ==
    ASSUME BuildInv, [Next]_vars PROVE WriteReaches
<1>1. SUFFICES ASSUME request' # request, request'.name \in Names PROVE WriteReaches
  BY DEF WriteReaches
<1>2. PICK name \in Names, x \in Numbers :
          RemoteWrite(name, x) /\ request'.name = name /\ request'.number = x
  BY <1>1, OnlyWritesAsk
<1>3. phase = "run" /\ phase \in Filled /\ table' = table /\ x \in Int /\ ValuesSet
  BY <1>2, Parts, RangeAssumption DEF RemoteWrite, Filled
<1>4. PICK k \in 1 .. Entries : name = AllNames[k]
  BY <1>3, Places
<1>5. FindId(name) = k /\ k # 0
  <2>1. FindId(name) = k
    BY <1>3, <1>4, Places
  <2>2. k # 0
    OBVIOUS
  <2> QED BY <2>1, <2>2
<1>6. PICK b, n : Leads(k, b, n)
  BY <1>3, EachLeads
<1>7. PICK type, top, e, y : /\ type = BaseDesc(name).type
                             /\ top = IF type = "U32" THEN UlongMax ELSE TypeMax[type]
                             /\ e = table[b] /\ y = StrToUl(x)
  OBVIOUS
<1>8. /\ table[k].type = type /\ e.type = type /\ type \in DOMAIN TypeMax \cup {"U32"}
      /\ e.kind \in {"proc", "var"} /\ e.index \in DOMAIN values[e.kind]
  <2>1. table[b].type = table[k].type
    BY <1>6 DEF Leads
  <2> QED BY <1>3, <1>4, <1>6, <1>7, <2>1, BaseReachable, VariableTypes
<1>9. IF InRange(type, x) /\ Accessible(k, TRUE)
      THEN reply' = "ok" /\ values' = Written(e, y)
      ELSE reply' = "error" /\ values' = values
  <2>1. Accessible(k, TRUE) => ResolveEntry(k, TRUE) = b
    BY <1>3, <1>6, Writable
  <2>2. IF k # 0 /\ InRange(table[k].type, x) /\ Accessible(k, TRUE)
        THEN reply' = "ok" /\ values' = Written(table[ResolveEntry(k, TRUE)], StrToUl(x))
        ELSE reply' = "error" /\ values' = values
    BY <1>2, <1>5 DEF RemoteWrite
  <2> QED BY <1>5, <1>7, <1>8, <2>1, <2>2
<1>10. PICK allowed : allowed = (/\ Chain(name) \cap ReadOnlyNames = {}
                                 /\ Follows(name) <= MaxHops)
  OBVIOUS
<1>11. Accessible(k, TRUE) <=> allowed
  BY <1>3, <1>4, <1>6, <1>10, Writable
<1>12. /\ x \in 0 .. top => InRange(type, x) /\ y = x
                            /\ (type # "U32" => y % (TypeMax[type] + 1) = x)
       /\ x > top /\ type # "U32" => ~InRange(type, x)
  BY <1>3, <1>7, <1>8, NumbersStored
<1>13. /\ x \in 0 .. top => (reply' = "ok" <=> allowed)
       /\ x > top /\ type # "U32" => reply' = "error"
       /\ reply' = "ok" => allowed
  BY <1>9, <1>11, <1>12
<1>14. ASSUME NEW other \in Names, Accessible(FindId(other), FALSE)
       PROVE  IF reply' = "ok" /\ Base(other) = Base(name)
              THEN x \in 0 .. top => ReadValue(FindId(other))' = x
              ELSE ReadValue(FindId(other))' = ReadValue(FindId(other))
  <2>1. PICK k2 \in 1 .. Entries : other = AllNames[k2]
    BY <1>3, Places
  <2>2. FindId(other) = k2
    BY <1>3, <2>1, Places
  <2>3. PICK b2, n2 : Leads(k2, b2, n2)
    BY <1>3, EachLeads
  <2>4. PICK e2 : e2 = table[b2]
    OBVIOUS
  <2>5. ResolveEntry(k2, FALSE) = b2
    BY <1>3, <1>14, <2>2, <2>3, Writable
  <2>6. /\ ReadValue(FindId(other))' = values'[e2.kind][e2.index]
        /\ ReadValue(FindId(other)) = values[e2.kind][e2.index]
    <3>1. ReadValue(FindId(other))' = values'[e2.kind][e2.index]
      BY <1>3, <2>2, <2>4, <2>5, ReadByName
    <3>2. ReadValue(FindId(other)) = values[e2.kind][e2.index]
      BY <2>2, <2>4, <2>5 DEF ReadValue
    <3> QED BY <3>1, <3>2
  <2>7. e2.kind \in {"proc", "var"} /\ e2.index \in DOMAIN values[e2.kind]
    BY <1>3, <2>3, <2>4, BaseReachable
  <2>8. CASE reply' # "ok"
    <3>1. values' = values
      BY <1>9, <2>8
    <3> QED BY <2>6, <2>8, <3>1
  <2>9. CASE reply' = "ok"
    <3>1. PICK v : v = values'
      OBVIOUS
    <3>2. values' = Written(e, y)
      BY <1>9, <2>9
    <3>3. values = [proc |-> values.proc, var |-> values.var]
      BY <1>3 DEF ValuesSet
    <3>4. /\ v[e.kind][e.index] = IF e.type = "U32" THEN y ELSE y % (TypeMax[e.type] + 1)
          /\ \A kind \in {"proc", "var"} : \A m \in DOMAIN values[kind] :
                kind # e.kind \/ m # e.index => v[kind][m] = values[kind][m]
      BY <1>8, <3>1, <3>2, <3>3, OneWritten
    <3>5. Base(other) = AllNames[b2] /\ Base(name) = AllNames[b]
      BY <1>3, <1>4, <1>6, <2>1, <2>3, BaseFound
    <3>6. CASE Base(other) = Base(name)
      <4>1. b2 = b
        <5>1. b \in 1 .. k /\ b2 \in 1 .. k2
          BY <1>6, <2>3 DEF Leads
        <5>2. Entries \in Nat
          BY <1>3, Places
        <5>3. b \in 1 .. Entries /\ b2 \in 1 .. Entries
          BY <5>1, <5>2
        <5> QED BY <1>3, <3>5, <3>6, <5>3, Places
      <4>2. e2 = e
        BY <1>7, <2>4, <4>1
      <4>3. x \in 0 .. top => v[e.kind][e.index] = x
        BY <1>8, <1>12, <3>4
      <4> QED BY <2>6, <2>9, <3>1, <3>6, <4>2, <4>3
    <3>7. CASE Base(other) # Base(name)
      <4>1. b2 # b
        BY <3>5, <3>7
      <4>2. e2.kind # e.kind \/ e2.index # e.index
        BY <1>3, <1>6, <1>7, <2>3, <2>4, <4>1, ValuesDiffer
      <4>3. v[e2.kind][e2.index] = values[e2.kind][e2.index]
        BY <2>7, <3>4, <4>2
      <4> QED BY <2>6, <3>1, <3>7, <4>3
    <3> QED BY <3>6, <3>7
  <2> QED BY <2>8, <2>9
<1>15. \A other \in Names :
           Accessible(FindId(other), FALSE) =>
               IF reply' = "ok" /\ Base(other) = Base(name)
               THEN x \in 0 .. top => ReadValue(FindId(other))' = x
               ELSE ReadValue(FindId(other))' = ReadValue(FindId(other))
  BY <1>14
<1> QED BY <1>2, <1>7, <1>10, <1>13, <1>15 DEF WriteReaches

\* A remote write changes the variable that its name stands for and no other,
\* to the number asked for, unless something on the way is read-only.
THEOREM WritesReachVariables == Spec => WriteReachesItsVariable
<1>1. ASSUME BuildInv, [Next]_vars PROVE [WriteReaches]_vars
  BY <1>1, WritesReach
<1> QED BY <1>1, BuildCorrect, PTL DEF Spec, WriteReachesItsVariable
=============================================================================
