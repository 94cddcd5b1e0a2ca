---------------------------- MODULE SystemBuilder ----------------------------
(***************************************************************************)
(* From a configuration to values that can be read and written by name:    *)
(* system_build (system/builder/system_builder.c) creates the backends,    *)
(* binds the devices and fills the tag table (core/tag/tag_table.c);       *)
(* proc_init and hmi_init (app/plc/store_init.c) set the variables;        *)
(* user_bind looks the application's tags up; then remote requests         *)
(* (core/ipc/tag_rpc_plc.c) reach the variables through tag_read and       *)
(* tag_write (core/tag/tag_api.c), which follow aliases.                   *)
(*                                                                         *)
(* A full name "proc.x" is the pair <<"proc", "x">>.  Array indices start  *)
(* at 1, and 0 is "not found".  Access is whether a tag may be written.    *)
(***************************************************************************)
EXTENDS Integers, Sequences, FiniteSets, Functions

CONSTANTS
    Configs,        \* the configurations, static tables in the code
    Models,         \* models in the device registry ...
    Desc,           \* ... and their descriptors
    SlaveCount,     \* slaves on each bus
    MaxBackends,    \* MAX_BACKENDS
    MaxTags,        \* MAX_TAGS
    MaxVars,        \* values in each of the two stores: 64
    MaxHops,        \* aliases of aliases that are followed: 4
    UlongMax,       \* ULONG_MAX, and the range of U32
    TypeMax,        \* the range of the other types: BOOL, U8, U16
    Numbers         \* numbers that clients write

ASSUME LimitAssumption ==
    {SlaveCount, MaxBackends, MaxTags, MaxVars, MaxHops} \subseteq Nat
\* The tables are arrays.
ASSUME TableAssumption ==
    /\ \A c \in Configs : \A t \in {c.backends, c.devices, c.vars, c.hmi} :
          t \in Seq(Range(t))
    /\ \A model \in Models : Desc[model].tags \in Seq(Range(Desc[model].tags))
\* Variables are of these types, and unsigned long holds more than the small ones.
ASSUME RangeAssumption ==
    /\ \A c \in Configs :
          \A desc \in Range(c.vars) \cup {d \in Range(c.hmi) : d.kind = "var"} :
              desc.type \in DOMAIN TypeMax \cup {"U32"}
    /\ "BOOL" \in DOMAIN TypeMax /\ TypeMax["BOOL"] = 1
    /\ \A type \in DOMAIN TypeMax : TypeMax[type] \in 0 .. UlongMax - 1
    /\ UlongMax \in Nat /\ Numbers \subseteq Int

VARIABLES
    config,                     \* the configuration that is built
    phase, i, j,                \* the step; the outer and the inner loop's index
    backends,                   \* rt->backends: the devices bound to each
    table,                      \* rt->tag_table
    proc_store, hmi_store,      \* [types, count] of the runtime's stores
    values,                     \* the stores' values, by kind and index
    broken,                     \* history: a backend's own step has failed
    request, reply              \* the last remote write and its outcome

stores == <<proc_store, hmi_store, values>>
built == <<backends, table, stores>>
remote == <<request, reply>>
vars == <<config, phase, i, j, built, broken, remote>>

NoRequest == [name |-> <<"", "">>, number |-> 0]
EmptyStore == [types |-> <<>>, count |-> 0]

\* tag_table_find_id: the entry of that name.
FindIn(entries, name) ==
    IF \E k \in DOMAIN entries : entries[k].name = name
    THEN CHOOSE k \in DOMAIN entries : entries[k].name = name
    ELSE 0
FindId(name) == FindIn(table, name)

\* runtime_init zeroes everything.
Init == /\ config \in Configs
        /\ phase = "check" /\ i = 1 /\ j = 1
        /\ backends = <<>> /\ table = <<>>
        /\ proc_store = EmptyStore /\ hmi_store = EmptyStore
        /\ values = [proc |-> <<>>, var |-> <<>>]
        /\ broken = FALSE /\ request = NoRequest /\ reply = "none"

\* The label cleanup: what is registered is destroyed, the table stays.
Kept_All(registered) == registered
Kept(registered) == <<>>

Fail == /\ phase' = "failed" /\ i' = 1 /\ j' = 1
        /\ backends' = Kept(backends)
        /\ UNCHANGED <<config, table, stores, remote>>

Proceed(step, outer, inner) == /\ phase' = step /\ i' = outer /\ j' = inner
                               /\ UNCHANGED <<config, broken, remote>>
-----------------------------------------------------------------------------
(* The checks before anything is built, and the backends. *)

\* device_registry_find, backend_registry_find_factory
Registered(model) == model \in Models
HasFactory(type) == type = "ethercat"

CheckConfig ==
    /\ phase = "check"
    /\ IF /\ Len(config.backends) \in 1 .. MaxBackends
          /\ config.devices # <<>>
          /\ \A d \in DOMAIN config.devices :
                /\ \E b \in DOMAIN config.backends :
                      config.backends[b].name = config.devices[d].backend
                /\ Registered(config.devices[d].model)
       THEN Proceed("create", 1, 1) /\ UNCHANGED built
       ELSE Fail /\ UNCHANGED broken

\* backend_create needs a factory of the backend's type; init scans the bus.
CreateBackend(ok) ==
    /\ phase = "create"
    /\ IF ~ok THEN Fail /\ broken' = TRUE
       ELSE IF ~HasFactory(config.backends[i].type) THEN Fail /\ UNCHANGED broken
       ELSE /\ backends' = Append(backends, <<>>)
            /\ Proceed("bind", i, 1)
            /\ UNCHANGED <<table, stores>>

\* ethercat_bind_device: no two devices at one position of the bus.
Bindable(d) ==
    LET position == config.devices[d].position
    IN /\ position \in 1 .. SlaveCount
       /\ \A k \in DOMAIN backends[i] :
             config.devices[backends[i][k]].position # position

BindDevice ==
    /\ phase = "bind" /\ j <= Len(config.devices)
    /\ IF config.devices[j].backend # config.backends[i].name
       THEN Proceed("bind", i, j + 1) /\ UNCHANGED built
       ELSE IF ~Bindable(j) THEN Fail /\ UNCHANGED broken
       ELSE /\ backends' = [backends EXCEPT ![i] = Append(@, j)]
            /\ Proceed("bind", i, j + 1)
            /\ UNCHANGED <<table, stores>>

FinalizeBackend(ok) ==
    /\ phase = "bind" /\ j > Len(config.devices)
    /\ IF ~ok THEN Fail /\ broken' = TRUE
       ELSE /\ IF i < Len(config.backends) THEN Proceed("create", i + 1, 1)
                                           ELSE Proceed("proc", 1, 1)
            /\ UNCHANGED built
-----------------------------------------------------------------------------
(* The tag table. *)

\* tag_table_add
Addable_Twice(name) == Len(table) < MaxTags
Addable(name) == Len(table) < MaxTags /\ FindId(name) = 0

\* Process variables: the i-th one has the i-th value of the store.
AddProcVar ==
    /\ phase = "proc" /\ i <= Len(config.vars) /\ Len(config.vars) <= MaxVars
    /\ LET desc == config.vars[i]
           name == <<"proc", desc.name>>
       IN IF ~Addable(name) THEN Fail /\ UNCHANGED broken
          ELSE /\ table' = Append(table, [name |-> name, kind |-> "proc",
                                          type |-> desc.type, index |-> i])
               /\ proc_store' = [proc_store EXCEPT !.types =
                                    Append(@, desc.type)]
               /\ values' = [values EXCEPT !.proc = Append(@, 0)]
               /\ Proceed("proc", i + 1, 1)
               /\ UNCHANGED <<backends, hmi_store>>

ProcVarsDone ==
    /\ phase = "proc"
    /\ IF Len(config.vars) > MaxVars THEN Fail /\ UNCHANGED broken
       ELSE /\ i > Len(config.vars)
            /\ proc_store' = [proc_store EXCEPT !.count = Len(config.vars)]
            /\ Proceed("hmi", 1, 1)
            /\ UNCHANGED <<backends, table, hmi_store, values>>

\* An alias stands for a tag that is in the table already.
AddAlias ==
    /\ phase = "hmi" /\ i <= Len(config.hmi) /\ config.hmi[i].kind = "alias"
    /\ LET desc == config.hmi[i]
           name == <<"hmi", desc.name>>
           target == FindId(desc.target)
       IN IF target = 0 \/ ~Addable(name) THEN Fail /\ UNCHANGED broken
          ELSE /\ table' = Append(table, [name |-> name, kind |-> "alias",
                                          type |-> table[target].type,
                                          target |-> target,
                                          access |-> desc.access])
               /\ Proceed("hmi", i + 1, 1)
               /\ UNCHANGED <<backends, stores>>

\* HMI variables have values of their own, numbered without the aliases.
VarIndex_OfTag == i
VarIndex == Len(hmi_store.types) + 1

AddHmiVar ==
    /\ phase = "hmi" /\ i <= Len(config.hmi) /\ config.hmi[i].kind = "var"
    /\ LET desc == config.hmi[i]
           name == <<"hmi", desc.name>>
       IN IF Len(hmi_store.types) >= MaxVars \/ ~Addable(name)
          THEN Fail /\ UNCHANGED broken
          ELSE /\ table' = Append(table, [name |-> name, kind |-> "var",
                                          type |-> desc.type, index |-> VarIndex,
                                          access |-> desc.access])
               /\ hmi_store' = [hmi_store EXCEPT !.types = Append(@, desc.type)]
               /\ values' = [values EXCEPT !.var = Append(@, 0)]
               /\ Proceed("hmi", i + 1, 1)
               /\ UNCHANGED <<backends, proc_store>>

AddOther == /\ phase = "hmi" /\ i <= Len(config.hmi)
            /\ config.hmi[i].kind \notin {"alias", "var"}
            /\ Fail /\ UNCHANGED broken

HmiDone == /\ phase = "hmi" /\ i > Len(config.hmi)
           /\ hmi_store' = [hmi_store EXCEPT !.count = Len(hmi_store.types)]
           /\ Proceed("io", 1, 1)
           /\ UNCHANGED <<backends, table, proc_store, values>>

\* validate_tag_desc: the tag lies in the device's inputs or outputs.
Size(type) == CASE type = "U8" -> 1 [] type = "U16" -> 2 [] OTHER -> 4
IoSize(model, dir) == IF dir = "in" THEN Desc[model].tx ELSE Desc[model].rx
ValidTag(t, model) ==
    /\ IoSize(model, t.dir) > 0
    /\ IF t.type = "BOOL" THEN t.bit < 8 /\ t.offset < IoSize(model, t.dir)
       ELSE t.bit = 0 /\ t.offset + Size(t.type) <= IoSize(model, t.dir)

\* find_backend_index takes the first backend of that name,
\* find_backend_device_index the device's place among those it binds.
BackendIndex(d) ==
    CHOOSE b \in DOMAIN config.backends :
        /\ config.backends[b].name = config.devices[d].backend
        /\ \A c \in 1 .. b - 1 :
              config.backends[c].name # config.devices[d].backend
DeviceIndex_OfConfig(d) == d
DeviceIndex(d) == Cardinality({e \in 1 .. d :
                      config.devices[e].backend = config.devices[d].backend})

\* The j-th tag of the i-th device.
AddIoTag ==
    /\ phase = "io" /\ i <= Len(config.devices)
    /\ LET device == config.devices[i]
           tags == Desc[device.model].tags
       IN /\ j <= Len(tags)
          /\ LET t == tags[j]
                 name == <<device.name, t.name>>
             IN IF ~ValidTag(t, device.model) \/ ~Addable(name)
                THEN Fail /\ UNCHANGED broken
                ELSE /\ table' = Append(table,
                            [name |-> name, kind |-> "io", type |-> t.type,
                             backend |-> BackendIndex(i),
                             device |-> DeviceIndex(i), dir |-> t.dir,
                             offset |-> t.offset, bit |-> t.bit])
                     /\ Proceed("io", i, j + 1)
                     /\ UNCHANGED <<backends, stores>>

IoTagsDone ==
    /\ phase = "io"
    /\ IF i > Len(config.devices) THEN Proceed("stores", 1, 1)
       ELSE /\ j > Len(Desc[config.devices[i].model].tags)
            /\ Proceed("io", i + 1, 1)
    /\ UNCHANGED built
-----------------------------------------------------------------------------
(* Initial values, and the application's tags. *)

\* The entry of a variable's name, when it is one and its index is in use.
Slot(kind, name, store) ==
    LET id == FindId(name)
    IN IF id # 0 /\ table[id].kind = kind /\ table[id].index <= store.count
       THEN table[id].index ELSE 0
Descs(kind) == IF kind = "proc" THEN Range(config.vars)
               ELSE {desc \in Range(config.hmi) : desc.kind = "var"}

\* proc_init and hmi_init, at the start and in a factory reset.
Initialised(kind, prefix, store) ==
    LET at(k) == {desc \in Descs(kind) :
                      Slot(kind, <<prefix, desc.name>>, store) = k}
    IN [k \in DOMAIN values[kind] |->
            IF at(k) = {} THEN values[kind][k]
            ELSE (CHOOSE desc \in at(k) : TRUE).initial]

AllInitialised == [proc |-> Initialised("proc", "proc", proc_store),
                   var |-> Initialised("var", "hmi", hmi_store)]

InitStores == /\ phase = "stores"
              /\ values' = AllInitialised
              /\ Proceed("views", 1, 1)
              /\ UNCHANGED <<backends, table, proc_store, hmi_store>>

\* bind_view_by_offset: a view names at least one tag, and each must exist.
ViewBound(names) == names # {} /\ \A n \in names : FindId(n) # 0
IoViewBound == ViewBound(config.views.io)
HmiViewBound == ViewBound(config.views.hmi)
ProcViewBound == ViewBound(config.views.proc)

\* user_bind.  When it fails main ends without destroying anything.
BindViews == /\ phase = "views"
             /\ Proceed(IF IoViewBound /\ HmiViewBound /\ ProcViewBound
                        THEN "run" ELSE "unbound", 1, 1)
             /\ UNCHANGED built
-----------------------------------------------------------------------------
(* Reading and writing by name. *)

\* resolve_entry: the tag behind a chain of aliases, or 0; a write needs the
\* access of each of them, and of the HMI variable.
Denied_AtVariable(k) == table[k].kind = "var" /\ ~table[k].access
Denied(k) == table[k].kind \in {"alias", "var"} /\ ~table[k].access

Resolve(for_write) ==
    LET resolve[depth \in 0 .. MaxHops + 1] ==
            [k \in 0 .. Len(table) |->
                IF depth > MaxHops \/ k = 0 \/ (for_write /\ Denied(k)) THEN 0
                ELSE IF table[k].kind = "alias"
                     THEN resolve[depth + 1][table[k].target]
                ELSE k]
    IN resolve
ResolveEntry(id, for_write) == Resolve(for_write)[0][id]

\* get_proc_value, get_hmi_value, and the checks of read_io_value and
\* write_io_value against the device's buffer.
Reachable(e, for_write) ==
    CASE e.kind = "proc" -> /\ e.index <= proc_store.count
                            /\ proc_store.types[e.index] = e.type
      [] e.kind = "var" -> /\ e.index <= hmi_store.count
                           /\ hmi_store.types[e.index] = e.type
      [] e.kind = "io" ->
            /\ for_write => e.dir = "out"
            /\ e.backend <= Len(backends)
            /\ e.device <= Len(backends[e.backend])
            /\ LET model == config.devices[backends[e.backend][e.device]].model
                   size == IoSize(model, e.dir)
               IN IF e.type = "BOOL" THEN e.offset < size
                  ELSE e.offset + Size(e.type) <= size

Accessible(id, for_write) ==
    LET k == ResolveEntry(id, for_write)
    IN k # 0 /\ Reachable(table[k], for_write)

\* strtoul: a number too large becomes the largest, a negative one wraps.
StrToUl(n) == IF n > UlongMax \/ -n > UlongMax THEN UlongMax
              ELSE IF n >= 0 THEN n ELSE n + UlongMax + 1

\* handle_write checks the number against the type of the tag that was named.
InRange_Wraps(type, n) == TRUE
InRange(type, n) ==
    CASE type = "BOOL" -> n \in {0, 1}
      [] type = "U32" -> TRUE
      [] OTHER -> StrToUl(n) <= TypeMax[type]

\* tag_write: the variable takes the low bits of the number.  (Outputs have
\* their values in EcProcessImage.)
Written(e, n) ==
    IF e.kind = "io" THEN values
    ELSE [values EXCEPT ![e.kind][e.index] =
             IF e.type = "U32" THEN n ELSE n % (TypeMax[e.type] + 1)]

\* The value that a successful read of a tag returns.
ReadValue(id) == LET e == table[ResolveEntry(id, FALSE)]
                 IN values[e.kind][e.index]

RemoteWrite(name, n) ==
    /\ phase = "run" /\ request = NoRequest
    /\ request' = [name |-> name, number |-> n]
    /\ LET id == FindId(name)
       IN IF id # 0 /\ InRange(table[id].type, n) /\ Accessible(id, TRUE)
          THEN /\ reply' = "ok"
               /\ values' = Written(table[ResolveEntry(id, TRUE)], StrToUl(n))
          ELSE reply' = "error" /\ UNCHANGED values
    /\ UNCHANGED <<config, phase, i, j, backends, table, proc_store, hmi_store,
                   broken>>

FactoryReset ==
    /\ phase = "run"
    /\ values' = AllInitialised
    /\ request' = NoRequest /\ reply' = "none"
    /\ UNCHANGED <<config, phase, i, j, backends, table, proc_store, hmi_store,
                   broken>>
-----------------------------------------------------------------------------
\* Any tag, or none.
Asked == {e.name : e \in Range(table)} \cup {<<"no", "tag">>}

Build == \/ CheckConfig
         \/ \E ok \in BOOLEAN : CreateBackend(ok) \/ FinalizeBackend(ok)
         \/ BindDevice \/ AddProcVar \/ ProcVarsDone
         \/ AddAlias \/ AddHmiVar \/ AddOther \/ HmiDone \/ AddIoTag \/ IoTagsDone

Next == \/ Build \/ InitStores \/ BindViews \/ FactoryReset
        \/ \E name \in Asked, n \in Numbers : RemoteWrite(name, n)

Spec == Init /\ [][Next]_vars
-----------------------------------------------------------------------------
(* What a configuration means, without the table. *)

Names == {<<"proc", config.vars[k].name>> : k \in DOMAIN config.vars}
         \cup {<<"hmi", config.hmi[k].name>> : k \in DOMAIN config.hmi}
IoNames == UNION {{<<config.devices[d].name, t.name>> :
                      t \in Range(Desc[config.devices[d].model].tags)} :
                  d \in DOMAIN config.devices}

AliasOf == {<<<<"hmi", config.hmi[k].name>>, config.hmi[k].target>> :
               k \in {m \in DOMAIN config.hmi : config.hmi[m].kind = "alias"}}
\* The names that a name leads to through aliases.
Chain(name) ==
    {m \in Names : \A closed \in SUBSET Names :
        name \in closed /\ (\A a \in AliasOf : a[1] \in closed => a[2] \in closed)
            => m \in closed}
\* The variable among them, by its kind and name.
Base(name) == CHOOSE m \in Chain(name) : \A a \in AliasOf : a[1] # m
ReadOnlyNames == {<<"hmi", config.hmi[k].name>> :
                     k \in {m \in DOMAIN config.hmi : ~config.hmi[m].access}}
BaseDesc(name) ==
    IF Base(name)[1] = "proc"
    THEN config.vars[CHOOSE k \in DOMAIN config.vars :
                        config.vars[k].name = Base(name)[2]]
    ELSE config.hmi[CHOOSE k \in DOMAIN config.hmi :
                        config.hmi[k].name = Base(name)[2]]
Follows(name) == Cardinality(Chain(name)) - 1

\* Whatever aliases, variables and devices a configuration mixes: a program
\* that runs can read each of its names through tag_read, unless the name is
\* more than MaxHops aliases away from its variable, with the variable's type;
\* and after the start and after a factory reset it reads as configured.
NamesMeanVariables ==
    phase = "run" => \A name \in Names :
        LET id == FindId(name)
        IN /\ id # 0 /\ table[id].type = BaseDesc(name).type
           /\ Accessible(id, FALSE) <=> Follows(name) <= MaxHops
           /\ Accessible(id, FALSE) /\ request = NoRequest =>
                  ReadValue(id) = BaseDesc(name).initial

\* A remote write changes the variable its name stands for, and no other; not
\* when any name on the way is read-only; to the number that was asked for, if
\* that lies in the type's range (otherwise U32 takes something else, and a
\* smaller type may take a negative number's complement).  It says OK exactly
\* when a number in range has been stored.
WriteReaches ==
    request' # request /\ request'.name \in Names =>
        LET n == request'.number
            name == request'.name
            desc == BaseDesc(name)
            top == IF desc.type = "U32" THEN UlongMax ELSE TypeMax[desc.type]
            allowed == /\ Chain(name) \cap ReadOnlyNames = {}
                       /\ Follows(name) <= MaxHops
        IN /\ n \in 0 .. top => (reply' = "ok" <=> allowed)
           /\ n > top /\ desc.type # "U32" => reply' = "error"
           /\ reply' = "ok" => allowed
           /\ \A other \in Names :
                 LET id == FindId(other)
                 IN Accessible(id, FALSE) =>
                     IF reply' = "ok" /\ Base(other) = Base(name)
                     THEN n \in 0 .. top => ReadValue(id)' = n
                     ELSE ReadValue(id)' = ReadValue(id)
WriteReachesItsVariable == [][WriteReaches]_vars

\* An input or output tag leads to the buffers of the device it is named after,
\* which its backend has bound, and lies within them.
IoTagsFindTheirDevice ==
    phase = "run" => \A id \in DOMAIN table :
        table[id].kind = "io" =>
            /\ Accessible(id, FALSE)
            /\ Accessible(id, TRUE) <=> table[id].dir = "out"
            /\ config.devices[backends[table[id].backend][table[id].device]].name
                   = table[id].name[1]

\* Which configurations make sense.
AllNames ==
    [k \in DOMAIN config.vars |-> <<"proc", config.vars[k].name>>]
    \o [k \in DOMAIN config.hmi |-> <<"hmi", config.hmi[k].name>>]
TagsOf(d) == Desc[config.devices[d].model].tags
UniqueNames ==
    /\ IsInjective(AllNames) /\ Names \cap IoNames = {}
    /\ \A d, e \in DOMAIN config.devices :
          config.devices[d].name = config.devices[e].name =>
              \A k \in DOMAIN TagsOf(d), m \in DOMAIN TagsOf(e) :
                  TagsOf(d)[k].name = TagsOf(e)[m].name => <<d, k>> = <<e, m>>
OneDevicePerPosition ==
    \A d, e \in DOMAIN config.devices :
        d # e /\ config.devices[d].backend = config.devices[e].backend =>
            config.devices[d].position # config.devices[e].position
AliasesLookBack ==
    \A k \in DOMAIN config.hmi : config.hmi[k].kind = "alias" =>
        \/ \E v \in DOMAIN config.vars :
              config.hmi[k].target = <<"proc", config.vars[v].name>>
        \/ \E m \in 1 .. k - 1 :
              config.hmi[k].target = <<"hmi", config.hmi[m].name>>

Limits ==
    /\ Len(config.backends) \in 1 .. MaxBackends /\ config.devices # <<>>
    /\ \A b \in DOMAIN config.backends : config.backends[b].type = "ethercat"
    /\ \A d \in DOMAIN config.devices :
          /\ \E b \in DOMAIN config.backends :
                config.backends[b].name = config.devices[d].backend
          /\ config.devices[d].model \in Models
          /\ config.devices[d].position \in 1 .. SlaveCount
          /\ \A k \in DOMAIN TagsOf(d) : ValidTag(TagsOf(d)[k], config.devices[d].model)
    /\ Len(config.vars) <= MaxVars
    /\ \A k \in DOMAIN config.hmi : config.hmi[k].kind \in {"alias", "var"}
    /\ Cardinality({k \in DOMAIN config.hmi : config.hmi[k].kind = "var"}) <= MaxVars
    /\ Cardinality(Names \cup IoNames) <= MaxTags
Sound == Limits /\ UniqueNames /\ OneDevicePerPosition /\ AliasesLookBack

\* Only what makes sense is built: no name twice, no two devices in one place,
\* aliases only of earlier variables and aliases (so never in a circle).  What
\* fails leaves no backend behind, and fails only for a reason.
OnlySoundIsBuilt ==
    /\ phase \in {"stores", "views", "run", "unbound"} => Sound
    /\ phase = "failed" => backends = <<>> /\ (Sound => broken)
=============================================================================
