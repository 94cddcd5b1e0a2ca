-------------------------- MODULE MCSystemBuilder --------------------------
(* Configurations for SystemBuilder: any three HMI tags on a fixed bus, and  *)
(* any three devices under fixed tags.                                       *)
EXTENDS SystemBuilder

Tag(n, dir, type, offset, bit) ==
    [name |-> n, dir |-> dir, type |-> type, offset |-> offset, bit |-> bit]
Descriptors ==
    [daio |-> [tx |-> 2, rx |-> 1,
               tags |-> <<Tag("in", "in", "U16", 0, 0), Tag("out", "out", "BOOL", 0, 7)>>],
     sensor |-> [tx |-> 1, rx |-> 0, tags |-> <<Tag("value", "in", "U8", 0, 0)>>],
     faulty |-> [tx |-> 2, rx |-> 0, tags |-> <<Tag("late", "in", "U16", 1, 0)>>]]
SomeNumbers == {-16, -15, -1, 0, 1, 3, 4, 15, 16}
Widths == [BOOL |-> 1, U8 |-> 3, U16 |-> 7]

Ec(n) == [name |-> n, type |-> "ethercat"]
Device(n, backend, model, position) ==
    [name |-> n, backend |-> backend, model |-> model, position |-> position]
Var(n, type, initial) == [name |-> n, type |-> type, initial |-> initial]
HmiVar(n, type, access) == [name |-> n, kind |-> "var", type |-> type,
                            access |-> access, initial |-> 1]
HmiAlias(n, target, access) == [name |-> n, kind |-> "alias", target |-> target,
                                access |-> access]
Views(io, hmi) == [io |-> io, hmi |-> hmi, proc |-> hmi]
Base1 == [backends |-> <<Ec("ec0")>>, devices |-> <<Device("d1", "ec0", "daio", 1)>>,
          vars |-> <<Var("v", "U8", 2), Var("w", "BOOL", 0)>>,
          hmi |-> <<>>, views |-> Views({<<"proc", "v">>}, {<<"proc", "v">>})]

HmiTag(n) ==
    {HmiVar(n, type, access) : type \in {"BOOL", "U32"}, access \in BOOLEAN}
    \cup {HmiAlias(n, target, access) : access \in BOOLEAN,
             target \in {<<"proc", "v">>, <<"d1", "in">>}
                        \cup {<<"hmi", m>> : m \in {"a", "b", "c"}}}
HmiConfigs == {[Base1 EXCEPT !.hmi = <<x, y, z>>,
                              !.views.io = {<<"d1", "in">>, <<"d1", "out">>},
                              !.views.hmi = {<<"hmi", "a">>}] :
                  x \in HmiTag("a"), y \in HmiTag("b"), z \in HmiTag("c")}
OddConfigs ==
    {[Base1 EXCEPT !.hmi = h] :
        h \in {<<HmiVar("a", "BOOL", TRUE), HmiVar("a", "BOOL", TRUE)>>,
               <<[HmiVar("a", "BOOL", TRUE) EXCEPT !.kind = "none"]>>,
               [k \in 1 .. 5 |-> HmiAlias(<<"a", "b", "c", "e", "f">>[k],
                                          <<"proc", "v">>, TRUE)]}}
    \cup {[Base1 EXCEPT !.vars = <<Var("v", "U8", 0), Var("v", "BOOL", 0)>>],
          [Base1 EXCEPT !.vars = <<Var("v", "U8", 0), Var("w", "U8", 0),
                                   Var("x", "U8", 0)>>],
          [Base1 EXCEPT !.views.io = {<<"proc", "x">>}],
          [Base1 EXCEPT !.views.hmi = {}],
          [Base1 EXCEPT !.devices = <<Device("d1", "ec0", "unknown", 1)>>],
          [Base1 EXCEPT !.devices = <<Device("proc", "ec0", "sensor", 1)>>,
                        !.vars = <<Var("value", "U8", 0)>>, 
                        !.views = Views({<<"proc", "value">>}, {<<"proc", "value">>})]}
DeviceConfigs ==
    {[Base1 EXCEPT !.backends = bs,
                   !.devices = [d \in 1 .. 3 |->
                        Device(<<"d1", "d2", "d3">>[d], on[d], models[d], at[d])]] :
        bs \in {<<Ec("ec0")>>, <<Ec("ec0"), Ec("ec1")>>, <<Ec("ec0"), Ec("ec0")>>,
                <<Ec("ec1"), Ec("ec0")>>,
                <<Ec("ec0"), [name |-> "ec1", type |-> "modbus"]>>,
                <<Ec("ec0"), Ec("ec1"), Ec("ec2")>>},
        on \in [1 .. 3 -> {"ec0", "ec1"}],
        models \in [1 .. 3 -> {"daio", "sensor"}]
                   \cup {<<"daio", "sensor", "faulty">>},
        at \in {<<1, 2, 3>>, <<1, 2, 1>>, <<1, 2, 4>>}}
AllConfigs == HmiConfigs \cup OddConfigs \cup DeviceConfigs
=============================================================================
