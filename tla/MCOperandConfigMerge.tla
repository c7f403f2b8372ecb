------------------------ MODULE MCOperandConfigMerge ------------------------
EXTENDS OperandConfigMerge

Plain == [size |-> "", controller |-> "", strategy |-> "", custom |-> None,
          autoScale |-> "", source |-> ""]
Sized(s) == [Plain EXCEPT !.size = s]
Sizes == {"", "starterset", "small", "medium", "large", "production"}

\* User values: other spellings, numbers, 0, no quantity at all, half a pair.
Overrides == {
    None,
    [cpuLimit |-> Str(1500, "m"), memoryLimit |-> Str(1, "GB")],
    [cpuRequest |-> Num(2), cpuLimit |-> Num(2), replicas |-> Num(5)],
    [cpuRequest |-> Num(0), cpuLimit |-> Num(0), replicas |-> Num(0)],
    [memoryRequest |-> Str(700, "MB"), memoryLimit |-> Str(1, "Gi")],
    [cpuLimit |-> Word("much"), memoryLimit |-> Str(100, "Mi")]}

CustomCRs == {[Sized(s) EXCEPT !.custom = o] : s \in {"", "small", "large"}, o \in Overrides}
ControlledCRs ==
    {[Sized(s) EXCEPT !.controller = c, !.strategy = g, !.custom = o] :
        s \in {"", "medium"}, c \in {"", "turbo"}, g \in {"", "default", "turbo"},
        o \in {None, [replicas |-> Num(5)]}}
FeatureCRs ==
    {[Sized(s) EXCEPT !.autoScale = a, !.source = r] :
        s \in {"", "small"}, a \in {"", "true", "false"}, r \in {"", "east", "west", "bad"}}

Pair(S) == S \X S
Profiled == {Sized(s) : s \in Sizes}

\* authService of every build under every kind of CR; every container of every
\* build under the profiles alone.
MCCases ==
    ((Pair(CustomCRs) \cup Pair(ControlledCRs) \cup Pair(FeatureCRs)
        \cup {<<a, b, c>> : a, b, c \in Profiled}) \X {<<a, 8>> : a \in Arches})
    \cup (Pair(Profiled) \X (Arches \X DOMAIN Components))

\* Between two reconciles the sizes go to another controller, by the CR or by the
\* service's strategy, come back, shrink, become a user's own (a pair, or a limit
\* alone), or are no longer asked for; a replica comes, goes or is incomplete.
LaterControlled ==
    {Plain, Sized("medium"), [Sized("medium") EXCEPT !.controller = "turbo"],
     [Plain EXCEPT !.strategy = "turbo"], [Plain EXCEPT !.strategy = "default"]}
LaterCustom ==
    {[Plain EXCEPT !.custom = o] :
        o \in {[cpuLimit |-> Str(1500, "m"), memoryLimit |-> Str(1, "GB")],
               [memoryRequest |-> Str(700, "MB"), memoryLimit |-> Str(1, "Gi")]}}
LaterFeatures == {[Sized("small") EXCEPT !.source = r] : r \in {"east", "bad"}}

MCLaterCases ==
    (Pair(LaterControlled) \cup {<<Sized("starterset"), Sized("small"), Plain>>}
        \cup {<<a, Plain>> : a \in LaterCustom \cup LaterFeatures})
    \X {<<a, 8>> : a \in Arches}
=============================================================================
