---------------------------- MODULE MCMcpGateway ----------------------------
\* Instances of McpGateway for TLC.
EXTENDS McpGateway

Required(t) == [a \in Tools[t].required |-> "good"]

With(args, a, v) == [b \in DOMAIN args \cup {a} |-> IF b = a THEN v ELSE args[b]]

\* Of every tool: all that is required, and one argument more, less or other.
Variants(t) ==
    {Required(t), With(Required(t), "surplus", "good")}
    \cup {[b \in Tools[t].required \ {a} |-> "good"] : a \in Tools[t].required}
    \cup {With(Required(t), a, v) :
            a \in Tools[t].required \cup Tools[t].optional, v \in {"good", "null", "mistyped"}}
    \cup {With(Required(t), a, "bad") : a \in Tools[t].checked}
    \cup {With(Required(t), a, "empty") : a \in Tools[t].path}

MCRequests == UNION {{[tool |-> t, args |-> v] : v \in Variants(t)} : t \in DOMAIN Tools}
=============================================================================
