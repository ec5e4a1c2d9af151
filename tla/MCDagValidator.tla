--------------------------- MODULE MCDagValidator ---------------------------
(* Every definition of at most MaxEdges edges over a few node lists, and   *)
(* single nodes of every type with configs at the edge of what they may be.*)
EXTENDS DagValidator

CONSTANT MaxEdges

ABC == {"a", "b", "c", "x"}

NodeLists == {<< >>, <<"a">>, <<"b", "a">>, <<"a", "b", "c">>, <<"a", "b", "a">>}

EdgeLists == UNION {[1 .. k -> {"a", "b", "c"} \X {"a", "b", "c"}] : k \in 0 .. MaxEdges}

Full == [fields |-> UNION {Required(t) : t \in Registered}, url |-> "http",
         expression |-> "comparison", duration |-> 1]

(* Full, but for one thing.                                                *)
Configs ==
  {[Full EXCEPT !.fields = @ \ {f}] : f \in Full.fields}
    \cup {[Full EXCEPT !.url = "other"]}
    \cup {[Full EXCEPT !.expression = e] : e \in {"unsupported", "unsafe", "not a string"}}
    \cup {[Full EXCEPT !.duration = d] : d \in {0, MaxDuration, MaxDuration + 1}}

Sound == [n \in ABC |-> Full]
Delays == [n \in ABC |-> "delay"]

Definitions ==
  [nodes : NodeLists, edges : EdgeLists, type : {Delays}, config : {Sound}]
    \cup [nodes : {<<"a", "b">>, <<"b", "a", "b">>},
          edges : {<< >>, << <<"x", "a">> >>, << <<"a", "b">>, <<"b", "x">> >>},
          type : {[Delays EXCEPT !["a"] = t] : t \in Registered \cup {"unknown"}},
          config : {[Sound EXCEPT !["a"] = c] : c \in Configs \cup {Full}}]

=============================================================================
