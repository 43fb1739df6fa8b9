------------------------------ MODULE MCOutbox ------------------------------
EXTENDS Outbox
CONSTANTS smtp, graph, boxX, boxY, file1, file2

MCBoxOf == [s \in {"x", "X", "y", "bad"} |->
              CASE s \in {"x", "X"} -> boxX [] s = "y" -> boxY [] OTHER -> Malformed]
Typed(to, cc, bcc) == [f \in {"to", "cc", "bcc"} |->
                         CASE f = "to" -> to [] f = "cc" -> cc [] OTHER -> bcc]
MCForms == {[to |-> t, text |-> TRUE, agreed |-> g] :
              t \in {Typed({"x", "X"}, {"y"}, {}), Typed({"x"}, {"x"}, {"y"}), Typed({"bad"}, {"x"}, {})},
              g \in BOOLEAN}
MCSelections == {<<smtp>>, <<graph, smtp>>, <<smtp, graph>>}
=============================================================================
