--------------------------- MODULE MCPushTargets ---------------------------
EXTENDS PushTargets

Entry(host) == [object |-> TRUE, sound |-> TRUE, host |-> host, port |-> TRUE]
MCAnswers == {<<>>, <<"a1">>, <<"a2", "a3">>, <<"a2", "home">>}
MCPushConfs == {[max |-> m, allow_internal |-> i, allow_self |-> FALSE] : m \in {1, 2}, i \in BOOLEAN}
MCReplies ==
  {<<Entry("n1"), Entry("n2"), Entry("lan")>>, <<Entry("lan"), Entry("n1"), Entry("n1")>>,
   <<[Entry("n1") EXCEPT !.sound = FALSE], [Entry("lan") EXCEPT !.object = FALSE], Entry("n2")>>,
   <<[Entry("n1") EXCEPT !.port = FALSE], Entry("n2")>>}
=============================================================================
