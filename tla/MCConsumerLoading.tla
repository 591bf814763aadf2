------------------------- MODULE MCConsumerLoading -------------------------
(* The instance that TLC checks: two queues, lists of at most two entries, *)
(* settings and directories with each kind of value and file.              *)
EXTENDS ConsumerLoading

MCQueues == {"a", "b"}
MCEntries == [deny : BOOLEAN, name : MCQueues \cup {"*"}]
MCLists == UNION {[1..n -> MCEntries] : n \in 0..2}
Pair(queue, field, text) == [queue |-> queue, field |-> field, text |-> text]
MCSettings ==
    {<<>>, <<Pair("a", "enabled", "True"), Pair("b", "enabled", "False")>>,
     <<Pair("a", "enabled", ""), Pair("a", "prefetch", "3")>>,
     <<Pair("a", "enabled", "False"), Pair("a", "enabled", "no"), Pair("a", "prefetch", "no")>>,
     <<Pair("a", "prefetch", "")>>, <<Pair("a", "enabled", "missing")>>}
File(kind, queue, form, enabled, prefetch) ==
    [kind |-> kind, queue |-> queue, form |-> form, enabled |-> enabled, prefetch |-> prefetch]
MCDirectories ==
    {<<File("setup", "a", "options", "undefined", "1"), File("setup", "b", "string", "undefined", "undefined")>>,
     <<File("broken", "b", "string", "undefined", "undefined"), File("setup", "a", "options", "false", "undefined")>>,
     <<File("noFunction", "a", "options", "true", "1"), File("setup", "b", "options", "true", "3")>>,
     <<File("setup", "a", "options", "true", "1"), File("throws", "b", "string", "undefined", "undefined")>>}
=============================================================================
