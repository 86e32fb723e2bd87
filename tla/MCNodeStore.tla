------------------------------ MODULE MCNodeStore ------------------------------
EXTENDS NodeStore, TLC

MCIds     == 1..4
MCServers == 1..4     \* 1 and 2 are the panel's, 4 speaks WireGuard
MCServed  == 1..2
MCGone    == {4}
One       == {1}

Row(server, chain) == [server |-> server, sub |-> server \in MCServed, on |-> TRUE,
                       chain |-> chain, ver |-> 1]
Off(row) == [row EXCEPT !.on = FALSE]
Rows(s) == s \o SubSeq(<<None, None, None, None>>, Len(s) + 1, 4)
MCMembers == {<<1, 2>>, <<3>>}
MCBundles == {[n \in MCIds |-> IF n > 2 THEN None ELSE
                 [server |-> s[n], sub |-> FALSE, on |-> TRUE, chain |-> m[n], ver |-> 1]] :
                s \in [1..2 -> MCServers], m \in [1..2 -> {0, 2}]}
NoMore == [k \in Kinds |-> 0]
Allow(ks) == [k \in Kinds |-> IF k \in ks THEN 1 ELSE 0]
Global(when, act) == [set |-> 0, when |-> when, act |-> act]

Empty == [node |-> Rows(<<>>), rule |-> <<>>, group |-> <<None>>, circle |-> <<None>>, active |-> 0, mode |-> "rules", peopled |-> {},
          dns |-> <<>>]
Loop(ids, linked) == <<[on |-> TRUE, linked |-> linked, ids |-> ids, at |-> Len(ids) - 1]>>

RuleKinds == [set : {0, 1}, when : Whens, act : {<<"proxy">>, <<"block">>, <<"node", 2>>}]

\* Tables that only say something about a packet: up to two rules of any kind, in a set with
\* a device or without; one in the modes that have no use for rules.
RuleTables ==
  {[db |-> [Empty EXCEPT !.node = Rows(<<Row(3, 0), Row(3, 0)>>), !.rule = r, !.active = a,
                         !.mode = m, !.peopled = p, !.circle = c], quota |-> NoMore] :
     r \in UNION {[1..k -> RuleKinds] : k \in 0..2}, m \in {"rules"}, p \in {{}, {1}},
     a \in {0, 1}, c \in {<<None>>, Loop(<<2, 1>>, FALSE)}}
  \cup {[db |-> [Empty EXCEPT !.node = Rows(<<Row(3, 0), Row(3, 0)>>), !.rule = <<r>>,
                              !.active = a, !.mode = m, !.circle = c], quota |-> NoMore] :
          r \in RuleKinds, m \in {"global", "bypass"}, a \in {0, 1},
          c \in {<<None>>, Loop(<<2, 1>>, FALSE)}}

\* Every way of chaining three nodes, one of them WireGuard or disabled, with a rule and a
\* group that bring nodes in.
ChainTables ==
  {[db |-> [Empty EXCEPT !.node = Rows(<<Row(3, ch[1]), q, Row(3, ch[3])>>), !.active = a,
                         !.rule = <<Global("any", <<"node", b>>)>>,
                         !.group = <<[on |-> TRUE, ids |-> {3}]>>],
    quota |-> NoMore] :
     ch \in [1..3 -> 0..3], a \in 0..3, b \in 1..3,
     q \in {Row(3, m) : m \in 0..3} \cup {Off(Row(3, 3)), Row(4, 3)}}

\* Rows that name each other, and the events that move them: the subscription has nodes 1
\* and 2, of one server or of two, node 3 is the operator's.
References(kinds) ==
  {[db |-> [Empty EXCEPT !.node = Rows(<<Row(1, c1), Row(s, 0), Row(3, c3)>>), !.active = a,
                         !.rule = r, !.group = <<[on |-> TRUE, ids |-> {3}]>>,
                         !.circle = c], quota |-> Allow(kinds)] :
     c1 \in {0, 3}, s \in {1, 2}, c3 \in {0, 2}, a \in 1..2,
     r \in {<<>>, <<Global("any", <<"node", 2>>)>>},
     c \in {<<None>>, Loop(<<3, 2>>, FALSE), Loop(<<1, 2>>, TRUE)}}

\* A duplicate is the relay of the operator's node: its id may be given again.
Reused ==
  {[db |-> [Empty EXCEPT !.node = Rows(<<Row(1, 0), Row(3, m), Row(1, 0)>>), !.active = a],
    quota |-> Allow({"refresh", "delete"})] : m \in {1, 3}, a \in 1..3}

\* One edit beside a deletion or a refresh.
Edited ==
  {[x EXCEPT !.quota = Allow({k, o})] :
     x \in {x \in References({}) : x.db.active = 1 /\ x.db.node[1].chain = 3
                                    /\ x.db.rule # <<>> /\ x.db.circle[1] = Loop(<<1, 2>>, TRUE)[1] /\ x.db.node[3].chain = 0},
     k \in {"create", "patch", "import", "rule", "group", "circle", "crash"},
     o \in {"delete", "refresh"}}

MCWorlds == Edited \cup Reused \cup RuleTables \cup ChainTables
            \cup References({"refresh", "delete"})
            \cup References({"refresh", "unsubscribe", "switch"})

MCDns == {[db |-> [Empty EXCEPT !.dns = r], quota |-> NoMore] :
            r \in UNION {[1..k -> [server : {"A", "B"}, when : {"x", "y"}]] : k \in 0..3}}
===============================================================================
