------------------------------ MODULE MCStore ------------------------------
(* Instances of Store for TLC: states of an engine, small but with every kind *)
(* of record, each field of a record with a value of its own.                 *)
EXTENDS Store

CONSTANT Plain    \* numbers of publishers that have just registered without a scope

\* Each field of a layout holds its place, counted from n.
Fill(layout, n) ==
  [name \in {f[2] : f \in Range(layout)} |-> n + (CHOOSE i \in DOMAIN layout : layout[i][2] = name)]

AMember(n) ==
  [has_multipath |-> n % 2, admin_enabled |-> 1, declared_weight |-> n % 2] @@ Fill(MemberFields, 10 * n)

ASet(n, members, mapped, history) ==
  [lifecycle |-> n, minimum_positive |-> 1, maximum |-> 9, space |-> 2, authoritative |-> mapped,
   members |-> [i \in 1..members |-> AMember(i)],
   owners |-> IF mapped = 0 THEN <<>> ELSE <<[id |-> 11], [id |-> 0]>>,
   history |-> [i \in 1..history |-> Fill(HistoryFields, 30 * i)]]
    @@ Fill(SetFields, n) @@ Fill(StandingFields, 20 + n)

APublisher(n, text) ==
  [kind |-> text % 5, fenced |-> text % 2, reason |-> text % 5, scope |-> text, detail |-> 2 * text]
    @@ Fill(PublisherFields, 10 * n)

AState(sets, paths, mps, publishers, attempts) ==
  [sets |-> sets,
   paths |-> [i \in 1..paths |-> [legality |-> i % 3] @@ Fill(PathFields, 10 * i)],
   multipath |-> [i \in 1..mps |-> [members |-> [j \in 1..i |-> [id |-> j]]] @@ Fill(MultipathFields, 10 * i)],
   publishers |-> publishers,
   attempts |-> [i \in 1..attempts |-> Fill(AttemptFields, 10 * i)]] @@ Fill(Counters, 0)

\* A report that lists a member without an identity.
Unnamed(s) == [s EXCEPT !.multipath[1].members[1].id = 0]

\* Sets with and without a map, members over several sets up to their total, a record
\* and a total beyond their limits, publishers with short and with empty texts, an
\* unnamed member of a multipath set.
Engines ==
  {AState(sets, 0, 0, <<>>, 0) :
     sets \in {<<ASet(1, 1, 1, 1)>>, <<ASet(1, 2, 0, 0), ASet(2, 1, 1, 1)>>,
               <<ASet(1, 2, 1, 0), ASet(2, 2, 0, 0)>>, <<ASet(1, 3, 0, 0)>>, <<ASet(3, 1, 0, 3)>>}}
    \cup {AState(<<ASet(1, 1, 1, 0)>>, 2, 2, [i \in 1..2 |-> APublisher(i, 3 - i)], 2),
          AState(<<>>, 1, 0, <<APublisher(1, 1)>>, 0),
          AState(<<>>, 0, 1, <<APublisher(1, 200)>>, 1),
          Unnamed(AState(<<>>, 1, 2, <<>>, 1)),
          AState(<<>>, 0, 0, <<APublisher(1, 6), APublisher(2, 0)>>, 3)}
    \cup {AState(<<>>, 0, 0, [i \in 1..n |-> APublisher(i, 0)], attempts) : n \in Plain, attempts \in 0..1}
=============================================================================
