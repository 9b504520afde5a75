-------------------------- MODULE MCStreamMessage --------------------------
(* Instances of StreamMessage for TLC. *)
EXTENDS StreamMessage

OfKinds(kinds) == {item \in Item : item.kind \in kinds}

SmallItems ==
    {item \in Item : item.of \in Seq(0..1) /\ (item.kind # "value" => Len(item.of) <= 1)}

OneWayUsage(types, items, max) ==
    [types |-> types, items |-> items, max |-> max, resets |-> FALSE, relays |-> FALSE]

\* Messages of strings that go one way, and all kinds of small items, of bytes
\* 0 and 1, with all calls.
StringsOrAny ==
    {OneWayUsage({0, 1, 5}, OfKinds({"string"}), 3),
     [types |-> {1}, items |-> SmallItems, max |-> 2,
      resets |-> TRUE, relays |-> TRUE]}

\* Messages of values that go one way.
ValuesOnly == {OneWayUsage({1}, OfKinds({"value"}), 2)}
=============================================================================
