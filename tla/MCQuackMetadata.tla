-------------------------- MODULE MCQuackMetadata --------------------------
(***************************************************************************)
(* Two catalogs, one of them with two schemas; a table with a key of two   *)
(* columns, out of order, a table with two foreign keys, and a view.       *)
(***************************************************************************)
EXTENDS QuackMetadata, TLC

MCPlaces == {<<1, 1>>, <<1, 2>>, <<2, 1>>}

Keyed == [type |-> "TABLE", columns |-> <<1, 2>>, primary |-> <<2, 1>>, foreign |-> {}]
Referring == [type |-> "TABLE", columns |-> <<1, 2, 3>>, primary |-> <<3>>,
              foreign |-> {[name |-> 1, columns |-> <<2, 1>>, table |-> 1, referenced |-> <<1, 2>>],
                           [name |-> 2, columns |-> <<1>>, table |-> 2, referenced |-> <<3>>]}]
View == [type |-> "VIEW", columns |-> <<2>>, primary |-> <<>>, foreign |-> {}]
MCDefinitions == {Keyed, Referring, View}

NoTables == [t \in {} |-> View]
MCWorlds ==
  {World(MCPlaces, (<<1, 1, 1>> :> Keyed) @@ (<<1, 1, 2>> :> View) @@ (<<1, 2, 1>> :> Referring)
                     @@ (<<2, 1, 1>> :> View)),
   World({<<1, 1>>}, <<1, 1, 1>> :> Referring),
   World({<<1, 2>>, <<2, 1>>}, NoTables)}

Walk(depth) ==
  [op |-> "GetObjects", depth |-> depth, catalog |-> NoFilter, schema |-> NoFilter,
   name |-> NoFilter, column |-> NoFilter, types |-> {}]
MCCalls ==
  {Walk(d) : d \in {"catalogs", "schemas", "tables", "all"}} \union
  {[Walk("all") EXCEPT !.schema = {1}, !.types = {"TABLE"}],
   [Walk("all") EXCEPT !.catalog = {1}, !.name = {1}, !.column = {2}],
   [Walk("tables") EXCEPT !.catalog = {}]} \union
  {[op |-> "GetTableSchema", catalog |-> f[1], schema |-> f[2], name |-> 1] :
     f \in {<<NoFilter, NoFilter>>, <<{}, {2}>>, <<{1}, {2}>>}}
============================================================================
