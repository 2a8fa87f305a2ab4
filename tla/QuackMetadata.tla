--------------------------- MODULE QuackMetadata ---------------------------
(***************************************************************************)
(* driver/quack/metadata*.go: GetObjects walks the catalogs, the schemas,  *)
(* the tables, their keys and their columns with a query for each, while   *)
(* other clients create and drop what it walks over: no transaction holds  *)
(* the queries together.  GetTableSchema is a single query.                *)
(*                                                                         *)
(* Names are numbers, for the server sorts by them.  A query is one step,  *)
(* prepared and drained (QuackCursor has what happens inside).             *)
(***************************************************************************)
EXTENDS Integers, Sequences, FiniteSets, Functions

CONSTANTS
  Places,       \* <<catalog, schema>> pairs there may be
  Names,        \* names of tables and views
  Definitions,  \* what a table may be: [type, columns, primary, foreign]
  Worlds,       \* what the server may have at first
  Calls,        \* what the application may call
  Faults,       \* a subset of {"fail"}: queries may fail
  MaxChanges    \* bound: changes by others while calls run

\* Where a catalog, a schema or a table is: its name behind those above it.
Path(n) == [1..n -> Int]
Levels == [catalogs |-> 1, schemas |-> 2, tables |-> 3, all |-> 3]

IsWorld(w) ==
  /\ w.places \subseteq Path(2) /\ IsFiniteSet(w.places)
  /\ DOMAIN w.tables \subseteq Path(3) /\ IsFiniteSet(DOMAIN w.tables)
  /\ \A t \in DOMAIN w.tables : <<t[1], t[2]>> \in w.places /\ w.tables[t] \in Definitions

\* What DuckDB lets be created: a table has columns, its keys are made of them,
\* and no two of its constraints have one name.
IsDefinition(d) ==
  /\ d.columns \in Seq(Int) /\ d.columns # <<>>
  /\ d.primary \in Seq(Range(d.columns))
  /\ \A f \in d.foreign : f.columns \in Seq(Range(d.columns)) /\ f.columns # <<>>
  /\ \A f, g \in d.foreign : f.name = g.name => f = g

ASSUME ServerAssumption ==
  /\ Places \subseteq Path(2) /\ Names \subseteq Int
  /\ \A w \in Worlds : IsWorld(w)
  /\ \A d \in Definitions : IsDefinition(d)
  /\ MaxChanges \in Nat

NoFilter == {0}
IsOpen(filter) == filter \in {NoFilter, {}}  \* nil or "", to GetTableSchema

ASSUME CallsAssumption ==
  /\ Calls # {}
  /\ \A c \in Calls :
       /\ c.op \in {"GetObjects", "GetTableSchema"}
       /\ c.op = "GetObjects" => c.depth \in DOMAIN Levels
       /\ c.op = "GetTableSchema" =>
            \A filter \in {c.catalog, c.schema} :
              IsOpen(filter) \/ (IsFiniteSet(filter) /\ Cardinality(filter) = 1)

VARIABLES
  world,        \* the server's [places, tables], a table at <<catalog, schema, name>>
  call,         \* the call that runs, or the last one
  pc,           \* "idle" or "walking"
  todo,         \* the queries to come
  keys,         \* constraintsByTable, of the schema being listed
  found,        \* what was listed: catalogs, schemas and tables in order
  outcome,      \* of the last call: "none", "ok", "error" or "not found"
  \* what the properties are about:
  past,         \* every world there was during the call
  failed,       \* the queries that failed
  changes       \* how often others have changed the world

vars == <<world, call, pc, todo, keys, found, outcome, past, failed, changes>>

\* appendEqualsQual and appendLikeQual: the names a filter lets through; no
\* name is NULL, so the empty one, IS NULL, lets none through.
Passes(filter, name) == filter = NoFilter \/ name \in filter
TypePasses(types, t) == types = {} \/ t \in types

\* ORDER BY, of names that are all different.
Sorted(S) ==
  CHOOSE rows \in [1..Cardinality(S) -> S] : \A i, j \in DOMAIN rows : i < j => rows[i] < rows[j]
----------------------------------------------------------------------------
(***************************************************************************)
(* What the queries return.                                                *)
(***************************************************************************)
ListCatalogs(filter) == Sorted({p[1] : p \in {q \in world.places : Passes(filter, q[1])}})

ListDBSchemas(catalog, filter) ==
  Sorted({p[2] : p \in {q \in world.places : q[1] = catalog /\ Passes(filter, q[2])}})

TablesOf(path) == {t \in DOMAIN world.tables : t[1] = path[1] /\ t[2] = path[2]}

\* Mistake: the types asked for are not looked at.
SlipAllTypes(path, filter, types) ==
  Sorted({t[3] : t \in {u \in TablesOf(path) : Passes(filter, u[3])}})

QueryTableNames(path, filter, types) ==
  Sorted({t[3] : t \in {u \in TablesOf(path) : /\ Passes(filter, u[3])
                                               /\ TypePasses(types, world.tables[u].type)}})

IndexOf(d, column) == CHOOSE i \in DOMAIN d.columns : d.columns[i] = column

\* The elements of S in any order.
Orders(S) == {order \in [1..Cardinality(S) -> S] : Range(order) = S}

\* ORDER BY column_index: the column's place in the table.
ByIndex(rows) ==
  CHOOSE order \in Orders(rows) :
    \A i, j \in DOMAIN order : i < j => order[i].index <= order[j].index

\* Grouped by the constraint's name.
Grouped(type, rows) ==
  LET group(n) == ByIndex({r \in rows : r.name = n})
  IN  {[type |-> type, name |-> n,
        columns |-> [i \in DOMAIN group(n) |-> group(n)[i].column],
        usage |-> [i \in DOMAIN group(n) |-> group(n)[i].refers]] : n \in {r.name : r \in rows}}

PrimaryKeys(d) ==
  Grouped("PRIMARY KEY",
          {[name |-> 0, index |-> IndexOf(d, d.primary[i]), column |-> d.primary[i],
            refers |-> <<>>] : i \in DOMAIN d.primary})

ForeignKeys(d) ==
  Grouped("FOREIGN KEY",
          UNION {{[name |-> f.name, index |-> IndexOf(d, f.columns[i]), column |-> f.columns[i],
                   refers |-> <<f.table, f.referenced[i]>>] : i \in DOMAIN f.columns} :
                 f \in d.foreign})

ListColumns(d, filter) == SelectSeq(d.columns, LAMBDA c : Passes(filter, c))
----------------------------------------------------------------------------
Init ==
  /\ world \in Worlds
  /\ call = CHOOSE c \in Calls : TRUE
  /\ pc = "idle"
  /\ todo = <<>>
  /\ keys = <<>>
  /\ found = <<>>
  /\ outcome = "none"
  /\ past = {world}
  /\ failed = {}
  /\ changes = 0

Ask(kind, path) == [kind |-> kind, path |-> path, type |-> ""]

GetObjects(c) ==
  /\ pc = "idle" /\ c.op = "GetObjects"
  /\ call' = c
  /\ pc' = "walking"
  /\ todo' = <<Ask("catalogs", <<>>)>>
  /\ keys' = <<>>
  /\ found' = <<>>
  /\ outcome' = "none"
  /\ past' = {world}
  /\ failed' = {}
  /\ UNCHANGED <<world, changes>>

IsNext(kind) == pc = "walking" /\ todo # <<>> /\ Head(todo).kind = kind

\* The query is done; those its rows call for come before the rest.
Go(queries, entries) ==
  /\ todo' = queries \o Tail(todo)
  /\ found' = found \o entries
  /\ UNCHANGED <<world, call, pc, outcome, past, failed, changes>>

Entry(path) == [path |-> path, type |-> "", columns |-> <<>>, keys |-> {}]
Under(path, rows) == [i \in DOMAIN rows |-> Append(path, rows[i])]
Each(kind, paths) == [i \in DOMAIN paths |-> Ask(kind, paths[i])]

Catalogs ==
  /\ IsNext("catalogs")
  /\ LET paths == Under(<<>>, ListCatalogs(call.catalog))
     IN  Go(Each("catalog", paths), <<>>)
  /\ UNCHANGED keys

\* Not a query: the entry of a catalog, and what to ask for next.
Catalog ==
  /\ IsNext("catalog")
  /\ LET path == Head(todo).path
     IN  Go(IF call.depth = "catalogs" THEN <<>> ELSE <<Ask("schemas", path)>>, <<Entry(path)>>)
  /\ UNCHANGED keys

Schemas ==
  /\ IsNext("schemas")
  /\ LET paths == Under(Head(todo).path, ListDBSchemas(Head(todo).path[1], call.schema))
     IN  Go(Each("schema", paths), <<>>)
  /\ UNCHANGED keys

\* Mistake: the tables are asked for only where their columns are.
SlipSchema ==
  /\ IsNext("schema")
  /\ LET path == Head(todo).path
     IN  Go(IF call.depth = "all" THEN <<Ask("tables", path)>> ELSE <<>>, <<Entry(path)>>)
  /\ UNCHANGED keys

Schema ==
  /\ IsNext("schema")
  /\ LET path == Head(todo).path
     IN  Go(IF call.depth = "schemas" THEN <<>> ELSE <<Ask("tables", path)>>, <<Entry(path)>>)
  /\ UNCHANGED keys

IncludeColumns == call.depth = "all"

\* The type of a table is that of this query, its columns those of a later one.
Tables ==
  /\ IsNext("tables")
  /\ LET path == Head(todo).path
         paths == Under(path, QueryTableNames(path, call.name, call.types))
         Found(p) == [Entry(p) EXCEPT !.type = world.tables[p].type]
         Columns(p) == [Ask("columns", p) EXCEPT !.type = world.tables[p].type]
     IN  IF IncludeColumns
           THEN Go(<<Ask("primary keys", path), Ask("foreign keys", path)>> \o
                     [i \in DOMAIN paths |-> Columns(paths[i])], <<>>)
           ELSE Go(<<>>, [i \in DOMAIN paths |-> Found(paths[i])])
  /\ UNCHANGED keys

LoadPrimaryKeys ==
  /\ IsNext("primary keys")
  /\ keys' = [t \in TablesOf(Head(todo).path) |-> PrimaryKeys(world.tables[t])]
  /\ Go(<<>>, <<>>)

KeysOf(t) == IF t \in DOMAIN keys THEN keys[t] ELSE {}

\* Mistake: a table's foreign keys take the place of its primary key.
SlipLoadForeignKeys ==
  /\ IsNext("foreign keys")
  /\ keys' = [t \in DOMAIN keys \union TablesOf(Head(todo).path) |->
                IF t \in DOMAIN world.tables /\ ForeignKeys(world.tables[t]) # {}
                  THEN ForeignKeys(world.tables[t]) ELSE KeysOf(t)]
  /\ Go(<<>>, <<>>)

LoadForeignKeys ==
  /\ IsNext("foreign keys")
  /\ keys' = [t \in DOMAIN keys \union TablesOf(Head(todo).path) |->
                KeysOf(t) \union IF t \in DOMAIN world.tables
                                   THEN ForeignKeys(world.tables[t]) ELSE {}]
  /\ Go(<<>>, <<>>)

\* A table gone by now has no columns.
ListColumnsForTable ==
  /\ IsNext("columns")
  /\ LET t == Head(todo).path
         columns == IF t \in DOMAIN world.tables
                      THEN ListColumns(world.tables[t], call.column) ELSE <<>>
     IN  Go(<<>>, <<[path |-> t, type |-> Head(todo).type, columns |-> columns,
                     keys |-> KeysOf(t)]>>)
  /\ UNCHANGED keys

Return ==
  /\ pc = "walking" /\ todo = <<>>
  /\ pc' = "idle"
  /\ outcome' = "ok"
  /\ UNCHANGED <<world, call, todo, keys, found, past, failed, changes>>

\* Refused, lost, or the context is done: the call fails, except that foreign
\* keys that could not be read are left out.
QueryFails ==
  /\ "fail" \in Faults
  /\ pc = "walking" /\ todo # <<>> /\ Head(todo).kind \notin {"catalog", "schema"}
  /\ failed' = failed \union {Head(todo)}
  /\ IF Head(todo).kind = "foreign keys"
       THEN todo' = Tail(todo) /\ UNCHANGED <<pc, outcome, found>>
       ELSE todo' = <<>> /\ pc' = "idle" /\ outcome' = "error" /\ found' = <<>>
  /\ UNCHANGED <<world, call, keys, past, changes>>

\* The tables of a name: here an empty filter is no filter.
Named(c) ==
  {t \in DOMAIN world.tables :
     /\ t[3] = c.name
     /\ IsOpen(c.catalog) \/ t[1] \in c.catalog
     /\ IsOpen(c.schema) \/ t[2] \in c.schema}

Width(t) == Len(world.tables[t].columns)

\* The columns of this place in their tables, the tables in any order.
AtPlace(tables, i) ==
  {[k \in DOMAIN order |-> Entry(Append(order[k], world.tables[order[k]].columns[i]))] :
     order \in Orders({t \in tables : i <= Width(t)})}

Followed(lists, ends) == {list \o end : list \in lists, end \in ends}

\* Sorted by the columns' places.
Rows(tables) ==
  LET widest == CHOOSE n \in {Width(t) : t \in tables} : \A t \in tables : Width(t) <= n
      upto[i \in 0..widest] ==
        IF i = 0 THEN {<<>>} ELSE Followed(upto[i - 1], AtPlace(tables, i))
  IN  upto[widest]

GetTableSchema(c) ==
  /\ pc = "idle" /\ c.op = "GetTableSchema"
  /\ call' = c
  /\ \/ Named(c) # {} /\ outcome' = "ok" /\ found' \in Rows(Named(c))
     \/ Named(c) = {} /\ outcome' = "not found" /\ found' = <<>>
     \/ "fail" \in Faults /\ outcome' = "error" /\ found' = <<>>
  /\ past' = {world}
  /\ failed' = {}
  /\ UNCHANGED <<world, pc, todo, keys, changes>>
----------------------------------------------------------------------------
(***************************************************************************)
(* Other clients.                                                          *)
(***************************************************************************)
Changes(w) ==
  /\ world' = w /\ w # world
  /\ past' = past \union {w}
  /\ changes' = changes + 1
  /\ UNCHANGED <<call, pc, todo, keys, found, outcome, failed>>

World(places, tables) == [places |-> places, tables |-> tables]
Dropped(tables) == World(world.places, [t \in DOMAIN world.tables \ tables |-> world.tables[t]])

Others ==
  /\ pc = "walking" /\ changes < MaxChanges
  /\ \E p \in Places :
       \/ Changes(World(world.places \union {p}, world.tables))
       \/ Changes([Dropped(TablesOf(p)) EXCEPT !.places = @ \ {p}])
       \/ /\ p \in world.places
          /\ \E n \in Names :
               LET t == Append(p, n)
               IN  \/ \E d \in Definitions :
                        Changes(World(world.places, [u \in DOMAIN world.tables \union {t} |->
                                                       IF u = t THEN d ELSE world.tables[u]]))
                   \/ Changes(Dropped({t}))

Next ==
  \/ \E c \in Calls : GetObjects(c) \/ GetTableSchema(c)
  \/ Catalogs \/ Catalog \/ Schemas \/ Schema
  \/ Tables \/ LoadPrimaryKeys \/ LoadForeignKeys \/ ListColumnsForTable
  \/ Return
  \/ QueryFails
  \/ Others

Spec == Init /\ [][Next]_vars
----------------------------------------------------------------------------
(***************************************************************************)
(* Properties.                                                             *)
(***************************************************************************)
Exists(w, path) ==
  CASE Len(path) = 1 -> \E p \in w.places : p[1] = path[1]
    [] Len(path) = 2 -> path \in w.places
    [] Len(path) = 3 -> path \in DOMAIN w.tables

\* What is asked for, as far as names go.
Wanted(path) ==
  /\ Len(path) <= Levels[call.depth]
  /\ \A i \in DOMAIN path : Passes(<<call.catalog, call.schema, call.name>>[i], path[i])

OfType(w, path, types) == Len(path) = 3 => TypePasses(types, w.tables[path].type)

IsWalk == call.op = "GetObjects"
Walked == IsWalk /\ pc = "idle" /\ outcome = "ok"

TypeOK ==
  /\ IsWorld(world)
  /\ call \in Calls
  /\ pc \in {"idle", "walking"}
  /\ pc = "idle" => todo = <<>>
  /\ outcome \in {"none", "ok", "error", "not found"}
  /\ outcome \in {"error", "not found"} => found = <<>>
  /\ world \in past
  /\ changes \in 0..MaxChanges

\* Whatever others do meanwhile, what GetObjects lists was there at some moment
\* of the call, under that catalog and schema and with that type, and was asked
\* for (metadata_objects.go:36-60).
Was(e) ==
  /\ Wanted(e.path)
  /\ \E w \in past : /\ Exists(w, e.path)
                     /\ OfType(w, e.path, call.types)
                     /\ Len(e.path) = 3 => e.type = w.tables[e.path].type

OnlyWhatWas == IsWalk => \A i \in DOMAIN found : Was(found[i])

Paths(w) == {<<p[1]>> : p \in w.places} \union w.places \union DOMAIN w.tables

\* What was there all the time, and is asked for, is listed when the call
\* succeeds: a query that fails, or that runs after a change, costs nothing
\* but the call.
Due(path) ==
  Wanted(path) /\ \A w \in past : Exists(w, path) /\ OfType(w, path, call.types)
Listed(path) == \E i \in DOMAIN found : found[i].path = path

NothingMissed == Walked => \A path \in Paths(world) : Due(path) => Listed(path)

\* Catalogs, schemas and tables are listed in the order of the tree, each
\* under its parent and none twice, although the queries see different worlds.
Agree(a, b, n) == \A k \in 1..n : a[k] = b[k]
Before(a, b) ==
  \/ Len(a) < Len(b) /\ Agree(a, b, Len(a))
  \/ \E k \in DOMAIN a \intersect DOMAIN b : a[k] < b[k] /\ Agree(a, b, k - 1)

TreeOrder ==
  IsWalk => \A i, j \in DOMAIN found : i < j => Before(found[i].path, found[j].path)

Pairs(columns, refers) == {<<columns[i], refers[i]>> : i \in DOMAIN columns}

\* A table nobody changed during the call is listed as it is: its columns in
\* order, its primary key, and each foreign key with the columns it refers to,
\* column by column.  Only when the query for the foreign keys of its schema
\* failed are they missing, without an error (metadata_constraints.go:127-131).
AsTheyAre ==
  Walked /\ call.depth = "all" =>
    \A e \in Range(found) :
      Len(e.path) = 3 /\ (\A w \in past : Exists(w, e.path))
                      /\ (\A w \in past : w.tables[e.path] = world.tables[e.path]) =>
        LET d == world.tables[e.path]
            Of(type) == {k \in e.keys : k.type = type}
            foreign == {Pairs(f.columns, [i \in DOMAIN f.columns |-> <<f.table, f.referenced[i]>>]) :
                          f \in d.foreign}
        IN  /\ e.columns = SelectSeq(d.columns, LAMBDA c : Passes(call.column, c))
            /\ {Range(k.columns) : k \in Of("PRIMARY KEY")} =
                 IF d.primary = <<>> THEN {} ELSE {Range(d.primary)}
            /\ \/ {Pairs(k.columns, k.usage) : k \in Of("FOREIGN KEY")} = foreign
               \/ /\ Of("FOREIGN KEY") = {}
                  /\ Ask("foreign keys", SubSeq(e.path, 1, 2)) \in failed

\* GetTableSchema gives the columns of one table, in order, unless the caller
\* has left the catalog or the schema open and several tables have the name:
\* then it gives those of all of them, mixed (metadata.go:45-52).
OneTable ==
  call.op = "GetTableSchema" /\ outcome = "ok" =>
    LET open == IsOpen(call.catalog) \/ IsOpen(call.schema)
        Columns(t) == [i \in DOMAIN world.tables[t].columns |-> Append(t, world.tables[t].columns[i])]
        namesakes == {t \in DOMAIN world.tables : t[3] = call.name}
    IN  \/ \E t \in namesakes : [i \in DOMAIN found |-> found[i].path] = Columns(t)
        \/ open /\ Cardinality(namesakes) > 1

\* GetObjects lists, in the order of the tree, what was there and was asked for.
WalkOK == TypeOK /\ OnlyWhatWas /\ TreeOrder

\* Tables come with their own columns and keys, in both calls.
TablesOK == AsTheyAre /\ OneTable
============================================================================
