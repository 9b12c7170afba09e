# TLA+ models of the NFD tables

The repository holds two tables of the Named Data Networking forwarder: the
*Name Tree*, a hash table of name prefixes whose entries also form a tree, and
the *Pending Interest Table* (PIT), which hangs its entries on that tree. This
directory models them, checks the models with TLC and proves theorems about
them with TLAPS.

## 1. The system

| part | source | state | operations |
|---|---|---|---|
| hash table | `name-tree.cpp`, `name-tree.hpp` | `m_nItems`, `m_nBuckets`, `m_resizeThreshold`, `m_buckets`, and the doubly linked nodes of every bucket | `lookup` (with the private `insert`), `resize`, `eraseEntryIfEmpty` |
| queries | same | none | `findExactMatch`, `findLongestPrefixMatch` |
| `dump` | same | none | prints every entry with its parent and children, bucket by bucket |
| enumeration | same | `const_iterator`: type, current entry, root of the subtree, `m_visitChildren` | `fullEnumerate`, `partialEnumerate`, `findAllMatches`, `operator++` |
| entry and node | `name-tree-entry.*` | prefix, hash, parent, children, FIB entry, PIT list, Measurements entry, node | setters, `insertPitEntry`, `deletePitEntry`, ... |
| PIT | `pit.*` | a pointer to the Name Tree | `insert`, `findAllDataMatches`, `remove` |
| CityHash | `city.*` | none | vendored, called by nothing |

Everything runs in one thread. What makes the code hard is not concurrency but
long sequences of legal calls on linked structures: `lookup()` may resize the
table between two prefixes of the same name, `eraseEntryIfEmpty()` climbs to the
parents and unlinks each of them from another chain, and both must leave three
views of the same set of entries in agreement: the chains (`m_next`), the
backward links (`m_prev`) and the tree (`m_parent`, `m_children`).

**What makes each part correct.**

- *Hash table*: every stored entry is reached from the bucket of its hash and
  from nowhere else; no name is stored twice; parent and children agree; every
  prefix of a looked up name is stored; `size()` counts the entries; no deleted
  node is touched; an erasure takes exactly what nothing uses; the load stays
  below one half, or below what a client's `resize()` left; every call returns.
- *Queries*: exact match finds what is stored; the longest prefix match is the
  longest stored prefix that the selector accepts.
- *Enumeration*: every accepted entry that is stored throughout is visited once.
- *Lifetimes*: an erased entry lives as long as a client can reach it and no
  longer; the destructor deletes no node twice; running out of memory in the
  middle of a `lookup()` leaves a table that later calls can work with.
- *Integers*: the sizes and bucket numbers pass through `int` and `size_t`;
  neither may become 0 or negative on the way.
- *Entry*: the lists are sets, or bags, of what was put in; every call answers
  whether it found its argument.
- *PIT*: no two similar Interests in one entry; a Data packet finds every
  pending Interest whose name is a prefix of its own; removal removes one entry
  and leaves no empty path behind.

**How the repository is read.** The sources are in transition between two
interfaces. `name-tree.cpp` uses an entry class `name_tree::Entry` (shared
pointers, `m_entry`, `m_prev`, `isEmpty()`) that is not in the repository;
`name-tree-entry.*` holds an older class `nt::Entry` (raw pointers, `m_npe`,
`m_pre`). The tests and `pit.cpp` call the table by older names: `seek` is
today's `lookup`, `lookup` is today's `findExactMatch` (tests/name-tree.cpp:122-135),
`longestPrefixMatch` and `deleteEntryIfEmpty` are `findLongestPrefixMatch` and
`eraseEntryIfEmpty`. `isEmpty()` is modelled from its use and from
name-tree.hpp:105-106, and is marked external in the map. The Makefile does not
define `NDEBUG`: a failed `BOOST_ASSERT` aborts.

## 2. Modules

| module | about |
|---|---|
| `NameTree` | the hash table, pointer by pointer, one action per loop iteration |
| `NameTreeChains` | the hash chains of `NameTree` in every state of every call |
| `NameTreeSpec` | what the table promises: a prefix-closed dictionary |
| `NameTreeQueries` | `findExactMatch`, `findLongestPrefixMatch`, `dump` on the states of `NameTree` |
| `NameTreeIterator` | one `const_iterator` next to a table that changes under it |
| `NameTreeLifetime` | `NameTree` with the clients' handles, and the destructor |
| `NameTreeFailure` | `NameTree` with allocations that fail in `lookup()` |
| `NameTreeSize` | the integers of the table: growth, size 0, bucket numbers |
| `NameTreeEntry` | the classes of name-tree-entry.*: setters and lists |
| `EntrySpec` | what an entry promises: a set of children, a bag of PIT entries, the right answer to every call |
| `Pit` | the Pending Interest Table on the dictionary of names |
| `PitSpec` | what the Pit promises: a set of PIT entries |
| `PitOnTable` | the calls of the Pit and the FIB, step by step on `NameTree` |
| `MC...` | values of the constants for TLC |
| `NameTreeProofs` | theorems about the tree, the chains, the calls and the queries of `NameTree`, and `NameTree` implements `NameTreeSpec` |
| `NameTreeIteratorProofs` | `NameTreeIterator` arrives at everything it should, once, and its increments are defined |
| `NameTreeMemoryProofs` | theorems about `NameTreeLifetime` and `NameTreeFailure` |
| `NameTreeSizeProofs` | theorems about `NameTreeSize` |
| `NameTreeEntryProofs` | `NameTreeEntry` implements `EntrySpec` |
| `PitProofs` | theorems about `Pit`, and `Pit` implements `PitSpec` |
| `PitOnTableProofs` | `PitOnTable` implements `Pit`, and its walk along the parents finds the same |
| `DataLemmas` | numbers, functions on an interval, lists, loops that collect a list, and names, for the proofs |

`NameTreeQueries` extends `NameTree`; `NameTreeIterator`, `NameTreeLifetime`,
`NameTreeFailure` and `PitOnTable` extend both and run their own steps between
or next to those of the table. `Pit` stands on the dictionary instead of the
pointers, which `TableImplementsSpec` (section 4) justifies for the tree and
`PitRunsOnTable` for the calls of the Pit themselves.
`NameTreeSize` and `NameTreeEntry` stand alone: they look at what `NameTree`
abstracts from, the widths of integers and the inside of an entry.

### NameTree

*State.* The four fields of the class; a heap of addresses `Addr`, where one
address stands for a `Node` and the `Entry` it carries (they are created and
deleted together); per address `m_next`, `m_prev`, `m_prefix`, `m_parent`,
`m_children` and `content`, the set of FIB, PIT and Measurements entries it
carries; `live`, the allocated addresses; the program counter `pc` and the
locals of the running call. A freed address may be allocated again, also when
dangling pointers still name it.

*Steps.* A call starts only in `pc = "idle"`, so calls never interleave. It then
takes one step per iteration of its loops:

| code | actions |
|---|---|
| `lookup` 115-151, `insert` 63-113 | `Lookup`; `InsertWalk`, `InsertFound`, `InsertNew` for the search of the chain; `Grow` for `m_nItems > m_resizeThreshold`; `NextPrefix` |
| `resize` 355-406 | `Resize` (public call) or `Grow`; `ResizeWalk` for the inner loop over `pp`, `ResizeLink` for its end, `ResizeNextBucket`, `ResizeEnd` with the assertion `count == m_nItems` |
| `eraseEntryIfEmpty` 205-275 | `Erase`; `EraseNotEmpty`; `EraseEmpty` (`Unparent`, `Unlink`, `Discard`), once per entry of the recursion |
| entry setters | `AddContent`, `RemoveContent` |
| a deleted node is read or written | `InsertUndefined`, `ResizeUndefined`, `EraseUndefined`: the model stops in `pc = "undefined"` and claims nothing about what follows |
| a failed assertion | `pc = "abort"` |

*Abstractions.* A name is a sequence of components; `Hash` is an arbitrary
function from names to naturals, so that collisions are chosen by the instance.
The list of PIT entries of an entry is a set. Erased addresses get default
values in the fields that nothing reads any more. `count` in `resize()` stops at
`CountBound`, one more than the heap can hold: in a corrupted table with a
cyclic chain the real loop does not end. Handles passed to `eraseEntryIfEmpty()`
are those of stored entries, as name-tree.hpp:109-110 asks.

*The defect the model shows.* `resize()` sets `pre` once (line 367), not once
per node. The first node of a new chain therefore gets as `m_prev` the last node
of whatever chain was walked before (line 392). The erasure of such a node
writes into the other chain and leaves the bucket pointing to deleted memory.
The run `stale_prev` shows an entry lost that way. To keep the other properties
meaningful, the history variable `damaged` records whether a node was ever
unlinked through a wrong `m_prev`; it is read by no action. `TableConsistent`
then says precisely how far the defect reaches: without such an unlinking the
chains are right and only the *first* node of a chain can have a wrong `m_prev`.

*Fairness.* `FairSpec` has weak fairness of `Step`, that is, a thread inside a
call keeps running. Nothing is assumed of the clients' calls.

### NameTreeChains

`ChainsCorrect` says what the chains are like in *every* state, while
`TableConsistent` looks at them between calls. `Chained` is the shape of a set of
nodes in an array of doubly linked chains: heads and links stay in the chain that
a node belongs to, `m_prev` leads back except at the first node, and every node
is reached from the heads. In the middle of `resize()` the entries are split
(`Halfway`): those that were moved are `Chained` in the new array, all others in
what is left of the old one, and `count` is the number of the moved ones. In the
middle of a search `InsertPosition` says that an entry of the name can only be
ahead. Nothing in the model depends on this module; the runs check it and the
proofs use it.

### NameTreeSpec

The names that are stored and what the entry of each carries. A name is stored
below its parent, one round of the loop of `lookup()` at a time; a name is
removed when it carries nothing and nothing is stored below it, one round of the
recursion of `eraseEntryIfEmpty()` at a time. Hashes, chains, sizes and the
growth of the table do not show. `NameTree` maps `stored` to the prefixes of the
live entries and `contents` to what they carry.

### NameTreeQueries

Both queries are functions of the state. The walk of `findExactMatch` is a
recursive function over the number of steps, bounded by the size of the heap; it
stops at the entry, at the end of the chain or, in a corrupted table, at a
deleted node. An `EntrySelector` is the set of names that it accepts. `Dump` is
the sequence of lines that `dump()` writes, bucket by bucket and along each
chain, each with the entry and its children; the layout of a line and the
counters of the summary are left out.

### NameTreeIterator

*State.* The fields of the iterator, the position inside a running increment
(`itPc`, `newLocation`, `itNode`), and `ghosts`: the entry the iterator stands
on and its ancestors as far as they have been erased. The iterator holds a
`shared_ptr` to its entry and each entry one to its parent, so these stay in
memory with their prefix and parent, while their nodes are deleted. An address
in `ghosts` is not allocated again.

*Steps.* An increment is not interrupted by the client; it takes one step per
iteration of its loops. `TableStep` is any step of `NameTree`, and happens while
the iterator rests on an entry.

| code | actions |
|---|---|
| `fullEnumerate` 277-297, `operator++` 483-518 | `FullEnumerate`, `ChainStep`, `BucketStep`, `BucketNext`; `ChainUndefined`, `BucketUndefined` when a deleted node is read |
| `partialEnumerate` 299-330, `operator++` 520-618 | `PartialEnumerate`, `TreeDown`, `TreeSibling`, `TreeEnd`; `TreeUndefined` for `getChildren()[0]` of an empty vector, `TreeAborts` for the assertion `isFound` |
| `findAllMatches` 332-353, `operator++` 620-637 | `FindAllMatches`, `UpStep` |

*What an enumeration tolerates.* The repository does not say what may happen to
the table between two increments. The model does: `Disturbs` lists the changes
after which an iterator may skip or repeat an entry or read freed memory, and
the properties hold for all others.

- A *full* enumeration tolerates everything except a resize, also one inside
  a `lookup()`, and the erasure of the entry it stands on.
- A *partial* one tolerates everything except the erasure of an entry it has
  already passed, whose place in the list of children is taken by the last
  child, and the loss of all children of the entry it stands on when it was
  about to visit them. New entries and resizes do no harm.
- `findAllMatches()` tolerates everything, the erasure of its own entry and of
  ancestors included.

Each of the four conditions is needed: without it, TLC finds a violation.
"Visited" means arrived at; the history variables `passed`, `stayed` (stored
since the enumeration began), `twice` and `disturbed` are read by the properties
only.

*Fairness.* `FairItSpec` has weak fairness of the steps of an increment.

### Pit and PitSpec

One action per call of `Pit`: `InsertExisting` and `InsertNew` for the two
results of `insert()`, `Remove` and, for the assertion that the name is stored,
`RemoveAborts`; `FindAllDataMatches` is an operator, as the call changes
nothing. The tree is the set of stored names. `SetFibEntry` and `DeleteFibEntry`
stand for the FIB, which hangs its entries on the same tree and keeps paths
alive that the PIT would erase. `held` are the PIT entries that clients have a
`shared_ptr` to: only these can be removed, and they may have been removed
before. `Delete` is the swap with the last element of `deletePitEntry()`.

pit.cpp calls `m_nt->lookup()` in `remove()`. In the interface it was written
for, that is today's `findExactMatch()`, which creates nothing and returns null
when the name is not stored; the assertion that follows makes sense only then.

An Interest is a name, selectors and guiders; the predicate of pit.cpp:49-70
compares the first two. The publisher key, which the code leaves out with a
TODO, has no field in the model. `MatchesName` is any relation that only lets
an Interest accept Data below its own name, as `Interest::matchesName()` of the
library does.

`PitSpec` is a set of PIT entries, one of those that are similar; `insert()`
returns the similar one or adds one, `remove()` takes out the entry that it is
given.

### PitOnTable

`Pit` takes a call of the Name Tree as one step. Here a call of the Pit runs the
steps of `NameTree`, and `call` says where it is:

| code | actions |
|---|---|
| `insert` pit.cpp:73-99 | `BeginInsertInterest`; `SeekStep` while `lookup()` runs, the growth of the table included; `ReturnExisting` or `InsertPitEntry` |
| `remove` pit.cpp:126-145 | `Remove` (or `RemoveStops` for the assertion), `BeginErase`, `EraseStep` for the cascade |
| `findAllDataMatches` pit.cpp:101-124 | the operator `FindAllDataMatches`: the longest prefix match along the chains, then `m_parent` up to the root |
| the FIB | `BeginSetFib`, `SeekStep`, `SetFibEntry`; `DeleteFib`, `BeginErase`, `EraseStep` |

`ImplementsPit` is a refinement: `Dictionary` maps the table to the `stored` of
`Pit`. Between calls it is the stored names. During a call it is the paths to
what carries something, because a `lookup()` stores a path step by step before
its PIT entry exists and an erasure removes it step by step after the PIT entry
is gone: each call is seen once, when its PIT entry or FIB entry comes or goes.
The refinement is claimed until a node is unlinked through a stale `m_prev`.

### NameTreeLifetime

*State.* `handles`, the entries that clients have a `shared_ptr` to; `entries`,
all `Entry` objects that exist; `kept`, the `m_parent` of the erased ones;
`phase` of the table. `CountReferences` destroys, at the end of each call, the
entries that are no longer reached from a handle or from a node by `m_parent`
and `m_children`, except where they refer to each other: reference counts free
no cycle, which is what `DestroyedTableLeaks` is about.

*Steps.* `TableStep` (any step of `lookup()`, `eraseEntryIfEmpty()` and
`resize()`; an address is not allocated again while its `Entry` exists), `Hold` and `Drop` for
handles, `Use` for setters on entries that may be erased, `EraseAgain` for
`eraseEntryIfEmpty()` on an erased one, and the destructor (name-tree.cpp:54-61):
`Destroy`, `DestroyBucket`, `DestroyUndefined`, `DestroyEnd`.

The class of the nodes that the table uses is not in the repository. The
assertion that `m_next` is null before a node is deleted (line 262) suggests
that its destructor deletes `m_next`; the older class does not.
`NodeFreesNext` is chosen when the destructor starts, and the properties are
stated for both.

*What clients do with stale handles.* name-tree.hpp:105-110 allows erasing an
entry that `lookup()` returned when it is empty. A client that erases /a and
then the root, both from `lookup()`, keeps to that and reads a deleted node: the
cascade from /a has erased the root already. `StopsOnStaleHandle` says that this
is the only way to stop a table that is not damaged.

### NameTreeFailure

Four allocations of a `lookup()` can throw `bad_alloc`: the node
(`NewNodeFails`), the entry (`NewEntryFails`), the growth of the parent's vector
(`PushBackFails`) and the new bucket array (`NewBucketsFail`). Nothing is rolled
back: the prefixes before stay stored, and the node or entry at hand stays as far
as it was built. `bare` are the nodes that are linked and have no entry. The
search of `insert()` steps over them (`WalkOverBare`), erasing a neighbour
relinks them (`EraseNextToBare`), and the next `resize()`, of a client or of
`lookup()`, stops at its assertion `p->m_entry` (`ResizeAborts`). An entry that
its parent does not list (`Unlisted`) is found by later lookups and stops
`eraseEntryIfEmpty()` at `isFound == true` (`EraseAborts`). All other steps are
those of `NameTree` (`Alike`).

### NameTreeSize

The widths are parameters: `SizeRange` values of `size_t`, `IntMax` the largest
`int`. An entry is its hash, and entries of one hash count as one. `Insert` is a
round of `lookup()` with `Overloaded`, `Erase` and `Resize` the other calls, and
`Rehash` all of `resize()`: `new` may fail, a size of 0 divides by zero as soon
as there is an entry, and `NewThresholds` is the conversion to `int` of line 405,
where an `int` that cannot hold the value is undefined behaviour and stands for
any `int`. `FullEnumerate`, `NextBucket` and `EnumerationEnds` follow the loop of
`operator++` over the buckets with its `int newLocation`; incrementing the
largest `int` may go on or end the loop. The constructor computes the threshold
without the conversion, which `SizeInit` keeps.

### NameTreeEntry and EntrySpec

The older class `nt::Entry`. The constructor sets neither `m_measurements` nor
`m_node`, which start with any value. `deletePitEntry()` is `Fill` at the `First`
occurrence: the last element takes its place. Memory of a destroyed entry is
used again. `SetParent` is the setter; `Hook` and `Destroy` call it and put an
entry into a list of children, or take it out, the way the table does. Two levels
of entries are enough because a setter looks at one entry only.

`EntrySpec` says what *each* call may do: its steps name the call with its
arguments in `call` and what it returns in `answer`, and `NameTreeEntry` records
what it was really asked and said. So a `deletePitEntry(p1)` that takes out p2, or
that answers `false` although p1 was there, is no step of `EntrySpec`, even if
some other call might do the same to the list. `turn` flips with every call, so
that a call that wrongly changes nothing does not pass for a stutter.

## 3. Runs

| run | bounds | distinct states | shows |
|---|---|---|---|
| `growing_table` | 5 names, all hashes equal, 5 addresses, 1 bucket at first, public `resize(1)`, contents | 345,251 | one chain of up to five nodes, rehashed from 1 to 16 buckets and unlinked at every position; size, load, the chains in every state (`ChainsCorrect`), `LookupStoresPrefixes`, `EraseTakesUnused`; implements `NameTreeSpec` |
| `resized_table` | 4 names, 4 buckets, public `resize(3)` | 117,586 | rehashing up and down with collisions, then the corrupted tables: tree, chains between calls and in every state, uniqueness, undefined behaviour reachable only after `damaged` |
| `call_returns` | 4 names, 2 buckets, `FairSpec` | 80,346 | every call returns unless the table is damaged |
| `stale_prev` | 4 names, 4 buckets | | `Findable` is violated by the code |
| `enumerate_table` | 5 names of which 4 are stored at a time, contents, 4 buckets that become 8 | 1,696,783 | all three kinds of enumerations visit what they should, once, and touch no deleted node |
| `increment_returns` | 3 names, 3 addresses, all three kinds, `FairItSpec` | 167,621 | every increment returns |
| `pit_calls` | 4 names, 6 Interests, 3 PIT entries | 19,349 | `PendingOnce`, `PathsExact`, `DataMatchesComplete`; implements `PitSpec` |
| `pit_on_growing` | 4 names, 4 Interests, 2 PIT entries, 2 buckets at first | 570,750 | the Pit on the pointers implements `Pit`; `DataMatchesAgree`; the queries find what is stored; `dump()` shows one tree |
| `destroyed_table` | 3 names, 4 addresses, contents, 2 buckets at first, public `resize(6)` | 4,401,930 | who keeps erased entries, stale handles, what the destructor leaves, for both kinds of nodes |
| `failed_allocations` | 4 names, 5 addresses, contents, 2 buckets at first, `resize(4)`, all four failures | 238,690 | the chains stay right; only two of the failures make an assertion fail later |
| `size_limits` | 256 values of `size_t`, an `int` up to 7, memory for 40 buckets, 7 hashes | 170,447 | load, division by zero and bucket numbers below, at and beyond the limits; every enumeration ends |
| `entry_calls` | 2 entries, 2 FIB entries, 3 places for 2 PIT entries | 358,401 | every call does what it was asked, with the right answer: implements `EntrySpec` |

*Why the bounds are enough.* The table distinguishes the first, a middle and the
last node of a chain, an entry with zero, one and several children, a parent in
the same and in another chain, and a root: four names (the root, two children of
which one has a child) with chosen collisions give all of these, five names give
a swap of children that is not at the end. The hash of `resized_table`,
`stale_prev` and `pit_on_growing` keeps two names together in every table and
the others alone, which is the least that makes `pre` stale; `resize(3)` makes
chains meet and part. The `resize(1)` of `growing_table` leaves the table as full
as a client can make it, before or after the lookups that grow it. A partial enumeration needs three children, so that the
erasure of the first moves the last over the one in the middle, and
`findAllMatches()` a path of three; the five names of `enumerate_table` hold
either, with four addresses. Its `HashParting` puts all entries into one chain
and moves the first of them to the last bucket when the table doubles, so that
an enumeration across the growth both skips and repeats; with it the table is
never damaged, while the tables of `increment_returns` are. Three PIT entries
give a swap in a list whose removed entry is first, in the middle or last; that
needs no pointers, so `pit_on_growing` does with two. A client with handles
needs an erased entry, its erased parent, and a new entry with the name of
either: three names and a fourth address. `failed_allocations` has one address
more than names for a node without an entry; two growths and a resize by a
client put it into a table that is rehashed. In `size_limits` the sizes pass the largest `int` (7), its
double, where half the size no longer fits (16), and the number at which an
`int` wraps; what matters is on which side of these limits a size is, not how
large it is, and the theorems of section 4 hold for all ranges.

*Deadlock.* `growing_table` checks deadlock, which shows that
`BOOST_ASSERT(isFound == true)` never blocks a step, and so does `entry_calls`.
`CHECK_DEADLOCK FALSE` stands where the model may stop in `"undefined"` or
`"abort"` (`size_limits`: at a division by zero), where a client may remove a PIT
entry twice (`pit_calls`), and in the runs with an iterator or with handles,
where the erased entries that are kept in memory can exhaust the few addresses in
the middle of a `lookup()`.

*Symmetry.* Addresses, PIT entries, FIB entries and entry objects are symmetric
because the code never orders or hashes pointers; the runs with a liveness
property use no symmetry.

*Fairness.* A thread inside a call keeps running (`FairSpec`, `FairItSpec`). In
`FairSizeSpec` a client that enumerates goes on until it has reached `end()`.
Nothing is assumed about which calls are made.

*The finding.* `stale_prev` is a defect of the code (section 2). For the Pit it
means that an Interest for /a can be pending and not be found by its Data after
a FIB entry for /c came and went; this is why `ImplementsPit` and
`DataMatchesAgree` stop at `damaged`.

*Where the code leaves its promises.* The properties of the other modules carry
the conditions under which they hold, and dropping a condition gives a
counterexample: `GrowsWhileInt` and `EnumeratesWhileInt` beyond the range of an
`int` (a table stops growing, an enumeration ends early), `StopsOnStaleHandle`
without a stale handle, `FailuresAbortKnown` without `bare` nodes or unlisted
children. A new `nt::Entry` whose `m_measurements` happens not to be null is not
empty (`EntrySpec` leaves it open). pit.hpp:38-39 says that `insert()` returns the
existing entry for the same prefix; the code, and tests/pit.cpp, keep one PIT
entry per name *and* selectors, which is what `PendingOnce` states.
`getChildrenListSize()` returns the size of the PIT list; nothing calls it.

## 4. Proofs

**The table.** `NameTreeProofs` proves for every set of names, every hash
function, every finite heap and every table size (the assumptions named in
`NameTree`):

- `TypeCorrect`: `Spec => []TypeOK`. It needs `TypeInv`, which adds that a
  running `resize()` has a bucket and a running `eraseEntryIfEmpty()` an entry.
- `TreeIsConsistent` and `SizeIsCorrect`: parents and children agree and
  `size()` counts the entries, in every state of every call. Their inductive
  invariant `TreeInv` adds `CallPosition`: `insert()` runs below the entry of
  the previous prefix, and the entry that `eraseEntryIfEmpty()` is at exists. An
  entry without children is nobody's parent, hence erasing it keeps the tree
  closed; the parent it continues with is another entry because it has a child.
- `TableImplementsSpec`: `Spec => ImplementsNameTreeSpec`.
  `InsertNew` is `Store` or, in a corrupted table where the name was stored and
  not found, a stutter; `EraseEmpty` is `Remove` or, for one of two entries of
  the same name, a stutter; the setters are `SetContents`; all other steps,
  rehashing included, stutter.

These theorems hold for the *whole* specification, damaged tables included: the
chains do not occur in `TreeInv`, so whatever a stale `m_prev` does to them
cannot reach the tree. (It can make `insert()` miss an entry and store a name
twice; `TreeConsistent` allows that, `NamesUnique` does not.)

**The chains.** `NameTreeProofs` goes on, for the same constants, with what holds
as long as no node was unlinked through a wrong `m_prev` (`LoadIsBounded` holds
for every table). The inductive invariant
is `ChainInv`, that is `TreeInv` and `ChainsCorrect` (`ChainsAreCorrect`, which
the runs check as well). `TableConsistent` alone is not inductive: it says
nothing in the middle of a call. Every step that writes links does one of two
things, and a lemma about arbitrary links covers each: `Appended` puts a node
behind the last one of a chain or into an empty bucket (`InsertNew`, and
`ResizeLink` seen from the new array), `TakenOut` removes a node behind another
or at the head (`Unlink`, and `ResizeLink` seen from the old array). That a walk
from the heads reaches every node is stated by closed sets (`Reached`), so that
no step needs an induction over the length of a chain. From the invariant:

- `TableIsConsistent`, `NamesAreUnique`, `CallsAreDefined`: between calls every
  chain holds what belongs there, no name is stored twice, no call touches a
  deleted node or fails `count == m_nItems`.
- `LookupIsCorrect`: when `lookup()` returns, its name and all prefixes are
  stored and found (`PrefixesStored` says which prefixes are already there
  between two rounds).
- `EraseIsComplete`: `eraseEntryIfEmpty()` removes exactly what nothing uses any
  more (`EraseTakesUnused`). `Doomed` are the entries all of whose names at or below
  carry nothing and are prefixes of the entry that the cascade is at; `Spared` are
  all others. An entry without children is doomed because nothing is stored below
  its name (`AncestorHasChildren`, which needs sound chains: no name twice), one in
  use dooms nothing, and what is doomed of the parent is what was doomed of the
  child, less the child (`DoomedNext`). So `Spared` stays the same in every step,
  and is what is left when the call returns.
- `LoadIsBounded`: the table is at most half full, or no fuller than a client's
  last `resize()` left it, whatever the sizes that clients ask for. In the middle
  of a `lookup()` one entry more may be stored (`SizeAhead`), and the growth that
  follows makes room for it.
- `QueriesAreExact`: `findExactMatch()` finds what is stored and
  `findLongestPrefixMatch()` the longest accepted match. The walk is an iterated
  function; after k steps it stands on the entry, or the part of the chain that
  may still hold it has at most as many nodes as there are steps left
  (`SearchInv`), so the walk cannot run out of steps before the chain ends.
- `DumpIsATree`: `dump()` writes a line for every entry, once, and the lines form
  a tree. What a walk over a chain has passed and what is ahead of it make up the
  chain without overlap (`ListInv`); the buckets share nothing, as an entry has
  one hash. The rest is `TreeInv`: parents and children agree.

**The iterator.** `NameTreeIteratorProofs` proves, for every kind of enumeration
and all selectors, next to any calls of the clients:

- `IteratorTypes`, `OnlyWantedEnumerated`, `IncrementsAreDefined`, from `ItInv`:
  `ChainInv`; `ItShape`, where the increment of each kind can be; `ItPath`, the
  erased entries lead parent by parent to the first ancestor that is stored;
  `ItAsked`, a partial enumeration stands inside the subtree it was asked for
  and `findAllMatches()` above its name; `ItCalm`, an undisturbed full or
  partial enumeration stands on a stored entry that it has passed. That a
  partial enumeration is sent to nothing erased rests on `AncestorHasChildren`:
  what is between the root and where it stands has children, and is not erased.
- `EnumerationIsComplete` and `EnumeratedOnce`, from `SweepInv`, which says for
  each kind what has been passed. *Full* (`FullSweep`): nothing that is passed is
  ahead, and all that stayed and is not passed is ahead, where ahead are the rest
  of the chain and the buckets behind. An insertion adds at most the new entry to
  what follows a node, an erasure removes nothing else from it (`WalkAppend`,
  `WalkRemove`). *Partial* (`TreeSweep`): of the entries on the path from the
  root to the current one everything is passed up to the path and nothing behind
  it, and what is passed off the path has had all its children. At the end an
  entry that was missed, with the shortest name of all, would have a parent
  that was passed and all of whose children were (`SweepEnds`). An insertion adds
  a last child; an erasure moves the last child over one that was not passed.
  *All matches* (`UpSweep`): passed is what is between the longest match and
  here, and what is wanted and not passed is above.

**Lifetimes.** `NameTreeMemoryProofs` proves, for all ways in which clients
keep and drop handles:

- `OnlyStaleHandlesStop`, from `TableInv`: the table is as in `NameTree`, or it
  has stopped on a stale handle. A stale handle is the only way the steps of
  `NameTreeLifetime` leave those of `NameTree`.
- `NothingLeaks`: while the table is in use, every erased entry that exists is
  in the hands of a client or an ancestor of one that is. `EntriesInv` says that
  erased entries have no children and that following `kept` never goes in a
  circle, so that reference counts miss none of them.
- `NoDoubleDelete` and `NodesAreDeleted`, from `DestroyInv`: the nodes that are
  left at bucket b are those of the buckets behind, and, without a destructor of
  the node that follows `m_next`, all but the first of those before.
- `DestructionLeaks`: a table with more than a root leaves all its entries behind
  and nothing else. They keep each other by `m_parent` and `m_children`.

**Failed allocations.** `NameTreeMemoryProofs` proves, for any set of allocations
that can fail, any number of failures and any calls between them:

- `FailuresAreHarmless`: between calls the entry of every stored name is on its
  chain, once, with the right `m_prev`.
- `AbortsAreKnown`: no deleted node is touched, and an assertion fails only in a
  table that has a node without an entry or an entry its parent does not list.

Both follow from `FailureInv`, whose parts are `EntryInv` and `FailureChains`.
`EntryInv` holds for damaged tables too: `size()` counts the entries, a running
call has an entry wherever it needs one, and erased entries have no children. The
latter replaces `TreeConsistent`, which a failed `push_back` breaks for good.
`FailureChains` says that the chains hold the entries *and* the `bare` nodes. A
bare node has no name, so its bucket cannot be computed from it: the invariant
says that there is *some* function `at` that gives every node its bucket, the one
of its hash for a node with an entry. The node of a failed `make_shared` is in the
bucket of the name it was made for, and stays there since every rehashing stops
at it before it moves it. The same form serves `NameTree`, where `nodes` is `live`
and `at` is the bucket of the hash: `SoundAmong(nodes, at)` generalises
`ChainsSound`, each step of `NameTree` preserves it in a lemma of
`NameTreeProofs` (`ChainsInsertWalk`, `ChainsResizeLink`, `ChainsUnlink`, ...),
and the proofs of both modules apply these. What aborts is exact because the only
assertions that can fail are the ones at a bare node in `resize()` and at an
unlisted entry in `eraseEntryIfEmpty()`: `count == m_nItems` holds since a
`resize()` that ends has met no bare node.

**The Pit.** `PitProofs` proves for every set of names closed under prefixes,
every set of Interests and every set of PIT entries:

- `PitTypeCorrect`, `SimilarPendingOnce` and `PathsAreExact`, from the inductive
  invariant `PitInv`: the three properties and `InterestKept` (a PIT entry has
  an Interest exactly as long as the table or a client refers to it). The two
  arguments that are not routine are lemmas. `DeleteFacts`: the swap with the
  last element takes out one element and doubles none, provided that the list
  had none twice. `ErasureExact`: removing a name and its bare ancestors from
  the paths to a set of names leaves the paths to what remains; it walks along
  a path with the least number principle `LeastNat`.
- `DataMatchesAreComplete`: `findAllDataMatches()` returns every pending PIT
  entry that accepts the Data, once. It follows from `PitInv`: an Interest only
  accepts Data below its name, `PathsExact` has that name stored, so the longest
  match is at least as long. `AcceptingFacts` and `WalkFacts` go round the two
  loops; the recursive functions that model them are shown to exist with
  `RoundsCollect` and followed with `FromTheLeast`, two lemmas of
  `DataLemmas` about functions on an interval, since no induction theorem of the
  library can be instantiated.
- `PitImplementsSpec`: `Spec => ImplementsPitSpec`, every call is a step of
  `PitSpec` or a stutter.

**The Pit on the table.** `PitOnTableProofs` proves for the constants of both,
for Interests whose names are names of the table (`InterestAssumption`):

- `PitRunsOnTable`: `PitOnTableSpec => ImplementsPit`. Each call of the Pit and
  the FIB, whose `lookup()` and `eraseEntryIfEmpty()` take many steps on the
  pointers, is one step of `Pit` on the dictionary of names, as long as no node
  was unlinked through a wrong `m_prev`. The inductive invariant `PitTableInv`
  adds to `ChainInv`: `CallRuns`, which call of the Name Tree runs inside which
  call of the Pit, and that `setFibEntry()` comes to an entry without a FIB entry;
  `ListsCarried`, `isEmpty()` sees the lists that there are; `InterestKept`;
  and `OneUnused`, only the entry that a call works on can be empty without
  children. Between calls no entry is unused then, and `StoredPaths` concludes
  that the stored names are the paths to what is used: of the entries at or below
  a given one, the one with the fewest entries below it has no children, so it
  carries something. While a call runs the dictionary is by definition those
  paths, so that it changes in one step, with the list or the FIB entry;
  `ErasureExact`, which `PitProofs` uses as well, says that what `Pit` erases in
  that step leaves the paths to the rest.
- `DataMatchesAreTheSame`: `PitOnTableSpec => []DataMatchesAgree`. The walk of
  `findAllDataMatches()` starts at the entry of the longest stored prefix
  (`LongestMatchFound`), and the parent of the entry of a prefix is the entry of
  the prefix that is one component shorter (`EntriesAbove`), so the walk visits
  all prefixes and ends at the root (`WalkPath`). `JoinsAgree` turns what it
  collects into what `Pit` collects, where each shorter prefix comes behind.

**The sizes.** `NameTreeSizeProofs` proves for all widths of `int` and
`size_t`, all amounts of memory and all sets of hashes (`RangeAssumption`; twice
the memory fits a `size_t`):

- `ZeroSizeOnlyIfAsked`: no doubling overflows to 0, so the code divides by zero
  only if a client asked for size 0. The invariant `SizeInv` bounds the size by
  the memory, which is why `2 * m_nBuckets` does not wrap.
- `GrowsAtThresholdWhileInt`: the table is at most half full as long as half its
  size fits an `int`. `GrowInv` adds that the threshold is then exactly half the
  size: an insertion goes at most one above it, and doubling makes room for more.
- `EnumeratesAllWhileInt`: a full enumeration visits every occupied bucket as
  long as every bucket number fits an `int`. `EnumerationInv` says that the
  buckets visited are those up to the current one; the lemma `AheadExact` turns
  the comparison of an `int` with a `size_t` into the order of the buckets.

**The entry.** `NameTreeEntryProofs` proves `EntryImplementsSpec`, `Spec =>
ImplementsEntrySpec`, for lists of any length: every call is a step of
`EntrySpec` for the same arguments with the same answer. A list stands for the bag that counts the `Places` of
each PIT entry; `FillFacts` says that the swap with the last element takes out
one occurrence and nothing else, whether or not the last one is the same or the
one that is found. The invariant `EntryInv` adds to the types that an entry is
in one list of children at most, and once (`Hooked`), without which taking out
one occurrence would not unlist the entry that is erased.

**Only model-checked.** `CallReturns`, `IncrementReturns` and
`EnumerationReturns`, liveness properties, which are beyond the prover. Every
safety property and every refinement that the passing runs check is a theorem.
`Findable` does not hold.

## 5. Plan

The modules of section 2 and the theorems of section 4 are done. What is left is
an allocation that fails inside a call of the Pit, and iterators over a table with
a node without an entry.

## 6. Not modelled

- `city.*` is third-party code that nothing calls.
- Logging, the layout of `dump()`, the unit tests and the Makefile.
- `Pit::Pit()` without a Name Tree leaves its pointer uninitialised, and every
  call dereferences it; the model starts from `Pit::Pit(NameTree*)`, which the
  comment on the constructor asks for.
- The publisher key of an Interest, which the code leaves out with a TODO.
- An allocation that fails inside `Pit::insert()` after its `lookup()`
  (pit.cpp:94): the path it leaves goes with the next erasure below it.
- Line 402 deletes an array with `delete` instead of `delete[]`; the heap of the
  model does not tell the two apart.
- Two iterators at a time share nothing but the table, which they do not change.
- `isEmpty()` and the class of the nodes are not in the repository, and are
  modelled from their use (section 1, `NameTreeLifetime`).
