------------------------------- MODULE Hashtree -------------------------------
(***************************************************************************)
(* The published tree: how HashtreeWriter builds it, on top of the tree    *)
(* that is published already (src/src/hashtree/writer.ts), what the        *)
(* decoder accepts (src/src/protocol/hashtree.ts) and how PathResolver     *)
(* reads it (src/src/hashtree/reader.ts).                                  *)
(*                                                                         *)
(* A blob is identified by its content, so a hash is modelled by the blob  *)
(* itself: a raw chunk or a manifest, whose links contain what they link   *)
(* to.  Names are numbers in UTF-8 order, a route is a sequence of names,  *)
(* the content of a file is a sequence of chunks.                          *)
(***************************************************************************)
EXTENDS Naturals, Sequences, FiniteSets, SequencesExt, FiniteSetsExt

CONSTANTS
    Content,      \* [set of routes -> Seq(chunks)]: what may be published
    Sizes,        \* [chunks -> Nat]
    MaxLinks      \* limits.linksPerNode, of the writer and of the decoder

Routes == DOMAIN Content
Chunks == DOMAIN Sizes

ASSUME TreeAssumption ==
    /\ MaxLinks \in Nat /\ MaxLinks >= 2
    /\ \A r \in Routes : r \in Seq(Nat) /\ r # <<>>
    /\ \A r, q \in Routes : IsPrefix(r, q) => r = q
    /\ \A r \in Routes : Content[r] \in Seq(Chunks)

VARIABLES
    files,        \* the routes whose publication succeeded
    root,         \* the published root manifest, None before the first one
    inventory,    \* the blobs the last build handed over for upload
    refused       \* the base could not be read: the build failed

vars == <<files, root, inventory, refused>>

----------------------------------------------------------------------------
(* Blobs and links. *)

None == [type |-> "none"]
Raw(chunks) == [type |-> "raw", chunks |-> chunks]
Manifest(type, links) == [type |-> type, links |-> links]
Link(blob, size) == [blob |-> blob, size |-> size]
Named(link, name) == [blob |-> link.blob, size |-> link.size, name |-> name]

IsManifest(blob) == blob.type # "raw"
LogicalSize(links) == FoldSeq(LAMBDA l, sum : l.size + sum, 0, links)
Children(blob) == IF IsManifest(blob) THEN {l.blob : l \in Range(blob.links)} ELSE {}

\* First and last name below a link of a directory or of a fanout.
First(link) == IF "first" \in DOMAIN link THEN link.first ELSE link.name
Final(link) == IF "last" \in DOMAIN link THEN link.last ELSE link.name
Count(link) == IF "count" \in DOMAIN link THEN link.count ELSE 1

Reachable(blob) ==
    LET RECURSIVE Closure(_)
        Closure(S) == LET T == S \cup UNION {Children(b) : b \in S}
                      IN  IF T = S THEN S ELSE Closure(T)
    IN  Closure({blob})

----------------------------------------------------------------------------
(* The writer. *)

Groups(links) ==
    LET n == Len(links)
    IN  [i \in 1..((n + MaxLinks - 1) \div MaxLinks) |->
            SubSeq(links, (i - 1) * MaxLinks + 1,
                   IF i * MaxLinks < n THEN i * MaxLinks ELSE n)]

KindAt(kind, level) ==
    IF kind = "directory" /\ level > 0 THEN "fanout" ELSE kind

\* Mutant: the range of a group of ranges ends at the start of its last one.
GroupLinkShort(kind, level, links) ==
    LET link == Link(Manifest(KindAt(kind, level), links), LogicalSize(links))
    IN  IF kind = "file" THEN link
        ELSE [blob |-> link.blob, size |-> link.size,
              first |-> First(links[1]), last |-> First(links[Len(links)]),
              count |-> FoldSeq(LAMBDA l, sum : Count(l) + sum, 0, links)]

\* flushGroup: the link that stands for a full manifest on the next level.
GroupLink(kind, level, links) ==
    LET link == Link(Manifest(KindAt(kind, level), links), LogicalSize(links))
    IN  IF kind = "file" THEN link
        ELSE [blob |-> link.blob, size |-> link.size,
              first |-> First(links[1]), last |-> Final(links[Len(links)]),
              count |-> FoldSeq(LAMBDA l, sum : Count(l) + sum, 0, links)]

\* collapse: levels of at most MaxLinks links until one manifest is left.  A
\* directory that does not fit in one manifest ends in a fanout.
RECURSIVE Collapse(_, _, _)
Collapse(kind, level, links) ==
    IF Len(links) <= MaxLinks
    THEN Link(Manifest(KindAt(kind, level), links), LogicalSize(links))
    ELSE LET groups == Groups(links)
         IN  Collapse(kind, level + 1,
                      [i \in 1..Len(groups) |-> GroupLink(kind, level, groups[i])])

\* buildFile: nothing or one chunk is linked directly.
ChunkLink(c) == Link(Raw(<<c>>), Sizes[c])
BuildFile(content) ==
    IF content = <<>> THEN Link(Raw(<<>>), 0)
    ELSE IF Len(content) = 1 THEN ChunkLink(content[1])
    ELSE Collapse("file", 0, [i \in 1..Len(content) |-> ChunkLink(content[i])])

\* The directory at `path`, from the deepest one up; `nodes` are the links of
\* the files by route.
NamesIn(path, nodes) ==
    {r[Len(path) + 1] : r \in {q \in DOMAIN nodes : IsStrictPrefix(path, q)}}

RECURSIVE BuildDirectory(_, _)
BuildDirectory(path, nodes) ==
    LET names == SetToSortSeq(NamesIn(path, nodes), LAMBDA a, b : a < b)
        Child(name) == LET p == Append(path, name)
                       IN  IF p \in DOMAIN nodes THEN nodes[p]
                           ELSE BuildDirectory(p, nodes)
    IN  Collapse("directory", 0,
                 [i \in 1..Len(names) |-> Named(Child(names[i]), names[i])])

\* importDirectory: the file links of the base by route.
RECURSIVE Imported(_, _)
Imported(blob, path) ==
    UNION {IF blob.type = "fanout" THEN Imported(l.blob, path)
           ELSE IF l.blob.type \in {"directory", "fanout"}
           THEN Imported(l.blob, Append(path, l.name))
           ELSE {<<Append(path, l.name), Link(l.blob, l.size)>>} :
              l \in Range(blob.links)}

\* The nodes of a build: the base, with the frozen files replacing its routes.
Nodes(base, batch) ==
    LET old == IF base = None THEN {} ELSE Imported(base, <<>>)
        OldLink(r) == (CHOOSE p \in old : p[1] = r)[2]
    IN  [r \in {p[1] : p \in old} \cup batch |->
            IF r \in batch THEN BuildFile(Content[r]) ELSE OldLink(r)]

\* Mutant: the base is ignored.
BuildAlone(base, batch) == BuildDirectory(<<>>, Nodes(None, batch)).blob

Build(base, batch) == BuildDirectory(<<>>, Nodes(base, batch)).blob

\* Mutant: only what the build persists itself is registered.
RegisteredNew(base, batch, blob) ==
    UNION {Reachable(BuildFile(Content[r]).blob) : r \in batch}
        \cup {b \in Reachable(blob) : b.type \in {"directory", "fanout"}}

\* What the build registers: the inventory of the base, the chunks and
\* manifests of the batch's files, and the manifests of every directory.
Registered(base, batch, blob) ==
    (IF base = None THEN {} ELSE Reachable(base))
        \cup UNION {Reachable(BuildFile(Content[r]).blob) : r \in batch}
        \cup {b \in Reachable(blob) : b.type \in {"directory", "fanout"}}

----------------------------------------------------------------------------
(* The reader. *)

Absent == [outcome |-> "absent"]
Error == [outcome |-> "error"]

\* The link of a manifest that a name leads to: the entry of a directory, the
\* range of a fanout.  Names are numbers: routes are ASCII, where the writer's
\* order of bytes and the reader's of UTF-16 units agree.
Matches(manifest, name) ==
    {l \in Range(manifest.links) :
        IF manifest.type = "directory" THEN l.name = name
        ELSE l.first <= name /\ name <= l.last}

FilePlan(blob) ==
    LET RECURSIVE Visit(_)
        Visit(b) == IF b.type = "raw" THEN b.chunks
                    ELSE FlattenSeq([i \in 1..Len(b.links) |-> Visit(b.links[i].blob)])
    IN  Visit(blob)

\* #filePlan compares the size of every link with what it leads to, and the
\* stream of a chunk compares its bytes with the link's size.
RECURSIVE SizesAgree(_)
SizesAgree(link) ==
    IF link.blob.type = "raw"
    THEN link.size = FoldSeq(LAMBDA c, sum : Sizes[c] + sum, 0, link.blob.chunks)
    ELSE /\ link.size = LogicalSize(link.blob.links)
         /\ \A l \in Range(link.blob.links) : SizesAgree(l)

\* resolve: a loop over the manifests from the root, which must have the type
\* their link announced; the root is expected to be a directory.
RECURSIVE ResolveFrom(_, _, _)
ResolveFrom(blob, expected, path) ==
    IF blob.type # expected THEN Error
    ELSE IF Matches(blob, Head(path)) = {} THEN Absent
    ELSE LET link == CHOOSE l \in Matches(blob, Head(path)) : TRUE
             next == link.blob
         IN  IF blob.type = "fanout" THEN ResolveFrom(next, next.type, path)
             ELSE IF Len(path) > 1
             THEN IF next.type \in {"directory", "fanout"}
                  THEN ResolveFrom(next, next.type, Tail(path))
                  ELSE Absent
             ELSE IF next.type \in {"directory", "fanout"} \/ ~SizesAgree(link)
             THEN Error
             ELSE [outcome |-> "file", size |-> link.size, chunks |-> FilePlan(next)]

Resolve(blob, path) == IF path = <<>> THEN Absent ELSE ResolveFrom(blob, "directory", path)

\* materialize and importDirectory read the base from its root down and expect
\* a directory there too.
Readable(blob) == blob.type = "directory"

----------------------------------------------------------------------------
(* The decoder: what a manifest must look like to be accepted.             *)

Ascending(links) ==
    \A i \in 1..(Len(links) - 1) : Final(links[i]) < First(links[i + 1])

Decodable(blob) ==
    /\ Len(blob.links) <= MaxLinks
    /\ CASE blob.type = "file" ->
              \A l \in Range(blob.links) : l.blob.type \in {"raw", "file"}
         [] blob.type = "directory" ->
              Ascending(blob.links)
         [] blob.type = "fanout" ->
              /\ \A l \in Range(blob.links) :
                    /\ l.blob.type \in {"directory", "fanout"}
                    /\ l.count > 0
                    /\ l.first <= l.last
              /\ Ascending(blob.links)

----------------------------------------------------------------------------
(* Publications: each one builds a frozen batch on the published root.     *)

Publish(batch) ==
    /\ root = None \/ Readable(root)
    /\ root' = Build(root, batch)
    /\ inventory' = Registered(root, batch, root')
    /\ files' = files \cup batch
    /\ UNCHANGED refused

PublishRefused(batch) ==
    /\ root # None /\ ~Readable(root)
    /\ refused' = TRUE
    /\ UNCHANGED <<files, root, inventory>>

Init ==
    /\ files = {}
    /\ root = None
    /\ inventory = {}
    /\ refused = FALSE

Batches == SUBSET Routes \ {{}}

Next == \E batch \in Batches : Publish(batch) \/ PublishRefused(batch)

Spec == Init /\ [][Next]_vars

----------------------------------------------------------------------------
(* Properties. *)

\* The root is a directory or a fanout, never a file, and the inventory holds
\* raw blobs and manifests only.
TypeOK ==
    /\ files \subseteq Routes
    /\ root.type \in {"none", "directory", "fanout"}
    /\ \A b \in inventory : b.type \in {"raw", "file", "directory", "fanout"}
    /\ refused \in BOOLEAN

\* Building on a base gives the very tree that building everything at once
\* gives: the root depends on the logical files alone, whatever the sequence
\* of batches, overlaps and regrouped fanouts.
CanonicalRoot == root # None => root = Build(None, files)

\* Every manifest the writer publishes is one the decoder accepts: at most
\* MaxLinks links, names and fanout ranges ascending and disjoint.
PublishedIsDecodable ==
    root # None => \A b \in Reachable(root) : IsManifest(b) => Decodable(b)

\* The reader finds every published file under its route, with the size the
\* link announces and its chunks in order.
PublishedIsReadable ==
    root # None /\ Readable(root) =>
        \A r \in files :
            Resolve(root, r) =
               [outcome |-> "file",
                size |-> FoldSeq(LAMBDA c, sum : Sizes[c] + sum, 0, Content[r]),
                chunks |-> Content[r]]

\* A route that was not published is proved absent, never an error or a
\* neighbour: a name between the ranges of a fanout, below a file, or new.
OthersAreAbsent ==
    root # None /\ Readable(root) =>
        \A r \in (Routes \ files) \cup {Append(q, 1) : q \in files} :
            Resolve(root, r) = Absent

\* What the writer publishes is what the reader resolves, no more and no less,
\* in manifests that its decoder accepts.
ResolvesExactly ==
    PublishedIsDecodable /\ PublishedIsReadable /\ OthersAreAbsent

\* The inventory handed to the coordinator covers the whole new tree, also the
\* subtrees taken over from the base: a server that has the inventory has all
\* of the root.
InventoryCovers == root # None => Reachable(root) \subseteq inventory

\* The root is a directory manifest (NIP.md), so its own reader can open it.
RootIsDirectory == root # None => Readable(root)
=============================================================================
