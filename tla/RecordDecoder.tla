---------------------------- MODULE RecordDecoder ----------------------------
(***************************************************************************)
(* From a list of fields to decoded entries (findex/native/                *)
(* findex_directory.c, findex_common.c and findex/lib/findex/batch.ex).    *)
(* The fields a caller selects become the attributes the kernel is asked   *)
(* for.  The kernel packs one cell for each, without tags, in an order of  *)
(* its own, and two decoders that were written separately take the cells   *)
(* off again: parse_entry into a struct, parse_packed_entry into columns   *)
(* that Findex.Batch decodes later, on the Elixir side.                    *)
(***************************************************************************)
EXTENDS Naturals, FiniteSets, Sequences, SequencesExt

CONSTANTS Selections,    \* sets of fields that callers ask for
          NIL            \* nil: no value; or a record that is refused

Always == {"name", "error", "returned_attributes"}

\* The attribute groups of getattrlistbulk in which a field is asked for.
BothFields == {"link_count", "allocated_size", "io_block_size", "data_size"}
DirectoryFields == {"directory_entry_count", "mount_status"}
FileFields == {"total_size", "device_type", "data_allocated_size", "resource_fork_size",
               "resource_fork_allocated_size"}
ForkFields == {"private_size", "link_id", "real_device", "real_filesystem_id", "clone_id",
               "extended_flags", "recursive_generation_count", "attribution_tag",
               "clone_reference_count"}
CommonFields == {"type", "object_tag", "device", "filesystem_id", "file_id", "parent_id",
                 "created_at", "modified_at", "changed_at", "accessed_at", "backed_up_at",
                 "added_at", "owner_id", "group_id", "mode", "flags", "user_access",
                 "finder_info", "owner_uuid", "group_uuid", "acl", "data_protection_flags",
                 "generation_count", "document_id"}
Selectable == CommonFields \cup BothFields \cup DirectoryFields \cup FileFields \cup ForkFields

ASSUME SelectionsAssumption == Selections \subseteq SUBSET STRING
\* The groups in which attributes are asked for, each attribute a pair of both.
Groups == {"common", "directory", "file", "fork"}
Asking == Groups \X Selectable

\* Nil is no cell, and a record that is refused is none that is decoded.
ASSUME NilAssumption ==
    /\ NIL \notin Asking
    /\ \A fields \in Selections : NIL \notin [fields \ Always -> Asking \cup {NIL}]

VARIABLES
    decoding,    \* "configuring", "refused", "reading", "read" or "decoded"
    requested,   \* requested_fields of the cursor
    asked,       \* its attributes: pairs of a group and a field
    record,      \* what the kernel returned for one entry
    parsed,      \* the struct: [fields -> cell read or NIL], or NIL if refused
    unpacked     \* the same of a packed row, as Findex.Batch shows it

records == <<decoding, requested, asked, record, parsed, unpacked>>
NoRecord == [cells |-> <<>>, returned |-> {}, kind |-> "file", error |-> FALSE, named |-> TRUE]

InitRecord ==
    /\ decoding = "configuring"
    /\ requested \in Selections
    /\ asked = {}
    /\ record = NoRecord
    /\ parsed = NIL /\ unpacked = NIL

-----------------------------------------------------------------------------
(* Configuration *)

\* add_requested_field: a size that directories and files both have is asked for
\* in both groups, because the kernel fills only one of them.
Attributes(field) ==
    {<<"common", f>> : f \in CommonFields \cap {field}}
      \cup {<<"directory", f>> : f \in (DirectoryFields \cup BothFields) \cap {field}}
      \cup {<<"file", f>> : f \in (FileFields \cup BothFields) \cap {field}}
      \cup {<<"fork", f>> : f \in ForkFields \cap {field}}

Grouped(attributes) == \E a \in attributes : a[1] \in {"directory", "file"}

\* configure_attributes: the groups of directories and files cannot be told
\* apart without the type, so it is asked for, although not shown.
AttributesOf(fields) ==
    LET attributes == UNION {Attributes(f) : f \in fields}
    IN IF Grouped(attributes) THEN attributes \cup {<<"common", "type">>} ELSE attributes

\* normalize_fields and configure_attributes: an unknown field is an error,
\* fork_count among them; the fields that are always there may be named.
Configure ==
    /\ decoding = "configuring"
    /\ IF requested \subseteq Selectable \cup Always
         THEN /\ decoding' = "reading"
              /\ asked' = AttributesOf(requested)
              /\ requested' = requested \cup Always
         ELSE decoding' = "refused" /\ UNCHANGED <<asked, requested>>
    /\ UNCHANGED <<record, parsed, unpacked>>

-----------------------------------------------------------------------------
(* What the kernel packs *)

\* The attributes of a group that are there, in the order of a table of fields.
Cells(order, group, attributes) ==
    LET table == order[group]
        present == {i \in DOMAIN table : <<group, table[i]>> \in attributes}
        place(i) == Cardinality({j \in present : j <= i})
    IN [k \in 1 .. Cardinality(present) |-> <<group, table[CHOOSE i \in present : place(i) = k]>>]

CellsOf(order, kind, attributes) ==
    Cells(order, "common", attributes)
      \o Cells(order, IF kind = "directory" THEN "directory" ELSE "file", attributes)
      \o Cells(order, "fork", attributes)

\* getattrlist(2): attributes come in the order of their bits.
KernelOrder == [
    common |-> <<"device", "filesystem_id", "type", "object_tag", "created_at", "modified_at",
                 "changed_at", "accessed_at", "backed_up_at", "finder_info", "owner_id", "group_id",
                 "mode", "flags", "generation_count", "document_id", "user_access", "acl",
                 "owner_uuid", "group_uuid", "file_id", "parent_id", "added_at",
                 "data_protection_flags">>,
    directory |-> <<"link_count", "directory_entry_count", "mount_status", "allocated_size",
                    "io_block_size", "data_size">>,
    file |-> <<"link_count", "total_size", "allocated_size", "io_block_size", "device_type",
               "data_size", "data_allocated_size", "resource_fork_size",
               "resource_fork_allocated_size">>,
    fork |-> <<"private_size", "link_id", "real_device", "real_filesystem_id", "clone_id",
               "extended_flags", "recursive_generation_count", "attribution_tag",
               "clone_reference_count">>]

\* FSOPT_PACK_INVAL_ATTRS: every attribute asked for has its cell, and the
\* returned set says which of them mean something.  The record may be cut short
\* and may claim attributes nobody asked for; one of an entry with an error ends
\* after the name.
KernelReturns ==
    /\ decoding = "reading"
    /\ \E kind \in {"directory", "file"}, error, named, whole \in BOOLEAN :
       \E returned \in {asked, {}} \cup {asked \ {a} : a \in asked}
                         \cup {asked \cup {<<"common", "object_permanent_id">>}} :
          LET cells == CellsOf(KernelOrder, kind, asked)
          IN record' = [kind |-> kind, error |-> error, named |-> named, returned |-> returned,
                        cells |-> IF error THEN <<>>
                                  ELSE IF whole \/ cells = <<>> THEN cells ELSE Front(cells)]
    /\ decoding' = "read"
    /\ UNCHANGED <<requested, asked, parsed, unpacked>>

-----------------------------------------------------------------------------
(* The two decoders *)

\* What both do: refuse attributes that were not asked for, take one cell after
\* the other in their own order, with a bound check on each, and choose between
\* the groups of directories and files by the type they have just read.
Taken(order) ==
    LET common == Cells(order, "common", asked)
        typeCell == {i \in DOMAIN common : common[i] = <<"common", "type">>}
        kind == IF \E i \in typeCell : /\ i \in DOMAIN record.cells
                                       /\ record.cells[i] = <<"common", "type">>
                                       /\ record.kind = "directory"
                  THEN "directory" ELSE "file"
    IN CellsOf(order, kind, asked)

Accepted(order) ==
    /\ record.returned \subseteq asked
    /\ ~ record.error =>
          /\ record.named
          /\ Grouped(asked) => <<"common", "type">> \in record.returned
          /\ Len(Taken(order)) <= Len(record.cells)

\* The cell that a records takes for this field, when the returned set says that
\* it means something.
CellFor(order, field) ==
    LET taken == Taken(order)
        its == {i \in DOMAIN taken : taken[i][2] = field /\ taken[i] \in record.returned}
    IN IF record.error \/ its = {} THEN NIL ELSE record.cells[CHOOSE i \in its : TRUE]

Shown == requested \ Always

\* parse_entry.
EntryCommon ==
    <<"device", "filesystem_id", "type", "object_tag", "created_at", "modified_at", "changed_at",
      "accessed_at", "backed_up_at", "finder_info", "owner_id", "group_id", "mode", "flags",
      "generation_count", "document_id", "user_access", "acl", "owner_uuid", "group_uuid",
      "file_id", "parent_id", "added_at", "data_protection_flags">>
EntryDirectory ==
    <<"link_count", "directory_entry_count", "mount_status", "allocated_size", "io_block_size",
      "data_size">>
EntryFile ==
    <<"link_count", "total_size", "allocated_size", "io_block_size", "device_type", "data_size",
      "data_allocated_size", "resource_fork_size", "resource_fork_allocated_size">>
EntryFork ==
    <<"private_size", "link_id", "real_device", "real_filesystem_id", "clone_id", "extended_flags",
      "recursive_generation_count", "attribution_tag", "clone_reference_count">>
EntryOrder == [common |-> EntryCommon, directory |-> EntryDirectory, file |-> EntryFile, fork |-> EntryFork]

ParsedEntry == IF Accepted(EntryOrder) THEN [f \in Shown |-> CellFor(EntryOrder, f)] ELSE NIL

\* parse_packed_entry.
PackedCommon ==
    <<"device", "filesystem_id", "type", "object_tag", "created_at", "modified_at", "changed_at",
      "accessed_at", "backed_up_at", "finder_info", "owner_id", "group_id", "mode", "flags",
      "generation_count", "document_id", "user_access", "acl", "owner_uuid", "group_uuid",
      "file_id", "parent_id", "added_at", "data_protection_flags">>
PackedDirectory ==
    <<"link_count", "directory_entry_count", "mount_status", "allocated_size", "io_block_size",
      "data_size">>
PackedFile ==
    <<"link_count", "total_size", "allocated_size", "io_block_size", "device_type", "data_size",
      "data_allocated_size", "resource_fork_size", "resource_fork_allocated_size">>
\* A slip: two cells of parse_packed_entry change places.
PackedForkBug ==
    <<"link_id", "private_size", "real_device", "real_filesystem_id", "clone_id", "extended_flags",
      "recursive_generation_count", "attribution_tag", "clone_reference_count">>
PackedFork ==
    <<"private_size", "link_id", "real_device", "real_filesystem_id", "clone_id", "extended_flags",
      "recursive_generation_count", "attribution_tag", "clone_reference_count">>
PackedOrder == [common |-> PackedCommon, directory |-> PackedDirectory, file |-> PackedFile, fork |-> PackedFork]

TimeFields == {"created_at", "modified_at", "changed_at", "accessed_at", "backed_up_at", "added_at"}
WordFields == {"object_tag", "owner_id", "group_id", "mode", "flags", "user_access",
          "data_protection_flags", "generation_count", "document_id", "link_count",
          "io_block_size", "device_type", "directory_entry_count", "mount_status",
          "clone_reference_count"}

\* The size of the value that parse_packed_entry stores, from its C type; device
\* numbers are widened to 64 bits first.
StoredSize(field) ==
    CASE field = "type" -> 1
      [] field = "finder_info" -> 32
      [] field \in TimeFields \cup {"owner_uuid", "group_uuid"} -> 16
      [] field \in WordFields -> 4
      [] OTHER -> 8

\* findex_packed_field_width: the width of a column.
ColumnWidth(field) ==
    CASE field = "type" -> 1
      [] field = "finder_info" -> 32
      [] field \in TimeFields \cup {"owner_uuid", "group_uuid"} -> 16
      [] field \in WordFields -> 4
      [] OTHER -> 8

\* decode/4 of Findex.Batch: the width at which a column is read, by the lists at
\* its top; a field in none of them has no clause.
DecodedWidth(field) ==
    CASE field = "type" -> 1
      [] field = "finder_info" -> 32
      [] field \in TimeFields \cup {"owner_uuid", "group_uuid"} -> 16
      [] field \in WordFields -> 4
      [] field \in {"acl", "filesystem_id", "real_filesystem_id"} -> 8
      [] field \in {"device", "file_id", "parent_id", "link_id", "real_device", "clone_id",
                    "extended_flags", "recursive_generation_count", "attribution_tag"} -> 8
      [] field \in {"total_size", "allocated_size", "data_size", "data_allocated_size",
                    "resource_fork_size", "resource_fork_allocated_size", "private_size"} -> 8
      [] OTHER -> 0

\* packed_store drops a value that does not fit its column and leaves the bit of
\* the field clear; a column read at another width gives some other value.
PackedValue(field) ==
    LET cell == CellFor(PackedOrder, field)
    IN IF StoredSize(field) # ColumnWidth(field) THEN NIL
       ELSE IF cell # NIL /\ DecodedWidth(field) # ColumnWidth(field) THEN <<"wrong", field>>
       ELSE cell

PackedRow == IF Accepted(PackedOrder) THEN [f \in Shown |-> PackedValue(f)] ELSE NIL

DecodeRecord ==
    /\ decoding = "read"
    /\ parsed' = ParsedEntry
    /\ unpacked' = PackedRow
    /\ decoding' = "decoded"
    /\ UNCHANGED <<requested, asked, record>>

NextRecord == Configure \/ KernelReturns \/ DecodeRecord
RecordSpec == InitRecord /\ [][NextRecord]_records

-----------------------------------------------------------------------------
(* Properties *)

\* For every selection of fields and every record, the two formats decode to the
\* same entry, and to the true one: each field has its own cell of the group
\* that fits the entry, or nil where the kernel returned nothing; what was asked
\* for only to find the group is not shown; and a record is refused only when it
\* is cut short, has no name, claims what was not asked for, or keeps its type
\* back where the type decides.
DecodersAreExact ==
    decoding = "decoded" =>
      LET own(f) == {a \in record.returned : a[2] = f /\ a[1] \in {"common", "fork", record.kind}}
          true(f) == IF record.error \/ own(f) = {} THEN NIL ELSE CHOOSE a \in own(f) : TRUE
          short == ~ record.error /\ Len(record.cells) < Len(CellsOf(KernelOrder, record.kind, asked))
          malformed == \/ short \/ ~ (record.returned \subseteq asked)
                       \/ (~ record.error /\ ~ record.named)
          untyped == /\ ~ record.error
                     /\ requested \cap (BothFields \cup DirectoryFields \cup FileFields) # {}
                     /\ <<"common", "type">> \notin record.returned
      IN /\ parsed = unpacked
         /\ (parsed = NIL) = (malformed \/ untyped)
         /\ parsed # NIL => parsed = [f \in requested \ Always |-> true(f)]
=============================================================================
