------------------------------- MODULE Store -------------------------------
(***************************************************************************)
(* The format of the store: the state the engine exports is written as a   *)
(* header, counted collections of length-prefixed records, and a trailer   *)
(* over all of it; it is read back with every count, length, flag and      *)
(* identity checked.                                                       *)
(*                                                                         *)
(* The bytes are taken field by field: a token is a field with its kind    *)
(* and value, and a size in bytes. A reader that asks for another kind     *)
(* than it finds is out of step; what it would read then is left out. A    *)
(* string is known by its length, an identity or generation that is not    *)
(* set is 0, and the digest over the content is the content.               *)
(***************************************************************************)
EXTENDS Naturals, Sequences, FiniteSets, SequencesExt

CONSTANTS
  MaxSets, MaxMembers, MaxTotal, MaxSpace,          \* ResourceLimits
  MaxHistory, MaxPublishers, MaxAttempts, MaxRecord,
  States,          \* states the engine may export
  Noise            \* bound: values a rewritten field may take

VARIABLES
  state,    \* what the engine exports
  file,     \* the store, or NoFile
  intact    \* history: the file is as it was written

vars == <<state, file, intact>>

NoFile == <<>>
Version == 1

----------------------------------------------------------------------------
(* Fields and records. A layout is the sequence of kinds and names that     *)
(* the code appends or reads, in its order.                                 *)

\* The kinds of fields: their bytes, but for strings and records.
Width == [u8 |-> 1, u16 |-> 2, u32 |-> 4, u64 |-> 8, digest |-> 32]

\* The kinds the reader checks further, all of one byte, with the values it knows.
Known == [flag |-> 0..1, lifecycle |-> 0..8, legality |-> 0..2, scope |-> 0..4, reason |-> 0..4]

\* What is read of each is a byte.
Base(kind) == IF kind \in DOMAIN Known THEN "u8" ELSE kind

Total(sizes) == FoldLeft(LAMBDA sum, size : sum + size, 0, sizes)
FieldSize(token) == IF token.kind = "string" THEN 4 + token.value ELSE Width[token.kind]
FieldsSize(tokens) == Total([i \in DOMAIN tokens |-> FieldSize(tokens[i])])

\* A record has a length before its fields.
TokenSize(token) ==
  IF token.kind = "record" THEN 4 + FieldsSize(token.value) ELSE FieldSize(token)
Size(tokens) == Total([i \in DOMAIN tokens |-> TokenSize(tokens[i])])

\* append_*: the fields of r as the layout names them.
Put(layout, r) ==
  [i \in DOMAIN layout |-> [kind |-> layout[i][1], value |-> r[layout[i][2]]]]
Count(s) == <<[kind |-> "u32", value |-> Len(s)]>>
PutList(layout, rs) == Count(rs) \o FlattenSeq([i \in DOMAIN rs |-> Put(layout, rs[i])])

\* What was read, with one more field.
With(read, name, value) ==
  [n \in DOMAIN read \cup {name} |-> IF n = name THEN value ELSE read[n]]

\* A reader: the fields that remain, what was read, and the first rejection.
Reader(tokens) == [rest |-> tokens, read |-> <<>>, code |-> "Ok"]
Reject(reader, code) == [reader EXCEPT !.code = code]

\* Reader::u8 and its like, string, read_flag and the closed enumerations.
Get(reader, kind, name) ==
  IF reader.code # "Ok" THEN reader
  ELSE IF reader.rest = <<>> \/ Head(reader.rest).kind # Base(kind) THEN Reject(reader, "Corrupt")
  ELSE LET value == Head(reader.rest).value IN
       IF kind = "string" /\ value > MaxRecord THEN Reject(reader, "ResourceLimit")
       ELSE IF kind \in DOMAIN Known /\ value \notin Known[kind] THEN Reject(reader, "Corrupt")
       ELSE [reader EXCEPT !.rest = Tail(@), !.read = With(@, name, value)]

GetAll(reader, layout) == FoldLeft(LAMBDA r, f : Get(r, f[1], f[2]), reader, layout)

\* entries_fit: count entries of at least unit bytes each are within what remains.
EntriesFit(count, unit, rest) == count * unit <= Size(rest)

\* One entry of a list inside a record.
GetEntry(reader, name, layout) ==
  LET entry == GetAll([reader EXCEPT !.read = <<>>], layout)
  IN  IF reader.code # "Ok" THEN reader
      ELSE [entry EXCEPT !.read = [reader.read EXCEPT ![name] = Append(@, entry.read)]]

EntryLoop(reader, name, layout, count) ==
  FoldLeft(LAMBDA r, i : GetEntry(r, name, layout), reader, [i \in 1..count |-> i])

\* The entries behind a count: each takes at least unit bytes.
GetEntries(counted, read, name, layout, limit, unit) ==
  IF counted.code # "Ok" THEN counted
  ELSE IF counted.read.count > limit THEN Reject(counted, "ResourceLimit")
  ELSE IF ~EntriesFit(counted.read.count, unit, counted.rest) THEN Reject(counted, "Corrupt")
  ELSE EntryLoop([counted EXCEPT !.read = With(read, name, <<>>)], name, layout, counted.read.count)

GetList(reader, name, layout, limit, unit) ==
  GetEntries(Get(reader, "u32", "count"), reader.read, name, layout, limit, unit)

----------------------------------------------------------------------------
(* Encoding.                                                                *)

Counters == <<<<"u64", "epoch">>, <<"u64", "next_set_id">>, <<"u64", "next_policy_id">>,
              <<"u64", "next_plan_id">>, <<"u64", "next_attempt_sequence">>>>

PathFields == <<<<"u64", "path">>, <<"u64", "generation">>, <<"u8", "legality">>>>

MultipathFields == <<<<"u64", "set">>, <<"u64", "generation">>>>
ListedFields == <<<<"u64", "id">>>>

PublisherFields ==
  <<<<"u64", "id">>, <<"u64", "boot">>, <<"u64", "epoch">>, <<"u8", "kind">>,
    <<"string", "scope">>, <<"u8", "fenced">>, <<"u8", "reason">>, <<"u64", "sequence">>,
    <<"string", "detail">>>>

AttemptFields ==
  <<<<"u64", "high">>, <<"u64", "low">>, <<"u64", "set">>, <<"digest", "payload">>,
    <<"u16", "code">>, <<"u64", "sequence">>>>

SetFields ==
  <<<<"u64", "id">>, <<"string", "fabric">>, <<"string", "namespace">>, <<"string", "route">>,
    <<"u64", "multipath">>, <<"string", "policy_name">>, <<"u64", "policy_id">>,
    <<"u64", "set_generation">>, <<"u64", "policy_generation">>,
    <<"u64", "assignment_generation">>, <<"u64", "authority_generation">>,
    <<"u8", "lifecycle">>, <<"u64", "minimum_positive">>, <<"u64", "maximum">>,
    <<"u32", "space">>, <<"u32", "min_effective_members">>>>

MemberFields ==
  <<<<"u64", "id">>, <<"u64", "path">>, <<"u64", "path_authority">>, <<"u8", "has_multipath">>,
    <<"u64", "multipath_set">>, <<"u64", "multipath_generation">>, <<"u64", "multipath_member">>,
    <<"u64", "declared_weight">>, <<"u8", "admin_enabled">>, <<"u64", "member_generation">>,
    <<"u64", "weight_generation">>>>

StandingFields ==
  <<<<"u8", "authoritative">>, <<"u64", "epoch_bound">>, <<"u64", "publisher">>,
    <<"u64", "boot">>, <<"u64", "revision">>, <<"u64", "churn_last">>, <<"u64", "churn_total">>>>

HistoryFields ==
  <<<<"u64", "revision">>, <<"u16", "change">>, <<"u64", "set_generation">>,
    <<"u64", "policy_generation">>, <<"u64", "assignment_generation">>, <<"u64", "churn">>,
    <<"u64", "epoch">>, <<"u64", "publisher">>, <<"digest", "policy_digest">>,
    <<"digest", "assignment_digest">>>>

\* The slot map, if there is one, behind its flag and two equal counts.
PutSlots(owners) ==
  IF owners = <<>> THEN <<[kind |-> "u8", value |-> 0]>>
  ELSE <<[kind |-> "u8", value |-> 1]>> \o Count(owners) \o PutList(ListedFields, owners)

\* encode_set_record
SetRecord(set) ==
  Put(SetFields, set) \o PutList(MemberFields, set.members) \o PutSlots(set.owners)
    \o Put(StandingFields, set) \o PutList(HistoryFields, set.history)

\* encode_multipath_record
MultipathRecord(view) == Put(MultipathFields, view) \o PutList(ListedFields, view.members)

Records(s) ==
  [sets       |-> [i \in DOMAIN s.sets |-> SetRecord(s.sets[i])],
   paths      |-> [i \in DOMAIN s.paths |-> Put(PathFields, s.paths[i])],
   multipath  |-> [i \in DOMAIN s.multipath |-> MultipathRecord(s.multipath[i])],
   publishers |-> [i \in DOMAIN s.publishers |-> Put(PublisherFields, s.publishers[i])],
   attempts   |-> [i \in DOMAIN s.attempts |-> Put(AttemptFields, s.attempts[i])]]

\* One collection of the body: its count, then each record behind its length.
Collection(records) ==
  Count(records) \o [i \in DOMAIN records |-> [kind |-> "record", value |-> records[i]]]

Members(sets) == Total([i \in DOMAIN sets |-> Len(sets[i].members)])

\* Faulty: the members of all sets are not counted.
WithinButTotal(s) ==
  /\ Len(s.sets) <= MaxSets /\ Len(s.publishers) <= MaxPublishers /\ Len(s.attempts) <= MaxAttempts
  /\ \A i \in DOMAIN s.sets :
       /\ Len(s.sets[i].members) <= MaxMembers /\ Len(s.sets[i].history) <= MaxHistory
       /\ s.sets[i].space <= MaxSpace /\ Len(s.sets[i].owners) <= MaxSpace
  /\ \A r \in UNION {Range(c) : c \in Range(Records(s))} : FieldsSize(r) <= MaxRecord

\* What the encoders refuse with ResourceLimit.
WithinLimits(s) ==
  /\ Len(s.sets) <= MaxSets /\ Len(s.publishers) <= MaxPublishers /\ Len(s.attempts) <= MaxAttempts
  /\ Members(s.sets) <= MaxTotal
  /\ \A i \in DOMAIN s.sets :
       /\ Len(s.sets[i].members) <= MaxMembers /\ Len(s.sets[i].history) <= MaxHistory
       /\ s.sets[i].space <= MaxSpace /\ Len(s.sets[i].owners) <= MaxSpace
  /\ \A r \in UNION {Range(c) : c \in Range(Records(s))} : FieldsSize(r) <= MaxRecord

\* The header, the body, and the trailer over both.
Sealed(magic, version, flags, body) ==
  [magic |-> magic, version |-> version, flags |-> flags, body |-> body,
   digest |-> <<magic, version, flags, body>>]

\* encode_engine_state
Encoded(s) ==
  LET r == Records(s) IN
  Sealed("WPFS", Version, 0,
         Put(Counters, s) \o Collection(r.sets) \o Collection(r.paths)
           \o Collection(r.multipath) \o Collection(r.publishers) \o Collection(r.attempts))

----------------------------------------------------------------------------
(* Decoding. The layouts are those of the decoders.                         *)

ReadCounters == <<<<"u64", "epoch">>, <<"u64", "next_set_id">>, <<"u64", "next_policy_id">>,
                  <<"u64", "next_plan_id">>, <<"u64", "next_attempt_sequence">>>>

ReadPath == <<<<"u64", "path">>, <<"u64", "generation">>, <<"legality", "legality">>>>

ReadPublisher ==
  <<<<"u64", "id">>, <<"u64", "boot">>, <<"u64", "epoch">>, <<"scope", "kind">>,
    <<"string", "scope">>, <<"flag", "fenced">>, <<"reason", "reason">>, <<"u64", "sequence">>,
    <<"string", "detail">>>>

ReadAttempt ==
  <<<<"u64", "high">>, <<"u64", "low">>, <<"u64", "set">>, <<"digest", "payload">>,
    <<"u16", "code">>, <<"u64", "sequence">>>>

ReadSetHead ==
  <<<<"u64", "id">>, <<"string", "fabric">>, <<"string", "namespace">>, <<"string", "route">>,
    <<"u64", "multipath">>, <<"string", "policy_name">>, <<"u64", "policy_id">>,
    <<"u64", "set_generation">>, <<"u64", "policy_generation">>,
    <<"u64", "assignment_generation">>, <<"u64", "authority_generation">>,
    <<"lifecycle", "lifecycle">>, <<"u64", "minimum_positive">>, <<"u64", "maximum">>,
    <<"u32", "space">>, <<"u32", "min_effective_members">>>>

ReadMember ==
  <<<<"u64", "id">>, <<"u64", "path">>, <<"u64", "path_authority">>, <<"flag", "has_multipath">>,
    <<"u64", "multipath_set">>, <<"u64", "multipath_generation">>, <<"u64", "multipath_member">>,
    <<"u64", "declared_weight">>, <<"flag", "admin_enabled">>, <<"u64", "member_generation">>,
    <<"u64", "weight_generation">>>>

ReadStanding ==
  <<<<"flag", "authoritative">>, <<"u64", "epoch_bound">>, <<"u64", "publisher">>,
    <<"u64", "boot">>, <<"u64", "revision">>, <<"u64", "churn_last">>, <<"u64", "churn_total">>>>

ReadHistory ==
  <<<<"u64", "revision">>, <<"u16", "change">>, <<"u64", "set_generation">>,
    <<"u64", "policy_generation">>, <<"u64", "assignment_generation">>, <<"u64", "churn">>,
    <<"u64", "epoch">>, <<"u64", "publisher">>, <<"digest", "policy_digest">>,
    <<"digest", "assignment_digest">>>>

\* The smallest size of an entry, without its length, as the code states it.
MinimumMember == 74
MinimumHistory == 122
MinimumPath == 17
MinimumMultipath == 20
MinimumPublisher == 44
MinimumAttempt == 50
MinimumOwner == 8
Length == 4

\* A list without a bound of its own: what remains bounds it.
Unlimited(reader) == Size(reader.rest)

\* The members: SelectionSpaceSize::make has refused 0 before they are read.
GetMembers(head) ==
  IF head.code = "Ok" /\ head.read.space = 0 THEN Reject(head, "Corrupt")
  ELSE GetList(head, "members", ReadMember, MaxMembers, MinimumMember)

\* A slot map that is present, behind its size: both counts are the selection space.
GetSized(sized, read) ==
  LET counted == Get(sized, "u32", "count") IN
  IF counted.code # "Ok" THEN counted
  ELSE IF {sized.read.size, counted.read.count} # {read.space} THEN Reject(sized, "Corrupt")
  ELSE GetList([sized EXCEPT !.read = read], "owners", ListedFields, MaxSpace, MinimumOwner)

\* The slot map of a set record, if its flag says that there is one.
GetMap(flagged, read) ==
  IF flagged.code # "Ok" THEN flagged
  ELSE IF flagged.read.present = 0 THEN [flagged EXCEPT !.read = With(read, "owners", <<>>)]
  ELSE GetSized(Get(flagged, "u32", "size"), read)

GetOwners(reader) == GetMap(Get(reader, "flag", "present"), reader.read)

GetHistory(reader) == GetList(reader, "history", ReadHistory, MaxHistory, MinimumHistory)

\* decode_set_record
DecodeSet(tokens) ==
  GetHistory(GetAll(GetOwners(GetMembers(GetAll(Reader(tokens), ReadSetHead))), ReadStanding))

DecodePath(tokens) == GetAll(Reader(tokens), ReadPath)
DecodePublisher(tokens) == GetAll(Reader(tokens), ReadPublisher)
DecodeAttempt(tokens) == GetAll(Reader(tokens), ReadAttempt)

GetListed(head) == GetList(head, "members", ListedFields, Unlimited(head), MinimumOwner)

\* decode_multipath_record
DecodeMultipath(tokens) == GetListed(GetAll(Reader(tokens), MultipathFields))

\* validate_set and WeightBounds.
ValidSet(set) ==
  /\ \A f \in {"id", "fabric", "namespace", "policy_name", "policy_id", "set_generation",
               "policy_generation", "assignment_generation", "authority_generation",
               "space", "min_effective_members", "epoch_bound"} : set[f] # 0
  /\ set.minimum_positive # 0 /\ set.minimum_positive <= set.maximum
  /\ set.members # <<>>
  /\ \A i \in DOMAIN set.members :
       LET m == set.members[i] IN
       /\ \A f \in {"id", "path", "path_authority", "member_generation", "weight_generation"} :
            m[f] # 0
       /\ m.has_multipath = 1 =>
            m.multipath_set # 0 /\ m.multipath_generation # 0 /\ m.multipath_member # 0
       /\ m.declared_weight = 0 \/ m.declared_weight \in set.minimum_positive..set.maximum
       /\ i > 1 => set.members[i - 1].id < m.id
  /\ IF set.owners = <<>> THEN set.authoritative = 0
     ELSE \A i \in DOMAIN set.owners :
            set.owners[i].id = 0 \/ \E j \in DOMAIN set.members : set.members[j].id = set.owners[i].id
  /\ \A i \in DOMAIN set.history :
       \A f \in {"set_generation", "policy_generation", "assignment_generation", "epoch"} :
         set.history[i][f] # 0

ValidPath(view) == view.path # 0 /\ view.generation # 0
ValidMultipath(view) ==
  /\ view.set # 0 /\ view.generation # 0
  /\ \A i \in DOMAIN view.members : view.members[i].id # 0
ValidPublisher(p) == p.id # 0 /\ p.boot # 0
ValidAttempt(a) == a.high # 0 \/ a.low # 0

\* What tells two entries of a collection apart: no two may agree on one of these.
SetKeys(set) ==
  {<<"id", set.id>>,
   <<"key", <<set.fabric, set.namespace, set.route, set.multipath, set.policy_name>>>>}
PathKeys(view) == {view.path}
MultipathKeys(view) == {view.set}
PublisherKeys(p) == {p.id}
AttemptKeys(a) == {<<a.high, a.low>>}

\* Faulty: what follows the last field of a record is not looked at.
Lenient(entry) == TRUE

\* payload.empty(): the record is consumed exactly.
Consumed(entry) == entry.rest = <<>>

Collections == {"sets", "paths", "multipath", "publishers", "attempts"}

\* What decodes, validates and tells apart the entries of each collection.
DecodeEntry(name, tokens) ==
  CASE name = "sets"       -> DecodeSet(tokens)
    [] name = "paths"      -> DecodePath(tokens)
    [] name = "multipath"  -> DecodeMultipath(tokens)
    [] name = "publishers" -> DecodePublisher(tokens)
    [] name = "attempts"   -> DecodeAttempt(tokens)

ValidEntry(name, entry) ==
  CASE name = "sets"       -> ValidSet(entry)
    [] name = "paths"      -> ValidPath(entry)
    [] name = "multipath"  -> ValidMultipath(entry)
    [] name = "publishers" -> ValidPublisher(entry)
    [] name = "attempts"   -> ValidAttempt(entry)

EntryKeys(name, entry) ==
  CASE name = "sets"       -> SetKeys(entry)
    [] name = "paths"      -> PathKeys(entry)
    [] name = "multipath"  -> MultipathKeys(entry)
    [] name = "publishers" -> PublisherKeys(entry)
    [] name = "attempts"   -> AttemptKeys(entry)

\* A decoded entry is taken if it is consumed, valid, and unlike every earlier one.
Taken(reader, name, entry) ==
  IF entry.code # "Ok" THEN Reject(reader, entry.code)
  ELSE IF ~Consumed(entry) \/ ~ValidEntry(name, entry.read) THEN Reject(reader, "Corrupt")
  ELSE IF \E e \in Range(reader.read[name]) : EntryKeys(name, e) \cap EntryKeys(name, entry.read) # {}
  THEN Reject(reader, "Corrupt")
  ELSE [reader EXCEPT !.rest = Tail(@), !.read[name] = Append(@, entry.read)]

\* One turn of the loop of decode_sets and its like.
GetRecord(reader, name) ==
  IF reader.code # "Ok" THEN reader
  ELSE IF reader.rest = <<>> \/ Head(reader.rest).kind # "record" THEN Reject(reader, "Corrupt")
  ELSE IF FieldsSize(Head(reader.rest).value) > MaxRecord THEN Reject(reader, "ResourceLimit")
  ELSE Taken(reader, name, DecodeEntry(name, Head(reader.rest).value))

RecordLoop(reader, name, count) ==
  FoldLeft(LAMBDA r, i : GetRecord(r, name), reader, [i \in 1..count |-> i])

\* The records behind a count: within a limit, each of at least unit bytes.
GetCounted(counted, read, name, limit, unit) ==
  IF counted.code # "Ok" THEN counted
  ELSE IF counted.read.count > limit THEN Reject(counted, "ResourceLimit")
  ELSE IF ~EntriesFit(counted.read.count, unit, counted.rest) THEN Reject(counted, "Corrupt")
  ELSE RecordLoop([counted EXCEPT !.read = With(read, name, <<>>)], name, counted.read.count)

GetRecords(reader, name, limit, unit) ==
  GetCounted(Get(reader, "u32", "count"), reader.read, name, limit, unit)

\* decode_sets also counts the members of all sets; the largest selection space is
\* a limit that validate_set asks for.
WithinTotals(reader) ==
  IF reader.code # "Ok" THEN reader
  ELSE IF Members(reader.read.sets) > MaxTotal \/ \E set \in Range(reader.read.sets) : set.space > MaxSpace
  THEN Reject(reader, "ResourceLimit") ELSE reader

GetSets(reader) == WithinTotals(GetRecords(reader, "sets", MaxSets, Length))
GetPaths(reader) == GetRecords(reader, "paths", Unlimited(reader), MinimumPath + Length)
GetMultipath(reader) ==
  GetRecords(reader, "multipath", Unlimited(reader), MinimumMultipath + Length)
GetPublishers(reader) ==
  GetRecords(reader, "publishers", MaxPublishers, MinimumPublisher + Length)
GetAttempts(reader) == GetRecords(reader, "attempts", MaxAttempts, MinimumAttempt + Length)

\* Nothing may follow the last collection.
Ended(reader) ==
  IF reader.code = "Ok" /\ reader.rest # <<>> THEN Reject(reader, "Corrupt") ELSE reader

\* decode_engine_state
Decoded(f) ==
  IF f.magic # "WPFS" THEN Reject(Reader(<<>>), "Corrupt")
  ELSE IF f.version # Version \/ f.flags # 0 THEN Reject(Reader(<<>>), "VersionUnsupported")
  ELSE IF f.digest # <<f.magic, f.version, f.flags, f.body>>
  THEN Reject(Reader(<<>>), "IntegrityFailure")
  ELSE Ended(GetAttempts(GetPublishers(GetMultipath(GetPaths(GetSets(
               GetAll(Reader(f.body), ReadCounters)))))))

----------------------------------------------------------------------------
(* What the engine exports.                                                 *)

\* Each field of r is a number, or a digest; a list of such records is a sequence.
HasFields(r, layout) ==
  \A i \in DOMAIN layout : layout[i][1] # "digest" => r[layout[i][2]] \in Nat
HasList(rs, layout) == rs \in Seq(Range(rs)) /\ \A i \in DOMAIN rs : HasFields(rs[i], layout)

\* SetRecord and what it holds.
HasSet(set) ==
  /\ HasFields(set, SetFields) /\ HasList(set.members, MemberFields)
  /\ HasList(set.owners, ListedFields) /\ HasFields(set, StandingFields)
  /\ HasList(set.history, HistoryFields)

\* EngineState
HasState(s) ==
  /\ HasFields(s, Counters)
  /\ s.sets \in Seq(Range(s.sets)) /\ \A i \in DOMAIN s.sets : HasSet(s.sets[i])
  /\ HasList(s.paths, PathFields)
  /\ HasList(s.multipath, MultipathFields)
  /\ \A i \in DOMAIN s.multipath : HasList(s.multipath[i].members, ListedFields)
  /\ HasList(s.publishers, PublisherFields) /\ HasList(s.attempts, AttemptFields)

ASSUME StoreAssumption == Noise \subseteq Nat /\ \A s \in States : HasState(s)

\* r has fields of these names and no others.
Names(layout) == {layout[i][2] : i \in DOMAIN layout}
Exactly(r, names) == r = [n \in names |-> r[n]]

\* The fields of closed types have the values of their types.
IsKnown(r, layout) ==
  \A i \in DOMAIN layout :
    layout[i][1] \in DOMAIN Known => r[layout[i][2]] \in Known[layout[i][1]]
IsEntry(r, layout, lists) == Exactly(r, Names(layout) \cup lists) /\ IsKnown(r, layout)
IsList(rs, layout) == \A i \in DOMAIN rs : IsEntry(rs[i], layout, {})

\* A set, with a slot map of its selection space if it has one.
IsSet(set) ==
  /\ IsEntry(set, ReadSetHead, Names(ReadStanding) \cup {"members", "owners", "history"})
  /\ IsKnown(set, ReadStanding)
  /\ IsList(set.members, ReadMember) /\ IsList(set.owners, ListedFields)
  /\ IsList(set.history, ReadHistory)
  /\ set.owners = <<>> \/ Len(set.owners) = set.space

\* What the engine lets in. It checks what the store validates, but for the members of
\* a multipath report: observe_multipath_set takes whatever identities it lists.
IsAccepted(name, entry) ==
  IF name = "multipath" THEN entry.set # 0 /\ entry.generation # 0 ELSE ValidEntry(name, entry)

\* What holds of the engine by its own checks: its structures have the fields of their
\* types, and its entries are accepted ones of which no two have an identity in common.
IsExport(s) ==
  /\ Exactly(s, Names(Counters) \cup Collections)
  /\ \A i \in DOMAIN s.sets : IsSet(s.sets[i])
  /\ \A i \in DOMAIN s.multipath :
       /\ IsEntry(s.multipath[i], MultipathFields, {"members"})
       /\ IsList(s.multipath[i].members, ListedFields)
  /\ IsList(s.paths, ReadPath) /\ IsList(s.publishers, ReadPublisher)
  /\ IsList(s.attempts, ReadAttempt)
  /\ \A name \in Collections : \A i \in DOMAIN s[name] :
       /\ IsAccepted(name, s[name][i])
       /\ \A j \in 1..(i - 1) : EntryKeys(name, s[name][j]) \cap EntryKeys(name, s[name][i]) = {}

ASSUME ExportAssumption == \A s \in States : IsExport(s)

ASSUME LimitsAssumption ==
  /\ MaxSets \in Nat /\ MaxMembers \in Nat /\ MaxTotal \in Nat /\ MaxSpace \in Nat
  /\ MaxHistory \in Nat /\ MaxPublishers \in Nat /\ MaxAttempts \in Nat /\ MaxRecord \in Nat

----------------------------------------------------------------------------
(* The life of a store.                                                     *)

Init == state \in States /\ file = NoFile /\ intact = TRUE

\* save_engine_state: a state the encoder refuses leaves the file as it was.
Save ==
  /\ file = NoFile /\ WithinLimits(state)
  /\ file' = Encoded(state)
  /\ UNCHANGED <<state, intact>>

\* Something else than this program changes the file: one field of the body or of a
\* record takes another value, is lost or is put twice, the body is cut short, or
\* the header is another one; the trailer is computed again or is not.
Edits(tokens) ==
  {[tokens EXCEPT ![i].value = v] : i \in {j \in DOMAIN tokens : tokens[j].kind # "record"}, v \in Noise}
    \cup {RemoveAt(tokens, i) : i \in DOMAIN tokens}
    \cup {InsertAt(tokens, i, tokens[i]) : i \in DOMAIN tokens}
    \cup {SubSeq(tokens, 1, i) : i \in 0..(Len(tokens) - 1)}
Rewrites(body) ==
  Edits(body) \cup
    UNION {{[body EXCEPT ![i].value = e] : e \in Edits(body[i].value)} :
             i \in {j \in DOMAIN body : body[j].kind = "record"}}
Headers == {<<"WPFS", Version, 0>>, <<"WPFS", Version + 1, 0>>, <<"WPFS", Version, 1>>, <<"other", Version, 0>>}
Rewrite ==
  /\ file # NoFile /\ intact
  /\ \/ \E body \in Rewrites(file.body) : file' = Sealed(file.magic, file.version, file.flags, body)
     \/ \E body \in Rewrites(file.body) : file' = [file EXCEPT !.body = body]
     \/ \E h \in Headers : file' = Sealed(h[1], h[2], h[3], file.body)
  /\ intact' = FALSE
  /\ UNCHANGED state

Next == Save \/ Rewrite

Spec == Init /\ [][Next]_vars

----------------------------------------------------------------------------

\* A publisher record with no scope and no detail takes 43 bytes and its length, the
\* reader expects 44. A store of such records alone is refused: this case is left out.
RoomForPublishers ==
  LET r == Records(state) IN
  (MinimumPublisher + Length) * Len(r.publishers)
    <= Size(Collection(r.publishers)) + Size(Collection(r.attempts)) - Length

\* A multipath view that lists a member without an identity is accepted, and saved, and
\* no store that holds it is loaded: validate_multipath refuses what the engine did not.
MembersAreNamed ==
  \A i \in DOMAIN state.multipath :
    \A j \in DOMAIN state.multipath[i].members : state.multipath[i].members[j].id # 0

\* "The exact inverse of encode_engine_state for every state this runtime produces"
\* (persistence.hpp), but for the two cases above: what was saved is loaded again, field
\* by field, whatever the engine had grown to within its limits. The two sides agree on
\* the order and kind of every field, on every limit, and on the least an entry can take.
SavedIsLoaded ==
  file # NoFile /\ intact /\ RoomForPublishers /\ MembersAreNamed =>
    LET loaded == Decoded(file) IN loaded.code = "Ok" /\ loaded.read = state

\* "One state has exactly one encoding and a record can never hide trailing bytes"
\* (persistence.hpp): a file that loads, whoever wrote it, is the very file that saving
\* the loaded state would write.
OneEncoding ==
  file # NoFile =>
    LET loaded == Decoded(file) IN loaded.code = "Ok" => file = Encoded(loaded.read)
=============================================================================
