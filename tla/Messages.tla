-------------------------------- MODULE Messages -------------------------------
(***************************************************************************)
(* The messages of the API as the client knows them (the types generated   *)
(* under client/src/gen).  Of every type, the fields that the client or    *)
(* its callers read or write; headers, routes, revisions, extensions and   *)
(* the like only pass through.  Every field is optional in the types: a    *)
(* message may lack any of them.                                           *)
(***************************************************************************)

(* Selecting what to list.                                                 *)
Label(name, value)              == [name |-> name, value |-> value]
LabelSet(labels)                == [labels |-> labels]
LabelSelector(include, exclude) == [include |-> include, exclude |-> exclude]
ListRequest(selector)           == [selector |-> selector]
ListShardsRequest(selector)     == [selector |-> selector]

(* Journals.                                                               *)
ProtocolStatus ==
  {"OK", "JOURNAL_NOT_FOUND", "NO_JOURNAL_PRIMARY_BROKER",
   "NOT_JOURNAL_PRIMARY_BROKER", "NOT_JOURNAL_BROKER",
   "INSUFFICIENT_JOURNAL_BROKERS", "OFFSET_NOT_YET_AVAILABLE", "WRONG_ROUTE",
   "PROPOSAL_MISMATCH", "ETCD_TRANSACTION_FAILED", "NOT_ALLOWED",
   "WRONG_APPEND_OFFSET", "INDEX_HAS_GREATER_OFFSET", "REGISTER_MISMATCH"}

JournalSpec(name)         == [name |-> name]
ListResponseJournal(spec) == [spec |-> spec, modRevision |-> "1"]
ListResponse(status, journals) == [status |-> status, journals |-> journals]

ReadRequest(journal, endOffset) ==
  [journal |-> journal, endOffset |-> endOffset]
ReadResponse(status, content) == [status |-> status, content |-> content]

(* Shards.                                                                 *)
ConsumerStatus ==
  {"OK", "SHARD_NOT_FOUND", "NO_SHARD_PRIMARY", "NOT_SHARD_PRIMARY",
   "ETCD_TRANSACTION_FAILED", "SHARD_STOPPED"}
ReplicaStatusCode == {"IDLE", "BACKFILL", "STANDBY", "PRIMARY", "FAILED"}

ShardSpec(id)                   == [id |-> id]
ReplicaStatus(code)             == [code |-> code]
ListResponseShard(spec, status) ==
  [spec |-> spec, status |-> status, modRevision |-> "1"]
ListShardsResponse(status, shards) == [status |-> status, shards |-> shards]

StatRequest(shard, readThrough) ==
  [shard |-> shard, readThrough |-> readThrough]
StatResponse(status, readThrough) ==
  [status |-> status, readThrough |-> readThrough]

(* What the REST mux says of a failure, before a stream and within one.    *)
RuntimeError(code, message) == [code |-> code, message |-> message]
RuntimeStreamError(httpStatus, message) ==
  [httpStatus |-> httpStatus, message |-> message]
================================================================================
