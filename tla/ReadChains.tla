------------------------------- MODULE ReadChains ------------------------------
(***************************************************************************)
(* ReadPipeline for the chains of transformers that the client itself      *)
(* builds (client/src/journal_client.ts).                                  *)
(***************************************************************************)
EXTENDS ReadPipeline

(* JournalClient.read, and parseJournalDocuments behind it.                *)
ReadStages == <<"split", "parse", "unwrap">>
DocumentStages == ReadStages \o <<"decode", "split", "parse">>

ASSUME ChainAssumption == Pipelines \subseteq {ReadStages, DocumentStages}
================================================================================
