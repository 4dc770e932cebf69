----------------------------- MODULE MCReadPipeline ----------------------------
(* ReadPipeline for TLC: the stages of JournalClient.read, those of        *)
(* parseJournalDocuments behind them, and a few contents.                  *)
EXTENDS ReadChains

CONSTANTS d1, d2, garbage

Both == {ReadStages, DocumentStages}
WithDocuments == {DocumentStages}

(* The rest of a document that began before the offset, a document that    *)
(* goes on in the next response, two at once, and a JSON null.             *)
Journal == {<<>>, <<garbage, nl, d1>>, <<nl, d2, nl>>}
JournalWithNull == {<<d1, nl, null, nl>>, <<d2, nl>>}
================================================================================
