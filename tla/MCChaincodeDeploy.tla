--------------------------- MODULE MCChaincodeDeploy ---------------------------
(* Values of ChaincodeDeploy's constants for TLC. *)
EXTENDS ChaincodeDeploy, TLC

CONSTANTS tls, labelled

\* A spec with a certificate, and one without but with another pod label.
Labelled == [s \in Specs |-> IF s = labelled THEN "new label" ELSE "none"]
=============================================================================
