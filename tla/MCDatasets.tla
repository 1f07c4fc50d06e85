------------------------------ MODULE MCDatasets ------------------------------
(***************************************************************************)
(* The instance of Datasets that TLC checks: two contracts, two bar sizes,  *)
(* gathers of all contracts, and of one of them twice with an unknown one.  *)
(***************************************************************************)
EXTENDS Datasets

CONSTANTS aapl, ibm, nobody

MCAllContracts == <<ibm, aapl>>
MCSelections == {<<>>, <<ibm, nobody, ibm>>}

===============================================================================
