----------------------------- MODULE MCPCPStream -----------------------------
EXTENDS PCPStream, TLC

CONSTANTS HeaderSets, FieldSets

MCMaxSets == [k \in Kinds |-> IF k = "header" THEN HeaderSets ELSE FieldSets]
==============================================================================
