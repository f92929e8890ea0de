------------------------------- MODULE MCLibSync -------------------------------
EXTENDS LibSync
================================================================================
