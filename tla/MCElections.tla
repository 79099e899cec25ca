------------------------------ MODULE MCElections ------------------------------
EXTENDS Elections
================================================================================
