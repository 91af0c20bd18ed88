------------------------------- MODULE MCAttempt -------------------------------
EXTENDS AttemptControl

CONSTANTS o1
===============================================================================
