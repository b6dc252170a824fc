---------------------------- MODULE MCTransactions ----------------------------
EXTENDS Transactions
===============================================================================
