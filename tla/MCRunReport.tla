------------------------------ MODULE MCRunReport ------------------------------
EXTENDS RunReport, TLC

CONSTANTS first, second, one, two

MCOrder == <<first, second>>
MCFiles == <<one, two>>

===============================================================================
