---------------------------- MODULE MCDifficulty ----------------------------
EXTENDS Difficulty
=============================================================================
