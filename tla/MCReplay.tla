------------------------------ MODULE MCReplay ------------------------------
EXTENDS Replay
=============================================================================
